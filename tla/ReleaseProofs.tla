--------------------------- MODULE ReleaseProofs ---------------------------
(***************************************************************************)
(* Theorems about what a release and a tenant's settings decide: the words *)
(* of emails, the answers a model proposes, the risk score, the days a     *)
(* clock counts.  They hold for any builds, wordings, question sets,       *)
(* replies, facts and calendars.  Migrations have a module of their own.   *)
(***************************************************************************)
EXTENDS Release, FiniteSetTheorems, WellFoundedInduction, TLAPS

-----------------------------------------------------------------------------
(* Rolling out *)

\* Only builds that exist are served.
ServingOK == Served \subseteq Builds

LEMMA ServingInit == Init => ServingOK
BY DEF Init, ServingOK, Served

LEMMA ServingStep == ServingOK /\ [Next]_vars => ServingOK'
<1>. SUFFICES ASSUME ServingOK, [Next]_vars PROVE ServingOK'
  OBVIOUS
<1>1. CASE RollOut
  <2>1. PICK r \in Replicas : (\E b \in Builds : Run(r, b)) \/ Shutdown(r)
    BY <1>1 DEF RollOut
  <2>2. PICK s \in Builds \cup {NoOne} : serving' = [serving EXCEPT ![r] = s]
    BY <2>1 DEF Run, Shutdown
  <2>. QED  BY <2>2 DEF ServingOK, Served
<1>2. CASE Migrating
  <2>1. UNCHANGED serving
    BY <1>2 DEF Migrating, Migrate, Command, AdvisoryLock, ReadApplied, SkipFile, ApplyFile, Finish, Lose
  <2>. QED  BY <2>1 DEF ServingOK, Served
<1>3. CASE Wording \/ Counting \/ Asking \/ Scoring \/ UNCHANGED vars
  BY <1>3 DEF Wording, Counting, Asking, Scoring, vars, migrationVars, ServingOK, Served
<1>. QED  BY <1>1, <1>2, <1>3 DEF Next

-----------------------------------------------------------------------------
(* Wording *)

\* What applyStored hands out was checked against the very form it belongs to, either
\* when the build started or just now.
LEMMA AppliedIsChecked ==
  ASSUME NEW b \in Builds
  PROVE  checkTemplate(applyStored(Base[b]))
BY BaseAssumption, ReleaseAssumption DEF applyStored, Applies

LEMMA CheckedFits ==
  ASSUME NEW t, checkTemplate(t)
  PROVE  Names(t) \subseteq DOMAIN t.fields \cup factNames
BY DEF checkTemplate

WordingInv == ServingOK /\ SentFitsItsForm

LEMMA WordingStep == WordingInv /\ [Next]_vars => WordingInv'
<1>. SUFFICES ASSUME WordingInv, [Next]_vars PROVE SentFitsItsForm'
  BY ServingStep DEF WordingInv
<1>1. CASE UNCHANGED sent
  BY <1>1 DEF WordingInv, SentFitsItsForm
<1>2. ASSUME NEW b \in Served, ListEmailTemplates(b) PROVE SentFitsItsForm'
  BY <1>2 DEF ListEmailTemplates, SentFitsItsForm
<1>3. ASSUME NEW b \in Served, NEW inputs \in Forms, ComposeEmail(b, inputs) PROVE SentFitsItsForm'
  <2>1. PICK tpl : tpl = applyStored(Base[b])
    OBVIOUS
  <2>2. Names(tpl) \subseteq DOMAIN tpl.fields \cup factNames
    BY <2>1, AppliedIsChecked, CheckedFits DEF WordingInv, ServingOK
  <2>3. sent'[1].wording = tpl
    BY <1>3, <2>1 DEF ComposeEmail
  <2>. QED  BY <2>2, <2>3 DEF SentFitsItsForm
<1>4. CASE Wording
  BY <1>1, <1>2, <1>3, <1>4 DEF Wording, PutTemplateSetting, DeleteTemplateSetting, NextDay
<1>. QED  BY <1>1, <1>4 DEF Next, RollOut, Migrating, Counting, Asking, Scoring, vars, wordingVars

\* A customer is never sent words made for another form: whatever wordings a tenant
\* stores, and whichever builds accept them and use them, every name in the wording of
\* a sent email is a field of that form or a fact (ApplyOverride, applyStored).
THEOREM SentAlwaysFitsItsForm == Spec => []SentFitsItsForm
<1>1. Init => WordingInv
  BY ServingInit DEF Init, WordingInv, SentFitsItsForm
<1>2. WordingInv => SentFitsItsForm
  BY DEF WordingInv
<1>. QED  BY <1>1, <1>2, WordingStep, PTL DEF Spec

-----------------------------------------------------------------------------
(* Proposals.  A value in the form, proposed or chosen, was made for a set *)
(* of questions that was asked, or shown, while the form was open.         *)

RowOK ==
  questionnaire # <<>> =>
    /\ questionnaire = <<questionnaire[1]>>
    /\ questionnaire[1] = [questions |-> questionnaire[1].questions,
                           answers |-> questionnaire[1].answers,
                           received |-> questionnaire[1].received]
    /\ DOMAIN questionnaire[1].questions # {}

\* Values that each fit one of the sets.
Fit(sets, values) ==
  \A id \in DOMAIN values :
    values[id] # NoAnswer =>
      \E questions \in sets : /\ id \in DOMAIN questions
                              /\ values[id] \in WellFormed[questions[id].type]

PageOK == page # <<>> => questionnaire # <<>>

FormType ==
  form # <<>> =>
    /\ form = <<form[1]>>
    /\ form[1] = [values |-> form[1].values, proposed |-> form[1].proposed,
                  touched |-> form[1].touched, sets |-> form[1].sets]

FormOK ==
  form # <<>> =>
    /\ page # <<>> /\ questionnaire # <<>>
    /\ page[1].questions \in form[1].sets
    /\ questionnaire[1].questions \in form[1].sets
    /\ Fit(form[1].sets, form[1].values)

AskingType ==
  /\ DOMAIN asking = Replies
  /\ \A n \in Replies : asking[n] = [stage |-> asking[n].stage, shown |-> asking[n].shown]

AskingOK ==
  \A n \in Replies :
    /\ asking[n].stage # "none" => form # <<>>
    /\ asking[n].stage = "answered" => Fit(form[1].sets, asking[n].shown)

PanelOK == RowOK /\ PageOK /\ FormType /\ FormOK /\ AskingType /\ AskingOK

IntakeInv == ServingOK /\ PanelOK

\* What is shown of a model's answers is a yes or a no to some of what it was asked.
LEMMA ShownAnswers ==
  ASSUME NEW S, NEW noul \in [S \cup {Gate} -> Levels]
  PROVE  /\ DOMAIN Shown(noul) \subseteq S
         /\ \A id \in DOMAIN Shown(noul) : Shown(noul)[id] \in {"yes", "no"}
<1>1. PICK answers : answers = ProposeAll(noul)
  OBVIOUS
<1>2. DOMAIN answers \subseteq S \cup {Gate} /\ \A id \in DOMAIN answers : answers[id] \in {"yes", "no"}
  BY <1>1 DEF ProposeAll, Decide
<1>3. CASE Is(answers, Gate, "yes")
  <2>1. Shown(noul) = [id \in DOMAIN answers \ {Gate} |-> answers[id]]
    BY <1>1, <1>3 DEF Shown
  <2>. QED  BY <1>2, <2>1
<1>4. CASE ~Is(answers, Gate, "yes")
  <2>1. Shown(noul) = <<>>
    BY <1>1, <1>4 DEF Shown
  <2>. QED  BY <2>1
<1>. QED  BY <1>3, <1>4

\* The question set a build carries asks something.
LEMMA SetsAsk == ASSUME NEW b \in Builds PROVE DOMAIN Sets[b] # {}
BY SetsAssumption, ReleaseAssumption DEF checkQuestionSet

\* What fits some sets fits more of them.
LEMMA FitMore ==
  ASSUME NEW S, NEW T, S \subseteq T, NEW values, Fit(S, values)
  PROVE  Fit(T, values)
BY DEF Fit

LEMMA BlankFits == ASSUME NEW S, NEW questions PROVE Fit(S, Blank(questions))
BY DEF Fit, Blank

LEMMA OverFits ==
  ASSUME NEW S, NEW f, NEW g, Fit(S, f), Fit(S, g)
  PROVE  Fit(S, Over(f, g))
BY DEF Fit, Over

LEMMA ReadReplyStep ==
  ASSUME PanelOK, NEW n \in Replies, ReadReply(n)
  PROVE  PanelOK'
<1>1. RowOK' /\ PageOK' /\ FormType' /\ FormOK'
  BY DEF ReadReply, rowVars, PanelOK, RowOK, PageOK, FormType, FormOK
<1>2. /\ DOMAIN asking' = Replies
      /\ \A k \in Replies : asking'[k] = IF k = n THEN [stage |-> "asked", shown |-> asking[n].shown]
                                                  ELSE asking[k]
  BY DEF ReadReply, PanelOK, AskingType
<1>3. AskingType'
  BY <1>2 DEF PanelOK, AskingType
<1>4. AskingOK'
  BY <1>2 DEF ReadReply, PanelAsks, PanelOK, AskingOK
<1>. QED  BY <1>1, <1>3, <1>4 DEF PanelOK

LEMMA SuggestStep ==
  ASSUME PanelOK, NEW n \in Replies, NEW b \in Builds, SuggestQuestionnaireAnswers(n, b)
  PROVE  PanelOK'
<1>1. RowOK' /\ PageOK' /\ FormType' /\ FormOK'
  BY DEF SuggestQuestionnaireAnswers, rowVars, PanelOK, RowOK, PageOK, FormType, FormOK
<1>2. PICK qs : qs = questionnaire[1].questions
  OBVIOUS
<1>3. form # <<>>
  BY DEF SuggestQuestionnaireAnswers, PanelOK, AskingOK
<1>4. Asked(b) = qs /\ qs \in form[1].sets
  BY <1>2, <1>3 DEF PanelOK, FormOK, RowOK, Asked
<1>5. PICK noul \in [YesNo(qs) \cup {Gate} -> Levels] :
        asking' = [asking EXCEPT ![n] = [stage |-> "answered", shown |-> Shown(noul)]]
  BY <1>4 DEF SuggestQuestionnaireAnswers
<1>6. PICK shown : shown = Shown(noul)
  OBVIOUS
<1>7. DOMAIN shown \subseteq YesNo(qs) /\ \A id \in DOMAIN shown : shown[id] \in {"yes", "no"}
  BY <1>6, ShownAnswers
<1>8. Fit(form[1].sets, shown)
  BY <1>4, <1>7 DEF Fit, YesNo, WellFormed
<1>9. /\ DOMAIN asking' = Replies
      /\ \A k \in Replies : asking'[k] = IF k = n THEN [stage |-> "answered", shown |-> shown]
                                                  ELSE asking[k]
  BY <1>5, <1>6 DEF PanelOK, AskingType
<1>10. AskingType'
  BY <1>9 DEF PanelOK, AskingType
<1>11. form' = form
  BY DEF SuggestQuestionnaireAnswers
<1>12. AskingOK'
  BY <1>3, <1>8, <1>9, <1>11 DEF PanelOK, AskingOK
<1>. QED  BY <1>1, <1>10, <1>12 DEF PanelOK

\* A step that gives the form other values, and leaves the rest of the panel's state.
LEMMA ValuesStep ==
  ASSUME PanelOK, form # <<>>,
         NEW v, NEW p, NEW t, Fit(form[1].sets, v),
         form' = <<[values |-> v, proposed |-> p, touched |-> t, sets |-> form[1].sets]>>,
         UNCHANGED <<rowVars, page>>
  PROVE  RowOK' /\ PageOK' /\ FormType' /\ FormOK'
<1>1. RowOK' /\ PageOK'
  BY DEF rowVars, PanelOK, RowOK, PageOK
<1>2. form'[1] = [values |-> v, proposed |-> p, touched |-> t, sets |-> form[1].sets] /\ form' = <<form'[1]>>
  OBVIOUS
<1>3. FormType'
  BY <1>2 DEF FormType
<1>4. FormOK'
  BY <1>2 DEF rowVars, PanelOK, FormOK
<1>. QED  BY <1>1, <1>3, <1>4

LEMMA ProposedStep ==
  ASSUME PanelOK, NEW n \in Replies, Proposed(n)
  PROVE  PanelOK'
<1>1. form # <<>> /\ Fit(form[1].sets, asking[n].shown)
  BY DEF Proposed, PanelOK, AskingOK
<1>2. PICK v, p, t, s : form = <<[values |-> v, proposed |-> p, touched |-> t, sets |-> s]>>
  BY <1>1 DEF PanelOK, FormType
<1>3. PICK shown, w, ids, more : /\ shown = asking[n].shown /\ w = Over(v, shown)
                                 /\ ids = DOMAIN shown /\ more = (t \/ DOMAIN shown # {})
  OBVIOUS
<1>4. form' = <<[values |-> w, proposed |-> ids, touched |-> more, sets |-> s]>>
  <2>1. PICK f1, f2 : /\ f1 = [form EXCEPT ![1] = [@ EXCEPT !.values = w]]
                      /\ f2 = [f1 EXCEPT ![1] = [@ EXCEPT !.proposed = ids]]
    OBVIOUS
  <2>2. f1 = <<[values |-> w, proposed |-> p, touched |-> t, sets |-> s]>>
    BY <1>2, <2>1
  <2>3. f2 = <<[values |-> w, proposed |-> ids, touched |-> t, sets |-> s]>>
    <3>1. PICK r1, r2 : /\ r1 = [values |-> w, proposed |-> p, touched |-> t, sets |-> s]
                        /\ r2 = [values |-> w, proposed |-> ids, touched |-> t, sets |-> s]
      OBVIOUS
    <3>2. [r1 EXCEPT !.proposed = ids] = r2
      BY <3>1
    <3>3. f1 = <<r1>> /\ f1[1] = r1
      BY <2>2, <3>1
    <3>4. f2 = [f1 EXCEPT ![1] = r2]
      BY <2>1, <3>2, <3>3, Zenon
    <3>5. f2 = <<r2>>
      BY <3>3, <3>4
    <3>. QED  BY <3>1, <3>5, Zenon
  <2>4. form[1].values = v /\ f2[1].touched = t
    BY <1>2, <2>3
  <2>5. form' = [f2 EXCEPT ![1] = [@ EXCEPT !.touched = more]]
    BY <1>3, <2>1, <2>4, Zenon DEF Proposed
  <2>. QED  BY <2>3, <2>5
<1>5. Fit(form[1].sets, w)
  BY <1>1, <1>2, <1>3, OverFits DEF PanelOK, FormOK
<1>6. form[1].sets = s
  BY <1>2
<1>7. RowOK' /\ PageOK' /\ FormType' /\ FormOK'
  BY <1>1, <1>4, <1>5, <1>6, ValuesStep DEF Proposed
<1>8. /\ DOMAIN asking' = Replies
      /\ \A k \in Replies : asking'[k] = IF k = n THEN NotAsked ELSE asking[k]
  BY DEF Proposed, PanelOK, AskingType
<1>9. AskingType'
  BY <1>8 DEF PanelOK, AskingType, NotAsked
<1>10. form' # <<>> /\ form'[1].sets = form[1].sets
  BY <1>4, <1>6
<1>11. AskingOK'
  BY <1>8, <1>10 DEF PanelOK, AskingOK, NotAsked
<1>. QED  BY <1>7, <1>9, <1>11 DEF PanelOK

LEMMA SendStep ==
  ASSUME PanelOK, NEW b \in Builds, SendQuestionnaire(b)
  PROVE  PanelOK'
<1>1. questionnaire' # <<>> /\ questionnaire'[1].questions = Sets[b]
  BY DEF SendQuestionnaire
<1>2. RowOK' /\ PageOK'
  BY <1>1, SetsAsk DEF SendQuestionnaire, RowOK, PageOK
<1>3. page' = page /\ asking' = asking
  BY DEF SendQuestionnaire
<1>4. AskingType'
  BY <1>3 DEF PanelOK, AskingType
<1>5. CASE form = <<>>
  <2>1. form' = <<>>
    BY <1>5 DEF SendQuestionnaire
  <2>2. AskingOK'
    BY <1>3, <1>5, <2>1 DEF PanelOK, AskingOK
  <2>. QED  BY <1>2, <1>4, <2>1, <2>2 DEF PanelOK, FormType, FormOK
<1>6. CASE form # <<>>
  <2>1. PICK v, p, t, s : form = <<[values |-> v, proposed |-> p, touched |-> t, sets |-> s]>>
    BY <1>6 DEF PanelOK, FormType
  <2>2. form' = <<[values |-> v, proposed |-> p, touched |-> t, sets |-> s \cup {Sets[b]}]>>
    <3>1. PICK f, g, more : /\ f = [values |-> v, proposed |-> p, touched |-> t, sets |-> s]
                            /\ more = s \cup {Sets[b]}
                            /\ g = [f EXCEPT !.sets = more]
      OBVIOUS
    <3>2. g = [values |-> v, proposed |-> p, touched |-> t, sets |-> more]
      BY <3>1
    <3>3. form = <<f>> /\ f.sets = s
      BY <2>1, <3>1
    <3>4. form' = [i \in {1} |-> [form[i] EXCEPT !.sets = @ \cup {Sets[b]}]]
      BY <3>3 DEF SendQuestionnaire
    <3>5. form' = <<[form[1] EXCEPT !.sets = @ \cup {Sets[b]}]>>
      BY <3>4
    <3>6. [form[1] EXCEPT !.sets = @ \cup {Sets[b]}] = g
      BY <3>1, <3>3
    <3>. QED  BY <3>1, <3>2, <3>5, <3>6
  <2>3. form[1].sets = s /\ form[1].values = v
    BY <2>1
  <2>4. form'[1].sets = s \cup {Sets[b]} /\ form'[1].values = v /\ form' # <<>>
    BY <2>2
  <2>5. FormType'
    BY <2>2 DEF FormType
  <2>6. Fit(s \cup {Sets[b]}, v)
    BY <1>6, <2>3, FitMore DEF PanelOK, FormOK
  <2>7. page # <<>> /\ page[1].questions \in s
    BY <1>6, <2>3 DEF PanelOK, FormOK
  <2>8. FormOK'
    BY <1>1, <1>3, <2>4, <2>6, <2>7 DEF FormOK
  <2>9. \A n \in Replies : asking[n].stage = "answered" => Fit(s \cup {Sets[b]}, asking[n].shown)
    BY <2>3, FitMore DEF PanelOK, AskingOK
  <2>10. AskingOK'
    BY <1>3, <2>4, <2>9 DEF AskingOK
  <2>. QED  BY <1>2, <1>4, <2>5, <2>8, <2>10 DEF PanelOK
<1>. QED  BY <1>5, <1>6

LEMMA RefreshStep ==
  ASSUME PanelOK, refreshDispute
  PROVE  PanelOK'
<1>1. questionnaire # <<>> /\ UNCHANGED <<questionnaire, asking>>
  BY DEF refreshDispute, rowVars
<1>2. RowOK' /\ PageOK' /\ AskingType'
  BY <1>1 DEF PanelOK, RowOK, PageOK, AskingType
<1>3. PICK qs : qs = questionnaire[1].questions
  OBVIOUS
<1>4. page' # <<>> /\ page'[1].questions = qs
  BY <1>3 DEF refreshDispute
<1>5. CASE form = <<>>
  <2>1. form' = <<>>
    BY <1>5 DEF refreshDispute
  <2>2. AskingOK'
    BY <1>1, <1>5, <2>1 DEF PanelOK, AskingOK
  <2>. QED  BY <1>2, <2>1, <2>2 DEF PanelOK, FormType, FormOK
<1>6. CASE form # <<>>
  <2>1. PICK v, p, t, s : form = <<[values |-> v, proposed |-> p, touched |-> t, sets |-> s]>>
    BY <1>6 DEF PanelOK, FormType
  <2>2. PICK w : /\ form' = <<[values |-> w, proposed |-> p, touched |-> t, sets |-> s]>>
                 /\ w = v \/ w = Blank(qs)
    <3>1. CASE t
      <4>1. form' = [i \in DOMAIN form |-> form[i]]
        BY <2>1, <3>1 DEF refreshDispute, update
      <4>2. form' = form
        BY <2>1, <4>1
      <4>. QED  BY <2>1, <4>2
    <3>2. CASE ~t
      BY <1>3, <2>1, <3>2 DEF refreshDispute, update
    <3>. QED  BY <3>1, <3>2
  <2>3. form[1].sets = s /\ form[1].values = v
    BY <2>1
  <2>4. form'[1].sets = s /\ form'[1].values = w /\ form' # <<>>
    BY <2>2
  <2>5. FormType'
    BY <2>2 DEF FormType
  <2>6. Fit(s, w)
    BY <1>6, <2>2, <2>3, BlankFits DEF PanelOK, FormOK
  <2>7. qs \in s
    BY <1>3, <1>6, <2>3 DEF PanelOK, FormOK
  <2>8. FormOK'
    BY <1>1, <1>3, <1>4, <2>4, <2>6, <2>7 DEF FormOK
  <2>9. AskingOK'
    BY <1>1, <2>3, <2>4 DEF PanelOK, AskingOK
  <2>. QED  BY <1>2, <2>5, <2>8, <2>9 DEF PanelOK
<1>. QED  BY <1>5, <1>6

LEMMA PanelStep ==
  ASSUME PanelOK, OpenPanel \/ LeavePanel
  PROVE  PanelOK'
<1>1. UNCHANGED <<questionnaire, page>>
  BY DEF OpenPanel, LeavePanel, rowVars
<1>2. RowOK' /\ PageOK'
  BY <1>1 DEF PanelOK, RowOK, PageOK
<1>3. CASE OpenPanel
  <2>1. PICK v, s : /\ v = Blank(page[1].questions) /\ s = {page[1].questions, questionnaire[1].questions}
                    /\ form' = <<[values |-> v, proposed |-> {}, touched |-> FALSE, sets |-> s]>>
    BY <1>3 DEF OpenPanel
  <2>2. form'[1].values = v /\ form'[1].sets = s /\ form' # <<>>
    BY <2>1
  <2>3. FormType'
    <3>1. PICK f : f = [values |-> v, proposed |-> {}, touched |-> FALSE, sets |-> s]
      OBVIOUS
    <3>2. form' = <<f>> /\ f.values = v /\ f.proposed = {} /\ f.touched = FALSE /\ f.sets = s
      BY <2>1, <3>1
    <3>3. f = [values |-> f.values, proposed |-> f.proposed, touched |-> f.touched, sets |-> f.sets]
      BY <3>1
    <3>. QED  BY <3>2, <3>3 DEF FormType
  <2>4. Fit(s, v)
    BY <2>1, BlankFits
  <2>5. page # <<>> /\ questionnaire # <<>>
    BY <1>3 DEF OpenPanel, PanelOK, PageOK
  <2>6. FormOK'
    BY <1>1, <2>1, <2>2, <2>4, <2>5 DEF FormOK
  <2>7. asking' = asking /\ form = <<>>
    BY <1>3 DEF OpenPanel
  <2>8. AskingType' /\ AskingOK'
    BY <2>7 DEF PanelOK, AskingType, AskingOK
  <2>. QED  BY <1>2, <2>3, <2>6, <2>8 DEF PanelOK
<1>4. CASE LeavePanel
  <2>1. form' = <<>> /\ asking' = [n \in Replies |-> NotAsked]
    BY <1>4 DEF LeavePanel
  <2>2. AskingType' /\ AskingOK'
    BY <2>1 DEF AskingType, AskingOK, NotAsked
  <2>. QED  BY <1>2, <2>1, <2>2 DEF PanelOK, FormType, FormOK
<1>. QED  BY <1>3, <1>4

LEMMA ChooseStep ==
  ASSUME PanelOK, NEW id, NEW v, page # <<>>, id \in DOMAIN page[1].questions, Choose(id, v)
  PROVE  PanelOK'
<1>1. form # <<>>
  BY DEF Choose, PanelAsks
<1>2. PICK w, p, t, s : form = <<[values |-> w, proposed |-> p, touched |-> t, sets |-> s]>>
  BY <1>1 DEF PanelOK, FormType
<1>3. PICK one, u, q, yes : /\ one = [x \in {id} |-> v] /\ u = Over(w, one)
                            /\ q = (IF page[1].questions[id].type = "YES_NO" THEN p \ {id} ELSE p) /\ yes = TRUE
  OBVIOUS
<1>4. form' = <<[values |-> u, proposed |-> q, touched |-> yes, sets |-> s]>>
  <2>1. PICK f1, f2 : /\ f1 = [form EXCEPT ![1] = [@ EXCEPT !.values = u]]
                      /\ f2 = [f1 EXCEPT ![1] = [@ EXCEPT !.proposed = q]]
    OBVIOUS
  <2>2. f1 = <<[values |-> u, proposed |-> p, touched |-> t, sets |-> s]>>
    BY <1>2, <2>1
  <2>3. f2 = <<[values |-> u, proposed |-> q, touched |-> t, sets |-> s]>>
    <3>1. PICK r1, r2 : /\ r1 = [values |-> u, proposed |-> p, touched |-> t, sets |-> s]
                        /\ r2 = [values |-> u, proposed |-> q, touched |-> t, sets |-> s]
      OBVIOUS
    <3>2. [r1 EXCEPT !.proposed = q] = r2
      BY <3>1
    <3>3. f1 = <<r1>> /\ f1[1] = r1
      BY <2>2, <3>1
    <3>4. f2 = [f1 EXCEPT ![1] = r2]
      BY <2>1, <3>2, <3>3, Zenon
    <3>5. f2 = <<r2>>
      BY <3>3, <3>4
    <3>. QED  BY <3>1, <3>5, Zenon
  <2>4. form[1].values = w /\ f1[1].proposed = p
    BY <1>2, <2>2
  <2>5. form' = [f2 EXCEPT ![1] = [@ EXCEPT !.touched = yes]]
    BY <1>3, <2>1, <2>4, Zenon DEF Choose
  <2>. QED  BY <2>3, <2>5
<1>5. form[1].sets = s /\ form[1].values = w
  BY <1>2
<1>6. Fit(s, one)
  <2>1. PICK qs : qs = page[1].questions
    OBVIOUS
  <2>2. v \in WellFormed[qs[id].type] /\ id \in DOMAIN qs /\ qs \in s
    BY <1>1, <1>5, <2>1 DEF Choose, PanelOK, FormOK
  <2>. QED  BY <1>3, <2>2 DEF Fit
<1>7. Fit(form[1].sets, u)
  BY <1>1, <1>3, <1>5, <1>6, OverFits DEF PanelOK, FormOK
<1>8. RowOK' /\ PageOK' /\ FormType' /\ FormOK'
  BY <1>1, <1>4, <1>5, <1>7, ValuesStep DEF Choose
<1>9. form' # <<>> /\ form'[1].sets = form[1].sets
  BY <1>4, <1>5
<1>11. asking' = asking
  BY DEF Choose
<1>10. AskingType' /\ AskingOK'
  BY <1>9, <1>11 DEF PanelOK, AskingType, AskingOK
<1>. QED  BY <1>8, <1>10 DEF PanelOK

LEMMA ReceiveStep ==
  ASSUME PanelOK, ReceiveQuestionnaire
  PROVE  PanelOK'
<1>1. questionnaire # <<>>
  BY DEF ReceiveQuestionnaire, PanelAsks, PanelOK, FormOK
<1>2. PICK qs, was, got : questionnaire = <<[questions |-> qs, answers |-> was, received |-> got]>>
  BY <1>1 DEF PanelOK, RowOK
<1>3. PICK answers : answers = Filled(form[1].values)
  OBVIOUS
<1>4. questionnaire' = <<[questions |-> qs, answers |-> answers, received |-> TRUE]>>
  <2>1. PICK yes, mid : /\ yes = TRUE
                        /\ mid = [questionnaire EXCEPT ![1] = [@ EXCEPT !.answers = answers]]
    OBVIOUS
  <2>2. questionnaire' = [mid EXCEPT ![1] = [@ EXCEPT !.received = yes]]
    BY <1>3, <2>1, Zenon DEF ReceiveQuestionnaire
  <2>3. mid = <<[questions |-> qs, answers |-> answers, received |-> got]>>
    BY <1>2, <2>1
  <2>4. questionnaire' = <<[questions |-> qs, answers |-> answers, received |-> yes]>>
    BY <2>2, <2>3
  <2>. QED  BY <2>1, <2>4, Zenon
<1>5. questionnaire' # <<>> /\ questionnaire'[1].questions = questionnaire[1].questions
  BY <1>2, <1>4
<1>6. RowOK'
  BY <1>1, <1>4, <1>5 DEF PanelOK, RowOK
<1>7. UNCHANGED <<page, form, asking>>
  BY DEF ReceiveQuestionnaire
<1>8. PageOK' /\ FormType' /\ AskingType' /\ AskingOK'
  BY <1>5, <1>7 DEF PanelOK, PageOK, FormType, AskingType, AskingOK
<1>9. FormOK'
  BY <1>5, <1>7 DEF PanelOK, FormOK
<1>. QED  BY <1>6, <1>8, <1>9 DEF PanelOK

LEMMA IntakeStep == IntakeInv /\ [Next]_vars => IntakeInv'
<1>. SUFFICES ASSUME IntakeInv, [Next]_vars PROVE PanelOK'
  BY ServingStep DEF IntakeInv
<1>. PanelOK
  BY DEF IntakeInv
<1>1. CASE UNCHANGED <<questionnaire, page, form, asking>>
  BY <1>1 DEF PanelOK, RowOK, PageOK, FormType, FormOK, AskingType, AskingOK
<1>2. CASE Asking
  <2>1. Served \subseteq Builds
    BY DEF IntakeInv, ServingOK
  <2>2. CASE \E b \in Served : SendQuestionnaire(b)
    BY <2>1, <2>2, SendStep
  <2>3. CASE \E b \in Served, n \in Replies : SuggestQuestionnaireAnswers(n, b)
    BY <2>1, <2>3, SuggestStep
  <2>4. CASE \E n \in Replies : ReadReply(n) \/ Proposed(n)
    BY <2>4, ReadReplyStep, ProposedStep
  <2>5. CASE page # <<>> /\ \E id \in DOMAIN page[1].questions : \E v \in WellFormed["TEXT"] : Choose(id, v)
    BY <2>5, ChooseStep
  <2>6. CASE ReceiveQuestionnaire
    BY <2>6, ReceiveStep
  <2>7. CASE CloseDispute \/ Appeal
    BY <1>1, <2>7 DEF CloseDispute, Appeal
  <2>8. CASE refreshDispute \/ OpenPanel \/ LeavePanel
    BY <2>8, RefreshStep, PanelStep
  <2>. QED  BY <1>2, <2>2, <2>3, <2>4, <2>5, <2>6, <2>7, <2>8 DEF Asking
<1>3. CASE Scoring
  BY <1>1, <1>3 DEF Scoring, Assess, rowVars
<1>. QED  BY <1>1, <1>2, <1>3 DEF Next, RollOut, Migrating, Wording, Counting, vars, intakeVars

\* A proposal never stands in the way: whichever builds send the questions, read the
\* replies and receive the answers, however late a proposal fills the form and whatever
\* copy of the dispute the browser shows, unless other questions were asked while the
\* panel was open every value in it answers a question that was sent, in the form that
\* question asks for (SuggestQuestionnaireAnswers, ValidateAnswers).
THEOREM ProposalsFitTheQuestions == Spec => []ProposalsNeverBlock
<1>1. Init => IntakeInv
  <2>. SUFFICES ASSUME Init PROVE IntakeInv
    OBVIOUS
  <2>1. RowOK /\ PageOK /\ FormType /\ FormOK
    BY DEF Init, RowOK, PageOK, FormType, FormOK
  <2>2. AskingType /\ AskingOK
    BY DEF Init, AskingType, AskingOK, NotAsked
  <2>. QED  BY <2>1, <2>2, ServingInit DEF IntakeInv, PanelOK
<1>2. IntakeInv => ProposalsNeverBlock
  BY DEF IntakeInv, PanelOK, FormOK, Fit, ProposalsNeverBlock, Filled
<1>. QED  BY <1>1, <1>2, IntakeStep, PTL DEF Spec

-----------------------------------------------------------------------------
(* The score *)

\* Answers contradict themselves twice at most.
LEMMA CountOfContradictions == ASSUME NEW p PROVE Contradictions(p) \in 0 .. 2
BY DEF Contradictions, Inconsistencies

\* Every signal grows with what it measures, whatever points it gives.
LEMMA SignalsGrow ==
  /\ \A m, n \in Int : m <= n => /\ frequency(m) <= frequency(n)
                                 /\ chargebacks(m) <= chargebacks(n)
                                 /\ transactionAge(m) <= transactionAge(n)
                                 /\ amount(m) <= amount(n)
                                 /\ accountAge(n) <= accountAge(m)
  /\ \A a, b \in BOOLEAN : (a => b) => merchant(a) <= merchant(b)
  /\ \A a, b \in BOOLEAN : \A m, n \in 0 .. 2 :
       (a => b /\ m <= n) => consistency(a, m) <= consistency(b, n)
BY DEF frequency, chargebacks, transactionAge, amount, accountAge, merchant, consistency

LEMMA SignalsAreNumbers ==
  /\ \A n \in Int : /\ frequency(n) \in Int /\ chargebacks(n) \in Int /\ transactionAge(n) \in Int
                    /\ amount(n) \in Int /\ accountAge(n) \in Int
  /\ \A a \in BOOLEAN : merchant(a) \in Int
  /\ \A a \in BOOLEAN : \A n \in 0 .. 2 : consistency(a, n) \in Int
BY DEF frequency, chargebacks, transactionAge, amount, accountAge, merchant, consistency

LEMMA ProfileFacts ==
  ASSUME NEW p \in Profiles
  PROVE  /\ p.disputes \in Int /\ p.lost \in Int /\ p.age \in Int
         /\ p.amount \in Int /\ p.account \in Int
         /\ p.highRisk \in BOOLEAN /\ p.known \in BOOLEAN
BY FactsAssumption DEF Profiles

\* The score and the tier are monotone in the profile, whatever the facts.
LEMMA ScoreGrows ==
  ASSUME NEW p \in Profiles, NEW q \in Profiles, Worse(p, q)
  PROVE  Score(q) >= Score(p) /\ Severity[Tier(q)] >= Severity[Tier(p)]
<1>1. PICK m, n \in 0 .. 2 : m = Contradictions(p) /\ n = Contradictions(q)
  BY CountOfContradictions
<1>2. /\ frequency(p.disputes) <= frequency(q.disputes)
      /\ chargebacks(p.lost) <= chargebacks(q.lost)
      /\ transactionAge(p.age) <= transactionAge(q.age)
      /\ amount(p.amount) <= amount(q.amount)
      /\ accountAge(p.account) <= accountAge(q.account)
  BY SignalsGrow, ProfileFacts DEF Worse
<1>3. merchant(p.highRisk) <= merchant(q.highRisk)
  BY SignalsGrow, ProfileFacts DEF Worse
<1>4. consistency(p.known, m) <= consistency(q.known, n)
  BY <1>1, SignalsGrow, ProfileFacts DEF Worse
<1>5. \A r \in {p, q} :
        /\ frequency(r.disputes) \in Int /\ chargebacks(r.lost) \in Int /\ transactionAge(r.age) \in Int
        /\ amount(r.amount) \in Int /\ accountAge(r.account) \in Int /\ merchant(r.highRisk) \in Int
  BY SignalsAreNumbers, ProfileFacts
<1>6. consistency(p.known, m) \in Int /\ consistency(q.known, n) \in Int
  BY SignalsAreNumbers, ProfileFacts
<1>7. Score(p) \in Int /\ Score(q) \in Int /\ Score(q) >= Score(p)
  BY <1>1, <1>2, <1>3, <1>4, <1>5, <1>6 DEF Score
<1>8. Severity[Tier(q)] >= Severity[Tier(p)]
  BY <1>7 DEF Severity, Tier
<1>. QED  BY <1>7, <1>8

ScoringInv == scene = "score" => profile \in Profiles

\* The questionnaire's actions leave the assessment's facts alone.
LEMMA AskingKeepsProfile == Asking => profile' = profile
<1>. SUFFICES ASSUME Asking PROVE profile' = profile
  OBVIOUS
<1>1. CASE \E b \in Served : SendQuestionnaire(b)
  BY <1>1 DEF SendQuestionnaire
<1>2. CASE \E b \in Served : \E n \in Replies : SuggestQuestionnaireAnswers(n, b)
  BY <1>2 DEF SuggestQuestionnaireAnswers
<1>3. CASE ReceiveQuestionnaire \/ CloseDispute \/ Appeal \/ refreshDispute
  BY <1>3 DEF ReceiveQuestionnaire, CloseDispute, Appeal, refreshDispute
<1>4. CASE \E n \in Replies : ReadReply(n) \/ Proposed(n)
  BY <1>4 DEF ReadReply, Proposed
<1>5. CASE OpenPanel \/ LeavePanel
  BY <1>5 DEF OpenPanel, LeavePanel
<1>6. CASE page # <<>> /\ \E id \in DOMAIN page[1].questions : \E v \in WellFormed["TEXT"] : Choose(id, v)
  BY <1>6 DEF Choose
<1>. QED  BY <1>1, <1>2, <1>3, <1>4, <1>5, <1>6 DEF Asking

LEMMA ScoringStep == ScoringInv /\ [Next]_vars => ScoringInv'
<1>. SUFFICES ASSUME ScoringInv, [Next]_vars PROVE ScoringInv'
  OBVIOUS
<1>1. CASE UNCHANGED <<scene, profile>>
  BY <1>1 DEF ScoringInv
<1>2. CASE scene = "score" /\ Scoring /\ UNCHANGED scene
  <2>1. PICK fact \in DOMAIN Facts : \E v \in Facts[fact] : profile' = [profile EXCEPT ![fact] = v]
    BY <1>2 DEF Scoring, Assess
  <2>2. PICK v \in Facts[fact] : profile' = [profile EXCEPT ![fact] = v]
    BY <2>1
  <2>3. profile \in Profiles
    BY <1>2 DEF ScoringInv
  <2>4. profile' \in Profiles
    BY <2>2, <2>3, FactsAssumption DEF Profiles
  <2>. QED  BY <2>4 DEF ScoringInv
<1>3. CASE Asking /\ UNCHANGED scene
  BY <1>1, <1>3, AskingKeepsProfile
<1>. QED  BY <1>1, <1>2, <1>3 DEF Next, RollOut, Migrating, Wording, Counting, vars, intakeVars

\* A worse fact never lowers the score and so never lifts a hold: of any two profiles
\* that differ in one signal the one with more of it scores at least as high and lies in
\* a tier at least as severe (Score, TierOf).
THEOREM WorseNeverLowersTheScore == Spec => WorseNeverScoresLower
<1>1. Init => ScoringInv
  BY DEF Init, ScoringInv
<1>2. ScoringInv /\ ScoringInv' /\ [Next]_vars =>
        [Worse(profile, profile') => /\ Score(profile') >= Score(profile)
                                     /\ Severity[Tier(profile')] >= Severity[Tier(profile)]]_profile
  <2>. SUFFICES ASSUME ScoringInv, ScoringInv', [Next]_vars, profile' # profile, Worse(profile, profile')
               PROVE  /\ Score(profile') >= Score(profile)
                      /\ Severity[Tier(profile')] >= Severity[Tier(profile)]
    OBVIOUS
  <2>1. scene = "score" /\ scene' = scene
    BY AskingKeepsProfile DEF Next, RollOut, Migrating, Wording, Counting, vars, intakeVars
  <2>2. PICK p, q \in Profiles : p = profile /\ q = profile'
    BY <2>1 DEF ScoringInv
  <2>3. Score(q) >= Score(p) /\ Severity[Tier(q)] >= Severity[Tier(p)]
    BY <2>2, ScoreGrows
  <2>. QED  BY <2>2, <2>3
<1>. QED  BY <1>1, <1>2, ScoringStep, PTL DEF Spec, WorseNeverScoresLower

-----------------------------------------------------------------------------
(* The calendar *)

\* Numbers have a least one of any kind: induction by the least counterexample.
LEMMA LeastOf ==
  ASSUME NEW S \in SUBSET Nat, S # {}
  PROVE  \E m \in S : \A n \in S : m <= n
<1>. DEFINE R == {ss \in Nat \X Nat : ss[1] < ss[2]}
<1>1. IsWellFoundedOn(R, Nat)
  BY NatLessThanWellFounded, Zenon DEF OpToRel
<1>. HIDE DEF R
<1>2. PICK x \in S : \A y \in S : <<y, x>> \notin R
  BY <1>1, WFMin
<1>3. \A y \in S : ~(y < x)
  BY <1>2 DEF R
<1>. QED  BY <1>3

\* The day and the hour of an instant in a period with a known offset.
LEMMA LocalDay ==
  ASSUME NEW z, NEW u \in Int, NEW o \in -12 .. 14, lookup(z, u) = o,
         NEW d \in Int, NEW h \in 0 .. 23, u = 24 * d + h - o
  PROVE  Day(z, u) = d /\ Hour24(z, u) = h
BY DEF Day, Hour24

\* What the offset in force makes of an instant.
LEMMA LookupOffset ==
  ASSUME NEW z, ZoneAsUsed(z), NEW u \in Int
  PROVE  /\ lookup(z, u) \in -12 .. 14 /\ Day(z, u) \in Int /\ Hour24(z, u) \in 0 .. 23
         /\ u + lookup(z, u) \in Int
         /\ u < z.change => lookup(z, u) = z.before
         /\ u >= z.change => lookup(z, u) = z.after
<1>1. z.before \in -12 .. 14 /\ z.after \in -12 .. 14 /\ z.change \in Int
  BY DEF ZoneAsUsed
<1>2. PICK o : o = lookup(z, u)
  OBVIOUS
<1>3. o \in -12 .. 14 /\ (u < z.change => o = z.before) /\ (u >= z.change => o = z.after)
  BY <1>1, <1>2 DEF lookup
<1>4. u + o \in Int /\ (u + o) \div 24 \in Int /\ (u + o) % 24 \in 0 .. 23
  BY <1>3
<1> QED BY <1>2, <1>3, <1>4 DEF Day, Hour24

\* Days never run backwards.
LEMMA DaysGoOn ==
  ASSUME NEW z, ZoneAsUsed(z), NEW u \in Int, NEW v \in Int, u <= v
  PROVE  Day(z, u) <= Day(z, v)
<1> DEFINE a == u + lookup(z, u)
           b == v + lookup(z, v)
<1>1. a \in Int /\ b \in Int
  BY LookupOffset
<1>2. CASE a <= b
  BY <1>1, <1>2 DEF Day
<1>3. CASE a > b
  <2>1. u < z.change /\ v >= z.change /\ z.change \in Int /\ z.before \in Int /\ z.after \in Int
    BY <1>1, <1>3 DEF lookup, ZoneAsUsed
  <2>2. a = u + z.before /\ b = v + z.after
    BY <2>1 DEF lookup
  <2>3. a <= FromHour(z) - 1 /\ ToHour(z) <= b /\ FromHour(z) \in Int /\ ToHour(z) \in Int
    BY <2>1, <2>2 DEF FromHour, ToHour
  <2>4. ToHour(z) < FromHour(z)
    BY <1>1, <1>3, <2>3
  <2>5. (FromHour(z) - 1) \div 24 = ToHour(z) \div 24
    BY <2>4 DEF ZoneAsUsed
  <2>6. a \div 24 <= b \div 24
    BY <1>1, <2>3, <2>5
  <2> QED BY <2>6 DEF Day
<1> QED BY <1>1, <1>2, <1>3

\* So a day has one first instant.
LEMMA FirstInstantIs ==
  ASSUME NEW z, ZoneAsUsed(z), NEW d \in Int, NEW u \in 24 * d - 26 .. 24 * d + 26,
         Day(z, u) >= d, Day(z, u - 1) < d
  PROVE  FirstInstant(z, d) = u
<1> DEFINE P(v) == Day(z, v) >= d /\ Day(z, v - 1) < d
<1>1. ASSUME NEW v \in 24 * d - 26 .. 24 * d + 26, P(v) PROVE v = u
  <2>1. /\ Day(z, u) \in Int /\ Day(z, u - 1) \in Int /\ Day(z, v) \in Int /\ Day(z, v - 1) \in Int
    BY LookupOffset
  <2>2. CASE u < v
    <3>1. Day(z, u) <= Day(z, v - 1)
      BY <2>2, DaysGoOn
    <3> QED BY <1>1, <2>1, <3>1
  <2>3. CASE v < u
    <3>1. Day(z, v) <= Day(z, u - 1)
      BY <2>3, DaysGoOn
    <3> QED BY <1>1, <2>1, <3>1
  <2> QED BY <2>2, <2>3
<1>2. P(u)
  OBVIOUS
<1> HIDE DEF P
<1>3. (CHOOSE v \in 24 * d - 26 .. 24 * d + 26 : P(v)) = u
  BY <1>1, <1>2
<1> QED BY <1>3 DEF FirstInstant, P

\* The loop's rounds: each is a day after the one before.
LEMMA Rounds ==
  ASSUME NEW cal, NEW start, MaxDays \in Nat
  PROVE  /\ rounds(cal, start)[0] = Date(cal.zone, Day(cal.zone, start), 0)
         /\ \A n \in 1 .. MaxDays : rounds(cal, start)[n] = AddDay(cal.zone, rounds(cal, start)[n - 1])
<1> DEFINE first == Date(cal.zone, Day(cal.zone, start), 0)
           Rec(g, n) == IF n = 0 THEN first ELSE AddDay(cal.zone, g[n - 1])
           Upto(k, g) == g = [n \in 0 .. k |-> Rec(g, n)]
           Fails == {k \in 0 .. MaxDays : ~\E g : Upto(k, g)}
<1>1. Fails = {}
  <2> SUFFICES ASSUME Fails # {} PROVE FALSE
    OBVIOUS
  <2>1. PICK k \in Fails : \A l \in Fails : k <= l
    <3>1. Fails \in SUBSET Nat
      OBVIOUS
    <3> QED BY <3>1, LeastOf
  <2>2. k # 0
    <3>1. Upto(0, [n \in 0 .. 0 |-> first])
      OBVIOUS
    <3> QED BY <2>1, <3>1
  <2>3. PICK g : Upto(k - 1, g)
    <3>1. k - 1 \in 0 .. MaxDays /\ ~(k <= k - 1)
      BY <2>1, <2>2
    <3>2. k - 1 \notin Fails
      BY <2>1, <3>1
    <3> QED BY <3>1, <3>2
  <2> DEFINE h == [n \in 0 .. k |-> IF n = k THEN AddDay(cal.zone, g[k - 1]) ELSE g[n]]
  <2>4. Upto(k, h)
    <3>1. \A n \in 0 .. k - 1 : h[n] = g[n]
      BY <2>1, <2>2
    <3>2. \A n \in 0 .. k : h[n] = Rec(h, n)
      BY <2>1, <2>2, <2>3, <3>1
    <3> QED BY <3>2
  <2> QED BY <2>1, <2>4
<1>2. \E g : Upto(MaxDays, g)
  BY <1>1
<1>3. Upto(MaxDays, CHOOSE g : Upto(MaxDays, g))
  BY <1>2
<1>4. rounds(cal, start) = CHOOSE g : Upto(MaxDays, g)
  BY DEF rounds
<1>5. Upto(MaxDays, rounds(cal, start))
  BY <1>3, <1>4
<1> QED BY <1>5

\* V's instants follow each other as AddDate goes.
DayByDay(z, V, D0) == \A d \in Int : d >= D0 => AddDay(z, V[d]) = V[d + 1]

\* The rounds in closed form: V gives the instant for each day.
LEMMA RoundsAre ==
  ASSUME NEW cal, NEW start, MaxDays \in Nat, NEW V, NEW D0 \in Int,
         rounds(cal, start)[0] = V[D0], DayByDay(cal.zone, V, D0), NEW m \in 0 .. MaxDays
  PROVE  rounds(cal, start)[m] = V[D0 + m]
<1> DEFINE Fails == {n \in 0 .. MaxDays : rounds(cal, start)[n] # V[D0 + n]}
<1> SUFFICES ASSUME Fails # {} PROVE FALSE
  OBVIOUS
<1>1. PICK k \in Fails : \A l \in Fails : k <= l
  <2>1. Fails \in SUBSET Nat
    OBVIOUS
  <2> HIDE DEF Fails
  <2> QED BY <2>1, LeastOf
<1>2. k \in Nat /\ k # 0 /\ k \in 1 .. MaxDays /\ k - 1 \in 0 .. MaxDays /\ ~(k <= k - 1)
  BY <1>1
<1>3. rounds(cal, start)[k - 1] = V[D0 + (k - 1)]
  BY <1>1, <1>2
<1>4. rounds(cal, start)[k] = AddDay(cal.zone, V[D0 + (k - 1)])
  BY <1>2, <1>3, Rounds
<1>5. AddDay(cal.zone, V[D0 + (k - 1)]) = V[D0 + k]
  <2>1. D0 + (k - 1) \in Int /\ D0 + (k - 1) >= D0 /\ D0 + (k - 1) + 1 = D0 + k
    BY <1>2
  <2> QED BY <2>1 DEF DayByDay
<1> QED BY <1>1, <1>4, <1>5

\* The same, as what V fits and what it gives.
Fitting(cal, start, V, D0) ==
  MaxDays \in Nat /\ D0 \in Int /\ rounds(cal, start)[0] = V[D0] /\ DayByDay(cal.zone, V, D0)
Giving(cal, start, V, D0) == \A m \in 0 .. MaxDays : rounds(cal, start)[m] = V[D0 + m]

LEMMA RoundsGiven ==
  ASSUME NEW cal, NEW start, NEW V, NEW D0, Fitting(cal, start, V, D0)
  PROVE  Giving(cal, start, V, D0)
<1>1. MaxDays \in Nat /\ D0 \in Int /\ rounds(cal, start)[0] = V[D0] /\ DayByDay(cal.zone, V, D0)
  BY DEF Fitting
<1>2. ASSUME NEW m \in 0 .. MaxDays PROVE rounds(cal, start)[m] = V[D0 + m]
  BY <1>1, RoundsAre
<1> QED BY <1>2 DEF Giving

\* A part of a finite set that leaves something out is smaller.
LEMMA Smaller ==
  ASSUME NEW S, IsFiniteSet(S), NEW T, T \subseteq S, NEW x \in S, x \notin T
  PROVE  Cardinality(T) < Cardinality(S)
<1>1. IsFiniteSet(S \ {x}) /\ Cardinality(S \ {x}) = Cardinality(S) - 1 /\ T \subseteq S \ {x}
  BY FS_RemoveElement
<1>2. Cardinality(T) <= Cardinality(S \ {x}) /\ Cardinality(T) \in Nat /\ Cardinality(S) \in Nat
  BY <1>1, FS_Subset, FS_CardinalityType
<1> QED BY <1>1, <1>2

\* The days a clock counts are finitely many.
LEMMA DaysFinite ==
  ASSUME NEW cal, NEW start, NEW c, Day(cal.zone, start) \in Int, NEW d \in Int
  PROVE  IsFiniteSet(CountedDays(cal, start, c, d))
<1>1. IsFiniteSet(Day(cal.zone, start) + 1 .. d)
  BY FS_Interval
<1> QED BY <1>1, FS_Subset DEF CountedDays

\* A clock has one last day.
LEMMA RunsOutOnce ==
  ASSUME NEW cal, NEW start, NEW c, Day(cal.zone, start) \in Int,
         NEW x \in Day(cal.zone, start) .. Day(cal.zone, start) + MaxDays, MaxDays \in Nat,
         RunsOutOn(cal, start, c, x)
  PROVE  LastDay(cal, start, c) = x
<1> DEFINE first == Day(cal.zone, start)
           P(d) == RunsOutOn(cal, start, c, d)
<1>1. ASSUME NEW a \in Int, NEW b \in Int, P(a), P(b), a < b PROVE FALSE
  <2>1. IsFiniteSet(CountedDays(cal, start, c, b))
    BY DaysFinite
  <2>2. CountedDays(cal, start, c, a) \subseteq CountedDays(cal, start, c, b)
    BY <1>1 DEF CountedDays
  <2>3. b \in CountedDays(cal, start, c, b) /\ b \notin CountedDays(cal, start, c, a)
    BY <1>1 DEF RunsOutOn, CountedDays
  <2>4. Cardinality(CountedDays(cal, start, c, a)) < Cardinality(CountedDays(cal, start, c, b))
    BY <2>1, <2>2, <2>3, Smaller
  <2>5. Cardinality(CountedDays(cal, start, c, b)) \in Nat
    BY <2>1, FS_CardinalityType
  <2> QED BY <1>1, <2>4, <2>5 DEF RunsOutOn
<1>2. \A d \in first .. first + MaxDays : P(d) => d = x
  <2> SUFFICES ASSUME NEW d \in first .. first + MaxDays, P(d), d # x PROVE FALSE
    OBVIOUS
  <2>1. d \in Int /\ x \in Int /\ (d < x \/ x < d)
    OBVIOUS
  <2> HIDE DEF P, first
  <2>2. P(x)
    BY DEF P
  <2> QED BY <1>1, <2>1, <2>2
<1>3. P(x) /\ x \in first .. first + MaxDays
  OBVIOUS
<1> HIDE DEF P
<1>4. (CHOOSE d \in first .. first + MaxDays : P(d)) = x
  BY <1>2, <1>3
<1> QED BY <1>4 DEF LastDay, P

\* The loop ends with the round that brings the count to its end.
LEMMA LastRoundIs ==
  ASSUME NEW S, S \subseteq 1 .. MaxDays, MaxDays \in Nat, NEW m \in S, NEW count,
         Cardinality(S \cap (1 .. m)) = count
  PROVE  lastRound(S, count) = m
<1> DEFINE Upto(n) == S \cap (1 .. n)
           P(n) == Cardinality(Upto(n)) = count /\ \A l \in 0 .. n - 1 : Cardinality(Upto(l)) # count
<1>1. m \in 1 .. MaxDays /\ m \in Upto(m)
  OBVIOUS
<1>2. IsFiniteSet(Upto(m))
  <2>1. IsFiniteSet(1 .. m)
    BY <1>1, FS_Interval
  <2> QED BY <2>1, FS_Subset
<1>3. ASSUME NEW n \in Int, n < m PROVE Cardinality(Upto(n)) # count
  <2>1. Upto(n) \subseteq Upto(m) /\ m \notin Upto(n)
    BY <1>1, <1>3
  <2>2. Cardinality(Upto(n)) < Cardinality(Upto(m)) /\ Cardinality(Upto(m)) \in Nat
    BY <1>1, <1>2, <2>1, Smaller, FS_CardinalityType
  <2> QED BY <2>2
<1>4. P(m)
  BY <1>1, <1>3
<1>5. \A n \in 0 .. MaxDays : P(n) => n = m
  <2> SUFFICES ASSUME NEW n \in 0 .. MaxDays, P(n), n # m PROVE FALSE
    OBVIOUS
  <2>1. n < m \/ (m < n /\ m \in 0 .. n - 1)
    BY <1>1
  <2> QED BY <1>3, <2>1
<1> HIDE DEF P
<1>6. (CHOOSE n \in 0 .. MaxDays : P(n)) = m
  BY <1>1, <1>4, <1>5
<1> QED BY <1>6 DEF lastRound, P, Upto

\* The day a clock runs out on, and that the loop reaches it.
LEMMA LastDayIs ==
  ASSUME NEW cal \in Calendars, NEW start \in Starts, NEW c \in Clocks
  PROVE  /\ Day(cal.zone, start) \in Int /\ ZoneAsUsed(cal.zone) /\ MaxDays \in Nat
         /\ LastDay(cal, start, c) \in Day(cal.zone, start) + 1 .. Day(cal.zone, start) + MaxDays - 1
         /\ RunsOutOn(cal, start, c, LastDay(cal, start, c))
<1>1. ZoneAsUsed(cal.zone) /\ start \in Int /\ MaxDays \in Nat
  BY CalendarAssumption
<1>2. Day(cal.zone, start) \in Int
  BY <1>1, LookupOffset
<1>3. PICK x \in Day(cal.zone, start) .. Day(cal.zone, start) + MaxDays - 1 : RunsOutOn(cal, start, c, x)
  BY CalendarAssumption
<1>4. x \in Day(cal.zone, start) + 1 .. Day(cal.zone, start) + MaxDays - 1
  BY <1>2, <1>3 DEF RunsOutOn, CountedDays
<1>5. x \in Day(cal.zone, start) .. Day(cal.zone, start) + MaxDays
  BY <1>1, <1>2, <1>4
<1>6. LastDay(cal, start, c) = x
  BY <1>1, <1>2, <1>3, <1>5, RunsOutOnce
<1> QED BY <1>1, <1>2, <1>3, <1>4, <1>6

\* The rounds that count, as Due has them.
CountedRounds(cal, start, c) ==
  {n \in 1 .. MaxDays : c.unit = "CALENDAR" \/ IsBusinessDay(cal, rounds(cal, start)[n])}

\* Due, once the round that ends the count is known.
LEMMA DueAfter ==
  ASSUME NEW cal, NEW start, NEW c, MaxDays \in Nat, NEW m \in CountedRounds(cal, start, c),
         Cardinality(CountedRounds(cal, start, c) \cap (1 .. m)) = c.count
  PROVE  Due(cal, start, c) = AddDay(cal.zone, rounds(cal, start)[m])
<1> DEFINE S == CountedRounds(cal, start, c)
<1>1. S \subseteq 1 .. MaxDays
  BY DEF CountedRounds
<1> HIDE DEF S
<1>2. lastRound(S, c.count) = m
  BY <1>1, LastRoundIs DEF S
<1> QED BY <1>2 DEF Due, S, CountedRounds

\* Sets with a one-to-one map between them are as large as each other.
LEMMA SameSize ==
  ASSUME NEW S, NEW T, IsFiniteSet(S), NEW f, \A n \in S : f[n] \in T,
         \A n, l \in S : f[n] = f[l] => n = l, \A d \in T : \E n \in S : f[n] = d
  PROVE  IsFiniteSet(T) /\ Cardinality(S) = Cardinality(T)
<1> DEFINE g == [n \in S |-> f[n]]
<1>1. g \in Bijection(S, T)
  BY DEF Bijection, Injection, Surjection, IsInjective
<1>2. ExistsBijection(S, T)
  BY <1>1 DEF ExistsBijection
<1> QED BY <1>2, FS_Bijection

\* Where every round stands on the next day, the loop ends on the last day.
LEMMA DueInStep ==
  ASSUME NEW cal \in Calendars, NEW start \in Starts, NEW c \in Clocks,
         \A n \in 1 .. MaxDays : Day(cal.zone, rounds(cal, start)[n]) = Day(cal.zone, start) + n
  PROVE  LET x == LastDay(cal, start, c)
         IN /\ x - Day(cal.zone, start) \in 1 .. MaxDays - 1
            /\ Due(cal, start, c) = AddDay(cal.zone, rounds(cal, start)[x - Day(cal.zone, start)])
<1>1. PICK D0, x : D0 = Day(cal.zone, start) /\ x = LastDay(cal, start, c)
  OBVIOUS
<1>2. D0 \in Int /\ MaxDays \in Nat /\ x \in D0 + 1 .. D0 + MaxDays - 1 /\ RunsOutOn(cal, start, c, x)
  BY <1>1, LastDayIs
<1>3. PICK m : m = x - D0
  OBVIOUS
<1>4. m \in 1 .. MaxDays - 1 /\ m \in 1 .. MaxDays /\ x \in Int /\ x = D0 + m
  BY <1>2, <1>3
<1> DEFINE S == CountedRounds(cal, start, c) \cap (1 .. m)
           T == CountedDays(cal, start, c, x)
           f == [n \in Int |-> D0 + n]
<1>5. \A n \in 1 .. MaxDays : n \in CountedRounds(cal, start, c) <=>
                              (c.unit = "CALENDAR" \/ BusinessDay(cal, D0 + n))
  BY <1>1 DEF CountedRounds, IsBusinessDay
<1>6. \A d \in D0 + 1 .. x : d \in T <=> (c.unit = "CALENDAR" \/ BusinessDay(cal, d))
  BY <1>1 DEF CountedDays
<1>7. T \subseteq D0 + 1 .. x
  BY <1>1 DEF CountedDays
<1>8. S \subseteq 1 .. m /\ IsFiniteSet(S)
  <2>1. IsFiniteSet(1 .. m)
    BY <1>4, FS_Interval
  <2> QED BY <2>1, FS_Subset
<1> HIDE DEF S, T
<1>9. \A n \in 1 .. m : n \in S <=> D0 + n \in T
  <2> SUFFICES ASSUME NEW n \in 1 .. m PROVE n \in S <=> D0 + n \in T
    OBVIOUS
  <2>1. n \in 1 .. MaxDays /\ D0 + n \in D0 + 1 .. x
    BY <1>2, <1>4
  <2> QED BY <1>5, <1>6, <2>1 DEF S
<1>10. \A n \in S : f[n] \in T
  BY <1>8, <1>9
<1>11. \A n, l \in S : f[n] = f[l] => n = l
  BY <1>2, <1>8
<1>12. \A d \in T : \E n \in S : f[n] = d
  <2> SUFFICES ASSUME NEW d \in T PROVE \E n \in S : f[n] = d
    OBVIOUS
  <2>1. d \in D0 + 1 .. x
    BY <1>7
  <2>2. d - D0 \in 1 .. m /\ D0 + (d - D0) = d
    BY <1>2, <1>4, <2>1
  <2>3. d - D0 \in S
    BY <1>9, <2>2
  <2> QED BY <2>2, <2>3
<1> HIDE DEF f
<1>13. Cardinality(S) = Cardinality(T)
  BY <1>8, <1>10, <1>11, <1>12, SameSize
<1>14. Cardinality(S) = c.count /\ x \in T
  BY <1>2, <1>13 DEF RunsOutOn, T
<1>15. m \in CountedRounds(cal, start, c)
  BY <1>4, <1>9, <1>14 DEF S
<1>16. Due(cal, start, c) = AddDay(cal.zone, rounds(cal, start)[m])
  BY <1>2, <1>14, <1>15, DueAfter DEF S
<1> QED BY <1>1, <1>3, <1>4, <1>16

\* Due in a zone where the loop's rounds are V's instants and stand on their days.
LEMMA DueIsV ==
  ASSUME NEW cal \in Calendars, NEW start \in Starts, NEW c \in Clocks, NEW V, NEW D0,
         D0 = Day(cal.zone, start), Date(cal.zone, D0, 0) = V[D0],
         \A d \in Int : d >= D0 => AddDay(cal.zone, V[d]) = V[d + 1],
         \A d \in Int : d > D0 => Day(cal.zone, V[d]) = d
  PROVE  Due(cal, start, c) = V[LastDay(cal, start, c) + 1]
<1>1. D0 \in Int /\ MaxDays \in Nat
  BY LastDayIs
<1>2. rounds(cal, start)[0] = V[D0]
  BY <1>1, Rounds
<1>3. \A n \in 0 .. MaxDays : rounds(cal, start)[n] = V[D0 + n]
  <2>1. DayByDay(cal.zone, V, D0)
    BY DEF DayByDay
  <2> QED BY <1>1, <1>2, <2>1, RoundsAre
<1>4. \A n \in 1 .. MaxDays : Day(cal.zone, rounds(cal, start)[n]) = Day(cal.zone, start) + n
  <2> SUFFICES ASSUME NEW n \in 1 .. MaxDays PROVE Day(cal.zone, rounds(cal, start)[n]) = D0 + n
    OBVIOUS
  <2>1. n \in 0 .. MaxDays /\ D0 + n \in Int /\ D0 + n > D0
    BY <1>1
  <2> QED BY <1>3, <2>1
<1>5. PICK x : x = LastDay(cal, start, c)
  OBVIOUS
<1>6. /\ x - Day(cal.zone, start) \in 1 .. MaxDays - 1
      /\ Due(cal, start, c) = AddDay(cal.zone, rounds(cal, start)[x - Day(cal.zone, start)])
  BY <1>4, <1>5, DueInStep
<1>7. x \in D0 + 1 .. D0 + MaxDays - 1
  BY <1>5, LastDayIs
<1>8. x \in Int /\ x >= D0 /\ x - D0 \in 0 .. MaxDays /\ D0 + (x - D0) = x
  BY <1>1, <1>7
<1>9. rounds(cal, start)[x - D0] = V[x]
  BY <1>3, <1>8
<1> QED BY <1>5, <1>6, <1>8, <1>9

\* time.Date by the periods its two guesses fall into.
LEMMA DateIs ==
  ASSUME NEW z, ZoneAsUsed(z), NEW d \in Int, NEW h \in 0 .. 23
  PROVE  \A w \in {24 * d + h} :
           /\ w < z.change /\ w < z.change + z.before => Date(z, d, h) = w - z.before
           /\ w >= z.change /\ w >= z.change + z.after => Date(z, d, h) = w - z.after
           /\ w < z.change /\ w >= z.change + z.before => Date(z, d, h) = w - z.after
           /\ w >= z.change /\ w < z.change + z.after => Date(z, d, h) = w - z.before
<1> SUFFICES ASSUME NEW w \in Int, w = 24 * d + h
             PROVE  /\ w < z.change /\ w < z.change + z.before => Date(z, d, h) = w - z.before
                    /\ w >= z.change /\ w >= z.change + z.after => Date(z, d, h) = w - z.after
                    /\ w < z.change /\ w >= z.change + z.before => Date(z, d, h) = w - z.after
                    /\ w >= z.change /\ w < z.change + z.after => Date(z, d, h) = w - z.before
  OBVIOUS
<1>1. z.before \in -12 .. 14 /\ z.after \in -12 .. 14 /\ z.change \in Int
  BY DEF ZoneAsUsed
<1>2. PICK a, b, t : a = z.after /\ b = z.before /\ t = z.change
  OBVIOUS
<1>3. a \in -12 .. 14 /\ b \in -12 .. 14 /\ t \in Int /\ w \in Int
  BY <1>1, <1>2
<1>4. CASE w < t
  <2>1. lookup(z, w) = b
    BY <1>2, <1>4 DEF lookup
  <2>2. Date(z, d, h) = IF b = 0 \/ w - b < t THEN w - b ELSE w - lookup(z, w - b)
    BY <1>2, <1>4, <2>1 DEF Date
  <2>3. w - b >= t => lookup(z, w - b) = a
    BY <1>2, <1>3 DEF lookup
  <2> QED BY <1>2, <1>3, <1>4, <2>2, <2>3
<1>5. CASE w >= t
  <2>1. lookup(z, w) = a
    BY <1>2, <1>3, <1>5 DEF lookup
  <2>2. Date(z, d, h) = IF a = 0 \/ w - a >= t THEN w - a ELSE w - lookup(z, w - a)
    BY <1>2, <1>3, <1>5, <2>1 DEF Date
  <2>3. w - a < t => lookup(z, w - a) = b
    BY <1>2, <1>3 DEF lookup
  <2> QED BY <1>2, <1>3, <1>5, <2>2, <2>3
<1> QED BY <1>3, <1>4, <1>5

\* AddDate on an instant whose local day and hour are known.
LEMMA AddDayIs ==
  ASSUME NEW z, NEW d \in Int, NEW h \in 0 .. 23, NEW o \in -12 .. 14, NEW u,
         u = 24 * d + h - o, lookup(z, u) = o
  PROVE  Day(z, u) = d /\ AddDay(z, u) = Date(z, d + 1, h)
<1>1. u \in Int
  OBVIOUS
<1>2. Day(z, u) = d /\ Hour24(z, u) = h
  BY <1>1 DEF Day, Hour24
<1> QED BY <1>2 DEF AddDay

\* A midnight that is not skipped is found.
LEMMA Midnight ==
  ASSUME NEW z, ZoneAsUsed(z), ~SkipsMidnight(z), NEW d \in Int
  PROVE  \E o \in {z.before, z.after} :
           /\ Date(z, d, 0) = 24 * d - o /\ lookup(z, 24 * d - o) = o
<1>1. PICK a, b, t : a = z.after /\ b = z.before /\ t = z.change
  OBVIOUS
<1>2. /\ a \in -12 .. 14 /\ b \in -12 .. 14 /\ t \in Int
      /\ a > b => (t + b) % 24 # 0 /\ (t + b - 1) \div 24 = (t + a - 1) \div 24
  BY <1>1 DEF ZoneAsUsed, SkipsMidnight, FromHour, ToHour
<1>3. PICK w : w = 24 * d
  OBVIOUS
<1>4. w \in Int /\ w = 24 * d + 0
  BY <1>3
<1>5. /\ w < t /\ w < t + b => Date(z, d, 0) = w - b
      /\ w >= t /\ w >= t + a => Date(z, d, 0) = w - a
      /\ w < t /\ w >= t + b => Date(z, d, 0) = w - a
      /\ w >= t /\ w < t + a => Date(z, d, 0) = w - b
  <2>1. 0 \in 0 .. 23 /\ w \in {24 * d + 0}
    BY <1>4
  <2> QED BY <1>1, <1>4, <2>1, DateIs
<1>6. ~(t + b <= w /\ w < t + a)
  BY <1>2, <1>3
<1>7. /\ w - b < t => lookup(z, w - b) = b
      /\ w - a >= t => lookup(z, w - a) = a
  BY <1>1, <1>2, <1>4 DEF lookup
<1>8. CASE w < t + b /\ Date(z, d, 0) = w - b
  BY <1>1, <1>2, <1>3, <1>4, <1>7, <1>8
<1>9. CASE w >= t + a /\ Date(z, d, 0) = w - a
  BY <1>1, <1>2, <1>3, <1>4, <1>7, <1>9
<1> QED BY <1>2, <1>4, <1>5, <1>6, <1>8, <1>9

\* How far a due time is off the end of its last day.
Off(cal, start, c) == Due(cal, start, c) - FirstInstant(cal.zone, LastDay(cal, start, c) + 1)

\* Where no midnight is skipped the loop keeps to midnights and Due is one.
LEMMA DueOrdinary ==
  ASSUME NEW cal \in Calendars, NEW start \in Starts, NEW c \in Clocks, ~SkipsMidnight(cal.zone)
  PROVE  Due(cal, start, c) = Date(cal.zone, LastDay(cal, start, c) + 1, 0)
<1>1. PICK z, D0, x : z = cal.zone /\ D0 = Day(cal.zone, start) /\ x = LastDay(cal, start, c)
  OBVIOUS
<1>2. D0 \in Int /\ ZoneAsUsed(z) /\ x \in Int /\ ~SkipsMidnight(z)
  BY <1>1, LastDayIs
<1> DEFINE V == [d \in Int |-> Date(z, d, 0)]
<1>3. ASSUME NEW d \in Int PROVE Day(z, V[d]) = d /\ AddDay(z, V[d]) = V[d + 1]
  <2>1. PICK o \in {z.before, z.after} : Date(z, d, 0) = 24 * d - o /\ lookup(z, 24 * d - o) = o
    BY <1>2, Midnight
  <2>2. o \in -12 .. 14
    BY <1>2, <2>1 DEF ZoneAsUsed
  <2>3. PICK u : u = 24 * d - o
    OBVIOUS
  <2>4. u = 24 * d + 0 - o /\ 0 \in 0 .. 23 /\ lookup(z, u) = o
    BY <2>1, <2>2, <2>3
  <2>5. Day(z, u) = d /\ AddDay(z, u) = Date(z, d + 1, 0)
    <3>1. u + o = 24 * d
      BY <2>2, <2>3
    <3>2. Day(z, u) = d /\ Hour24(z, u) = 0
      BY <2>4, <3>1 DEF Day, Hour24
    <3> QED BY <3>2 DEF AddDay
  <2> QED BY <2>1, <2>3, <2>5
<1>4. Date(z, D0, 0) = V[D0] /\ V[x + 1] = Date(z, x + 1, 0)
  BY <1>2
<1> HIDE DEF V
<1>5. Due(cal, start, c) = V[x + 1]
  BY <1>1, <1>3, <1>4, DueIsV
<1> QED BY <1>1, <1>4, <1>5

\* Such a midnight is the first instant of its day unless it comes twice.
LEMMA OffOrdinary ==
  ASSUME NEW z, ZoneAsUsed(z), ~SkipsMidnight(z), NEW d \in Int
  PROVE  LET off == Date(z, d, 0) - FirstInstant(z, d)
         IN IF RepeatsMidnight(z) THEN 0 <= off /\ off <= z.before - z.after ELSE off = 0
<1>1. PICK o \in {z.before, z.after} : Date(z, d, 0) = 24 * d - o /\ lookup(z, 24 * d - o) = o
  BY Midnight
<1>2. PICK a, b, t : a = z.after /\ b = z.before /\ t = z.change
  OBVIOUS
<1>3. /\ a \in -12 .. 14 /\ b \in -12 .. 14 /\ t \in Int /\ o \in {a, b}
      /\ RepeatsMidnight(z) <=> t + a < t + b /\ (t + a) % 24 = 0
  BY <1>1, <1>2 DEF ZoneAsUsed, RepeatsMidnight, FromHour, ToHour
<1>4. \A u \in Int : lookup(z, u) = IF u < t THEN b ELSE a
  BY <1>2 DEF lookup
<1>5. CASE a < b /\ t + a = 24 * d
  <2>1. PICK u : u = 24 * d - b
    OBVIOUS
  <2>2. u \in 24 * d - 26 .. 24 * d + 26 /\ u \in Int /\ u - 1 \in Int /\ u < t
    BY <1>3, <1>5, <2>1
  <2>3. Day(z, u) = d /\ Day(z, u - 1) = d - 1
    BY <1>3, <1>4, <2>1, <2>2 DEF Day
  <2>4. FirstInstant(z, d) = u
    BY <2>2, <2>3, FirstInstantIs
  <2>5. RepeatsMidnight(z)
    BY <1>3, <1>5
  <2>6. 0 <= 24 * d - o - u /\ 24 * d - o - u <= b - a
    BY <1>3, <1>5, <2>1
  <2> QED BY <1>1, <1>2, <2>4, <2>5, <2>6
<1>6. CASE ~(a < b /\ t + a = 24 * d)
  <2>1. PICK u : u = 24 * d - o
    OBVIOUS
  <2>2. u \in 24 * d - 26 .. 24 * d + 26 /\ u \in Int /\ u - 1 \in Int
    BY <1>3, <2>1
  <2>3. (IF u < t THEN b ELSE a) = o
    BY <1>1, <1>4, <2>1, <2>2
  <2>4. Day(z, u) = d
    BY <1>3, <1>4, <2>1, <2>2, <2>3 DEF Day
  <2>5. Day(z, u - 1) < d
    <3>1. Day(z, u - 1) = (u - 1 + (IF u - 1 < t THEN b ELSE a)) \div 24
      BY <1>4, <2>2 DEF Day
    <3>2. u - 1 + (IF u - 1 < t THEN b ELSE a) < 24 * d
      BY <1>3, <1>6, <2>1, <2>2, <2>3
    <3>3. u - 1 + (IF u - 1 < t THEN b ELSE a) \in Int
      BY <1>3, <2>2
    <3> QED BY <3>1, <3>2, <3>3
  <2>6. FirstInstant(z, d) = u
    BY <2>2, <2>4, <2>5, FirstInstantIs
  <2>7. 24 * d - o - u = 0
    BY <1>3, <2>1
  <2>8. Date(z, d, 0) - FirstInstant(z, d) = 0
    BY <1>1, <2>6, <2>7
  <2>9. RepeatsMidnight(z) => 0 <= b - a
    BY <1>3
  <2> QED BY <1>2, <2>8, <2>9
<1> QED BY <1>5, <1>6

\* A zone that skips a midnight: on day k, by j hours.
LEMMA SkipIs ==
  ASSUME NEW z, ZoneAsUsed(z), SkipsMidnight(z)
  PROVE  \E k \in Int : /\ z.change = 24 * k - z.before
                        /\ z.after - z.before \in 1 .. 12
                        /\ z.before < 0 => k % 7 = 6
                        /\ z.before \in -12 .. 14 /\ z.after \in -12 .. 14
<1>1. PICK a, b, t : a = z.after /\ b = z.before /\ t = z.change
  OBVIOUS
<1>2. /\ a \in -12 .. 14 /\ b \in -12 .. 14 /\ t \in Int /\ (t + b) % 24 = 0 /\ t + a > t + b
      /\ (t + a) - (t + b) <= 12 /\ (b < 0 => ((t + b) \div 24) % 7 = 6)
  BY <1>1 DEF ZoneAsUsed, SkipsMidnight, FromHour, ToHour
<1>3. PICK k : k = (t + b) \div 24
  OBVIOUS
<1>4. k \in Int /\ t = 24 * k - b /\ a - b \in 1 .. 12 /\ (b < 0 => k % 7 = 6)
  BY <1>2, <1>3
<1> QED BY <1>1, <1>2, <1>4

\* The zone skips the midnight day k starts with, going from offset b to a.
SkipOn(z, k, a, b) ==
  /\ ZoneAsUsed(z) /\ k \in Int /\ a \in -12 .. 14 /\ b \in -12 .. 14 /\ a = z.after /\ b = z.before
  /\ z.change = 24 * k - b /\ a - b \in 1 .. 12

\* The first instants of days around a skipped midnight.
LEMMA FirstAroundSkip ==
  ASSUME NEW z, NEW k \in Int, NEW a \in Int, NEW b \in Int, SkipOn(z, k, a, b), NEW e \in Int
  PROVE  FirstInstant(z, e) = IF e <= k THEN 24 * e - b ELSE 24 * e - a
<1>. ZoneAsUsed(z) /\ a - b \in 1 .. 12 /\ a \in -12 .. 14 /\ b \in -12 .. 14
  BY DEF SkipOn
<1>1. \A u \in Int : lookup(z, u) = IF u < 24 * k - b THEN b ELSE a
  BY DEF lookup, SkipOn
<1>2. CASE e <= k
  <2>1. PICK u : u = 24 * e - b
    OBVIOUS
  <2>2. u \in 24 * e - 26 .. 24 * e + 26 /\ u \in Int /\ u - 1 \in Int /\ u - 1 < 24 * k - b
    BY <1>2, <2>1
  <2>3. Day(z, u - 1) = e - 1
    BY <1>1, <2>1, <2>2 DEF Day
  <2>4. Day(z, u) = e
    BY <1>1, <1>2, <2>1, <2>2 DEF Day
  <2> QED BY <1>2, <2>1, <2>2, <2>3, <2>4, FirstInstantIs
<1>3. CASE e > k
  <2>1. PICK u : u = 24 * e - a
    OBVIOUS
  <2>2. u \in 24 * e - 26 .. 24 * e + 26 /\ u \in Int /\ u - 1 \in Int /\ u - 1 >= 24 * k - b
    BY <1>3, <2>1
  <2>3. Day(z, u - 1) = e - 1 /\ Day(z, u) = e
    BY <1>1, <2>1, <2>2 DEF Day
  <2> QED BY <1>3, <2>1, <2>2, <2>3, FirstInstantIs
<1> QED BY <1>2, <1>3

\* The instant a local midnight is at under an offset, and that instant less the hours
\* a change of the offset skipped.
Mid(d, o) == 24 * d - o
Late(d, a, b) == 24 * d - (a - b) - a

\* Local midnights and their days around a skipped midnight: Date, and a day added to it.
LEMMA AroundSkip ==
  ASSUME NEW z, NEW k \in Int, NEW a \in Int, NEW b \in Int, SkipOn(z, k, a, b), NEW d \in Int
  PROVE  /\ d < k => /\ Date(z, d, 0) = Mid(d, b) /\ Day(z, Mid(d, b)) = d
                     /\ AddDay(z, Mid(d, b)) = Date(z, d + 1, 0)
         /\ d > k => /\ Date(z, d, 0) = Mid(d, a) /\ Day(z, Mid(d, a)) = d
                     /\ AddDay(z, Mid(d, a)) = Mid(d + 1, a)
                     /\ Day(z, Late(d, a, b)) = d - 1
                     /\ AddDay(z, Late(d, a, b)) = Late(d + 1, a, b)
         /\ b >= 0 => Date(z, k, 0) = Mid(k, b)
         /\ b >= 0 /\ d >= k => Day(z, Mid(d, b)) = d /\ AddDay(z, Mid(d, b)) = Mid(d + 1, b)
         /\ b < 0 => /\ Date(z, k, 0) = Mid(k, a)
                     /\ Day(z, Mid(k, a)) = k - 1 /\ AddDay(z, Mid(k, a)) = Late(k + 1, a, b)
<1>. /\ ZoneAsUsed(z) /\ a = z.after /\ b = z.before
     /\ a - b \in 1 .. 12 /\ a \in -12 .. 14 /\ b \in -12 .. 14
  BY DEF SkipOn
<1>1. PICK t : t = 24 * k - b /\ t = z.change
  BY DEF SkipOn
<1>2. /\ t \in Int /\ 0 \in 0 .. 23 /\ a - b \in 0 .. 23 /\ 24 - (a - b) \in 0 .. 23
      /\ k + 1 \in Int /\ d + 1 \in Int /\ k - 1 \in Int /\ d - 1 \in Int
  BY <1>1
<1>3. \A u \in Int : lookup(z, u) = IF u < t THEN b ELSE a
  BY <1>1 DEF lookup
<1>4. \A f \in Int, h \in 0 .. 23, w \in Int :
        w = 24 * f + h => /\ w < t /\ w < t + b => Date(z, f, h) = w - b
                          /\ w >= t /\ w >= t + a => Date(z, f, h) = w - a
                          /\ w < t /\ w >= t + b => Date(z, f, h) = w - a
                          /\ w >= t /\ w < t + a => Date(z, f, h) = w - b
  <2> SUFFICES ASSUME NEW f \in Int, NEW h \in 0 .. 23, NEW w \in Int, w = 24 * f + h
               PROVE  /\ w < t /\ w < t + b => Date(z, f, h) = w - b
                      /\ w >= t /\ w >= t + a => Date(z, f, h) = w - a
                      /\ w < t /\ w >= t + b => Date(z, f, h) = w - a
                      /\ w >= t /\ w < t + a => Date(z, f, h) = w - b
    OBVIOUS
  <2>1. /\ w < z.change /\ w < z.change + z.before => Date(z, f, h) = w - z.before
        /\ w >= z.change /\ w >= z.change + z.after => Date(z, f, h) = w - z.after
        /\ w < z.change /\ w >= z.change + z.before => Date(z, f, h) = w - z.after
        /\ w >= z.change /\ w < z.change + z.after => Date(z, f, h) = w - z.before
    <3>1. w \in {24 * f + h}
      OBVIOUS
    <3> QED BY <3>1, DateIs
  <2> QED BY <1>1, <2>1
<1>6. d < k => /\ Date(z, d, 0) = 24 * d - b /\ Day(z, 24 * d - b) = d
               /\ AddDay(z, 24 * d - b) = Date(z, d + 1, 0)
  <2> SUFFICES ASSUME d < k PROVE Date(z, d, 0) = 24 * d - b /\ Day(z, 24 * d - b) = d
                                  /\ AddDay(z, 24 * d - b) = Date(z, d + 1, 0)
    OBVIOUS
  <2>1. PICK u : u = 24 * d - b
    OBVIOUS
  <2>2. u = 24 * d + 0 - b /\ lookup(z, u) = b
    BY <1>1, <1>3, <2>1
  <2>3. 24 * d + 0 < t + b /\ 24 * d + 0 < t /\ 24 * d + 0 = 24 * d
    BY <1>1
  <2>4. Date(z, d, 0) = 24 * d - b
    BY <1>2, <1>4, <2>3
  <2>5. Day(z, u) = d /\ AddDay(z, u) = Date(z, d + 1, 0)
    BY <1>2, <2>2, AddDayIs
  <2> QED BY <2>1, <2>4, <2>5
<1>7. d > k => /\ Date(z, d, 0) = 24 * d - a /\ Day(z, 24 * d - a) = d
               /\ AddDay(z, 24 * d - a) = 24 * (d + 1) - a
  <2> SUFFICES ASSUME d > k PROVE Date(z, d, 0) = 24 * d - a /\ Day(z, 24 * d - a) = d
                                  /\ AddDay(z, 24 * d - a) = 24 * (d + 1) - a
    OBVIOUS
  <2>1. PICK u : u = 24 * d - a
    OBVIOUS
  <2>2. u = 24 * d + 0 - a /\ lookup(z, u) = a
    BY <1>1, <1>3, <2>1
  <2>3. 24 * d + 0 >= t + a /\ 24 * d + 0 >= t /\ 24 * d + 0 = 24 * d
    BY <1>1
  <2>4. 24 * (d + 1) + 0 >= t + a /\ 24 * (d + 1) + 0 >= t /\ 24 * (d + 1) + 0 = 24 * (d + 1)
    BY <1>1
  <2>5. Date(z, d, 0) = 24 * d - a /\ Date(z, d + 1, 0) = 24 * (d + 1) - a
    BY <1>2, <1>4, <2>3, <2>4
  <2>6. Day(z, u) = d /\ AddDay(z, u) = Date(z, d + 1, 0)
    BY <1>2, <2>2, AddDayIs
  <2> QED BY <2>1, <2>5, <2>6
<1>8. /\ b >= 0 => Date(z, k, 0) = 24 * k - b
      /\ b < 0 => Date(z, k, 0) = 24 * k - a
  <2>1. b >= 0 => 24 * k + 0 >= t /\ 24 * k + 0 < t + a
    BY <1>1
  <2>2. b < 0 => 24 * k + 0 < t /\ 24 * k + 0 >= t + b
    BY <1>1
  <2>3. 24 * k + 0 = 24 * k
    OBVIOUS
  <2> QED BY <1>2, <1>4, <2>1, <2>2, <2>3
<1>9. b >= 0 /\ d >= k => Day(z, 24 * d - b) = d /\ AddDay(z, 24 * d - b) = 24 * (d + 1) - b
  <2> SUFFICES ASSUME b >= 0, d >= k
               PROVE  Day(z, 24 * d - b) = d /\ AddDay(z, 24 * d - b) = 24 * (d + 1) - b
    OBVIOUS
  <2>1. PICK u, h : u = 24 * d - b /\ h = a - b
    OBVIOUS
  <2>2. h \in 0 .. 23 /\ u = 24 * d + h - a /\ lookup(z, u) = a
    BY <1>1, <1>3, <2>1
  <2>3. PICK e \in Int, w \in Int : /\ e = d + 1 /\ w = 24 * e + h /\ w >= t + a /\ w >= t
                                   /\ w - a = 24 * (d + 1) - b
    BY <1>1, <2>1
  <2>4. Date(z, e, h) = 24 * (d + 1) - b
    BY <1>4, <2>2, <2>3
  <2>5. Day(z, u) = d /\ AddDay(z, u) = Date(z, d + 1, h)
    <3>1. u + a = 24 * d + h
      BY <2>1
    <3>2. Day(z, u) = d /\ Hour24(z, u) = h
      BY <2>2, <3>1 DEF Day, Hour24
    <3> QED BY <3>2 DEF AddDay
  <2> QED BY <2>1, <2>3, <2>4, <2>5
<1>10. b < 0 => Day(z, 24 * k - a) = k - 1 /\ AddDay(z, 24 * k - a) = 24 * (k + 1) - (a - b) - a
  <2> SUFFICES ASSUME b < 0
               PROVE  Day(z, 24 * k - a) = k - 1 /\ AddDay(z, 24 * k - a) = 24 * (k + 1) - (a - b) - a
    OBVIOUS
  <2>1. PICK u, h, f : u = 24 * k - a /\ h = 24 - (a - b) /\ f = k - 1
    OBVIOUS
  <2>2. f \in Int /\ f + 1 = k /\ h \in 0 .. 23 /\ u = 24 * f + h - b /\ lookup(z, u) = b
    BY <1>1, <1>3, <2>1
  <2>3. PICK w \in Int : w = 24 * k + h /\ w >= t + a /\ w >= t /\ w - a = 24 * (k + 1) - (a - b) - a
    BY <1>1, <2>1
  <2>4. Date(z, k, h) = 24 * (k + 1) - (a - b) - a
    BY <1>4, <2>2, <2>3
  <2>5. Day(z, u) = f /\ AddDay(z, u) = Date(z, f + 1, h)
    BY <2>2, AddDayIs
  <2> QED BY <2>1, <2>2, <2>4, <2>5
<1>11. d > k => /\ Day(z, 24 * d - (a - b) - a) = d - 1
                /\ AddDay(z, 24 * d - (a - b) - a) = 24 * (d + 1) - (a - b) - a
  <2> SUFFICES ASSUME d > k
               PROVE  /\ Day(z, 24 * d - (a - b) - a) = d - 1
                      /\ AddDay(z, 24 * d - (a - b) - a) = 24 * (d + 1) - (a - b) - a
    OBVIOUS
  <2>1. PICK u, h, f : u = 24 * d - (a - b) - a /\ h = 24 - (a - b) /\ f = d - 1
    OBVIOUS
  <2>2. f \in Int /\ f + 1 = d /\ h \in 0 .. 23 /\ u = 24 * f + h - a /\ lookup(z, u) = a
    BY <1>1, <1>3, <2>1
  <2>3. PICK w \in Int : w = 24 * d + h /\ w >= t + a /\ w >= t /\ w - a = 24 * (d + 1) - (a - b) - a
    BY <1>1, <2>1
  <2>4. Date(z, d, h) = 24 * (d + 1) - (a - b) - a
    BY <1>4, <2>2, <2>3
  <2>5. Day(z, u) = f /\ AddDay(z, u) = Date(z, f + 1, h)
    <3>1. u + a = 24 * f + h
      BY <2>1
    <3>2. Day(z, u) = f /\ Hour24(z, u) = h
      BY <2>2, <3>1 DEF Day, Hour24
    <3> QED BY <3>2 DEF AddDay
  <2> QED BY <2>1, <2>2, <2>4, <2>5
<1> QED BY <1>6, <1>7, <1>8, <1>9, <1>10, <1>11 DEF Mid, Late

\* With time.Date finding every midnight the loop stands on, it keeps to midnights.
LEMMA OffAfterSkip ==
  ASSUME NEW cal \in Calendars, NEW start \in Starts, NEW c \in Clocks, NEW z, z = cal.zone,
         NEW k \in Int, NEW a \in Int, NEW b \in Int, SkipOn(z, k, a, b),
         Day(z, start) > k \/ b >= 0
  PROVE  b - a <= Off(cal, start, c) /\ Off(cal, start, c) < 24
<1>. ZoneAsUsed(z) /\ a - b \in 1 .. 12
  BY DEF SkipOn
<1>1. PICK D0, x : D0 = Day(z, start) /\ x = LastDay(cal, start, c)
  OBVIOUS
<1>2. D0 \in Int /\ x \in Int /\ x + 1 \in Int /\ x > D0
  BY <1>1, LastDayIs
<1>3. FirstInstant(z, x + 1) = IF x + 1 <= k THEN 24 * (x + 1) - b ELSE 24 * (x + 1) - a
  BY <1>2, FirstAroundSkip
<1>4. CASE D0 > k
  <2> DEFINE V == [d \in Int |-> Mid(d, a)]
  <2>1. ASSUME NEW d \in Int, d >= D0
        PROVE  AddDay(z, V[d]) = V[d + 1] /\ Day(z, V[d]) = d /\ Date(z, d, 0) = V[d]
    <3>1. d > k /\ d + 1 \in Int
      BY <1>2, <1>4, <2>1
    <3>2. V[d] = Mid(d, a) /\ V[d + 1] = Mid(d + 1, a)
      BY <3>1
    <3>3. Date(z, d, 0) = Mid(d, a) /\ Day(z, Mid(d, a)) = d /\ AddDay(z, Mid(d, a)) = Mid(d + 1, a)
      BY <3>1, AroundSkip
    <3> QED BY <3>2, <3>3
  <2>3. V[x + 1] = 24 * (x + 1) - a
    BY <1>2 DEF Mid
  <2> HIDE DEF V
  <2>4. Date(z, D0, 0) = V[D0]
    BY <1>2, <2>1
  <2>5. Due(cal, start, c) = V[x + 1]
    <3>1. \A d \in Int : d >= D0 => AddDay(cal.zone, V[d]) = V[d + 1]
      BY <2>1
    <3>2. \A d \in Int : d > D0 => Day(cal.zone, V[d]) = d
      BY <1>2, <2>1
    <3> QED BY <1>1, <2>4, <3>1, <3>2, DueIsV
  <2>6. Off(cal, start, c) = (24 * (x + 1) - a) - (24 * (x + 1) - a)
    BY <1>1, <1>2, <1>3, <1>4, <2>3, <2>5 DEF Off
  <2> QED BY <1>2, <2>6
<1>5. CASE b >= 0 /\ D0 <= k
  <2> DEFINE V == [d \in Int |-> Mid(d, b)]
  <2>1. ASSUME NEW d \in Int
        PROVE  AddDay(z, V[d]) = V[d + 1] /\ Day(z, V[d]) = d /\ (d <= k => Date(z, d, 0) = V[d])
    <3>1. d + 1 \in Int /\ V[d] = Mid(d, b) /\ V[d + 1] = Mid(d + 1, b)
      OBVIOUS
    <3> HIDE DEF V
    <3>2. Date(z, k, 0) = Mid(k, b)
      BY <1>5, AroundSkip
    <3>3. CASE d >= k
      <4>1. Day(z, Mid(d, b)) = d /\ AddDay(z, Mid(d, b)) = Mid(d + 1, b)
        BY <1>5, <3>3, AroundSkip
      <4>2. d <= k => d = k
        BY <3>3
      <4> QED BY <3>1, <3>2, <4>1, <4>2
    <3>4. CASE d < k
      <4>1. /\ Date(z, d, 0) = Mid(d, b) /\ Day(z, Mid(d, b)) = d
            /\ AddDay(z, Mid(d, b)) = Date(z, d + 1, 0)
        BY <3>4, AroundSkip
      <4>2. Date(z, d + 1, 0) = Mid(d + 1, b)
        <5>1. CASE d + 1 < k
          BY <3>1, <5>1, AroundSkip
        <5>2. CASE d + 1 = k
          BY <3>2, <5>2
        <5> QED BY <3>4, <5>1, <5>2
      <4> QED BY <3>1, <4>1, <4>2
    <3> QED BY <3>3, <3>4
  <2>3. V[x + 1] = 24 * (x + 1) - b
    BY <1>2 DEF Mid
  <2> HIDE DEF V
  <2>4. Date(z, D0, 0) = V[D0]
    BY <1>2, <1>5, <2>1
  <2>5. Due(cal, start, c) = V[x + 1]
    <3>1. \A d \in Int : d >= D0 => AddDay(cal.zone, V[d]) = V[d + 1]
      BY <2>1
    <3>2. \A d \in Int : d > D0 => Day(cal.zone, V[d]) = d
      BY <2>1
    <3> QED BY <1>1, <2>4, <3>1, <3>2, DueIsV
  <2>6. Off(cal, start, c) = (24 * (x + 1) - b) - (IF x + 1 <= k THEN 24 * (x + 1) - b ELSE 24 * (x + 1) - a)
    BY <1>1, <1>2, <1>3, <2>3, <2>5 DEF Off
  <2> QED BY <1>2, <2>6
<1> QED BY <1>1, <1>2, <1>4, <1>5

\* West of Greenwich, a clock started before the skip: the loop falls short of the
\* skipped midnight, stands on the day before it twice, and stays that short.
West(k, a, b, d) == IF d < k THEN Mid(d, b) ELSE IF d = k THEN Mid(k, a) ELSE Late(d, a, b)
WestDay(k, d) == IF d < k THEN d ELSE d - 1

\* A day added to such an instant is the next of them.
LEMMA WestSteps ==
  ASSUME NEW z, NEW k \in Int, NEW a \in Int, NEW b \in Int, SkipOn(z, k, a, b), b < 0, NEW d \in Int
  PROVE  /\ d <= k => Date(z, d, 0) = West(k, a, b, d)
         /\ AddDay(z, West(k, a, b, d)) = West(k, a, b, d + 1)
         /\ Day(z, West(k, a, b, d)) = WestDay(k, d)
<1>1. Date(z, k, 0) = Mid(k, a) /\ Day(z, Mid(k, a)) = k - 1 /\ AddDay(z, Mid(k, a)) = Late(k + 1, a, b)
  BY AroundSkip
<1>2. ASSUME NEW e \in Int, e <= k PROVE Date(z, e, 0) = West(k, a, b, e)
  <2>1. CASE e < k
    BY <2>1, AroundSkip DEF West
  <2>2. CASE e = k
    BY <1>1, <2>2 DEF West
  <2> QED BY <1>2, <2>1, <2>2
<1>3. CASE d < k
  <2>1. West(k, a, b, d) = Mid(d, b) /\ d + 1 \in Int /\ d + 1 <= k
    BY <1>3 DEF West
  <2>2. Day(z, Mid(d, b)) = d /\ AddDay(z, Mid(d, b)) = Date(z, d + 1, 0)
    BY <1>3, AroundSkip
  <2>3. Date(z, d + 1, 0) = West(k, a, b, d + 1)
    BY <1>2, <2>1
  <2>4. d <= k /\ WestDay(k, d) = d
    BY <1>3 DEF WestDay
  <2> QED BY <1>2, <2>1, <2>2, <2>3, <2>4
<1>4. CASE d = k
  <2>1. West(k, a, b, d) = Mid(k, a) /\ West(k, a, b, d + 1) = Late(k + 1, a, b) /\ WestDay(k, d) = k - 1
    BY <1>4 DEF West, WestDay
  <2> QED BY <1>1, <1>4, <2>1
<1>5. CASE d > k
  <2>1. West(k, a, b, d) = Late(d, a, b) /\ West(k, a, b, d + 1) = Late(d + 1, a, b) /\ WestDay(k, d) = d - 1
    BY <1>5 DEF West, WestDay
  <2>2. Day(z, Late(d, a, b)) = d - 1 /\ AddDay(z, Late(d, a, b)) = Late(d + 1, a, b)
    BY <1>5, AroundSkip
  <2> QED BY <1>5, <2>1, <2>2
<1> QED BY <1>3, <1>4, <1>5

\* So they are the loop's rounds.
LEMMA RoundsWest ==
  ASSUME NEW cal, NEW start, NEW z, z = cal.zone, MaxDays \in Nat,
         NEW k \in Int, NEW a \in Int, NEW b \in Int, SkipOn(z, k, a, b), b < 0,
         NEW D0 \in Int, D0 = Day(z, start), D0 <= k, NEW n \in 0 .. MaxDays
  PROVE  /\ Day(z, rounds(cal, start)[n]) = WestDay(k, D0 + n)
         /\ AddDay(z, rounds(cal, start)[n]) = West(k, a, b, D0 + n + 1)
<1>0. PICK W : W = [d \in Int |-> West(k, a, b, d)]
  OBVIOUS
<1>1. \A d \in Int : W[d] = West(k, a, b, d)
  BY <1>0
<1>2. ASSUME NEW d \in Int PROVE AddDay(z, W[d]) = W[d + 1]
  <2>1. d + 1 \in Int
    OBVIOUS
  <2> QED BY <1>1, <2>1, WestSteps
<1>3. rounds(cal, start)[0] = W[D0]
  <2>1. rounds(cal, start)[0] = Date(z, D0, 0)
    BY Rounds
  <2>2. Date(z, D0, 0) = West(k, a, b, D0)
    BY WestSteps
  <2> QED BY <1>1, <2>1, <2>2
<1>4. rounds(cal, start)[n] = W[D0 + n]
  <2>1. DayByDay(cal.zone, W, D0)
    BY <1>2 DEF DayByDay
  <2>2. Fitting(cal, start, W, D0)
    BY <1>3, <2>1 DEF Fitting
  <2>3. Giving(cal, start, W, D0)
    BY <2>2, RoundsGiven, Zenon
  <2> QED BY <2>3 DEF Giving
<1>5. PICK d : d = D0 + n
  OBVIOUS
<1>6. d \in Int /\ rounds(cal, start)[n] = West(k, a, b, d) /\ d + 1 = D0 + n + 1
  BY <1>1, <1>4, <1>5
<1>7. AddDay(z, West(k, a, b, d)) = West(k, a, b, d + 1) /\ Day(z, West(k, a, b, d)) = WestDay(k, d)
  BY <1>6, WestSteps
<1> QED BY <1>5, <1>6, <1>7

\* A clock of calendar days comes out early by the hours skipped, if at all.
LEMMA OffWestCalendar ==
  ASSUME NEW cal \in Calendars, NEW start \in Starts, NEW c \in Clocks, c.unit = "CALENDAR",
         NEW z, z = cal.zone, NEW k \in Int, NEW a \in Int, NEW b \in Int, SkipOn(z, k, a, b), b < 0, Day(z, start) <= k
  PROVE  b - a <= Off(cal, start, c) /\ Off(cal, start, c) < 24
<1>. ZoneAsUsed(z) /\ a - b \in 1 .. 12
  BY DEF SkipOn
<1>1. PICK D0, x : D0 = Day(z, start) /\ x = LastDay(cal, start, c)
  OBVIOUS
<1>2. /\ D0 \in Int /\ ZoneAsUsed(z) /\ MaxDays \in Nat /\ x \in D0 + 1 .. D0 + MaxDays - 1
      /\ RunsOutOn(cal, start, c, x)
  BY <1>1, LastDayIs
<1>3. FirstInstant(z, x + 1) = IF x + 1 <= k THEN 24 * (x + 1) - b ELSE 24 * (x + 1) - a
  BY <1>2, FirstAroundSkip
<1>4. PICK m : m = x - D0
  OBVIOUS
<1>5. m \in 1 .. MaxDays /\ m \in 0 .. MaxDays /\ D0 + m + 1 = x + 1 /\ x \in Int
  BY <1>2, <1>4
<1>6. CountedDays(cal, start, c, x) = D0 + 1 .. x
  BY <1>1 DEF CountedDays
<1>7. Cardinality(D0 + 1 .. x) = m /\ Cardinality(1 .. m) = m
  <2>1. Cardinality(D0 + 1 .. x) = IF D0 + 1 > x THEN 0 ELSE x - (D0 + 1) + 1
    BY <1>2, <1>5, FS_Interval
  <2>2. Cardinality(1 .. m) = IF 1 > m THEN 0 ELSE m - 1 + 1
    BY <1>5, FS_Interval
  <2> QED BY <1>2, <1>4, <1>5, <2>1, <2>2
<1>8. CountedRounds(cal, start, c) = 1 .. MaxDays
  BY DEF CountedRounds
<1>9. CountedRounds(cal, start, c) \cap (1 .. m) = 1 .. m
  <2>1. \A n \in 1 .. m : n \in 1 .. MaxDays
    BY <1>2, <1>5
  <2> QED BY <1>8, <2>1
<1>10. Cardinality(CountedRounds(cal, start, c) \cap (1 .. m)) = c.count
  BY <1>2, <1>6, <1>7, <1>9 DEF RunsOutOn
<1>11. Due(cal, start, c) = AddDay(z, rounds(cal, start)[m])
  BY <1>2, <1>5, <1>8, <1>10, DueAfter
<1>12. AddDay(z, rounds(cal, start)[m]) = West(k, a, b, x + 1)
  BY <1>1, <1>2, <1>5, RoundsWest
<1>13. Off(cal, start, c) = (IF x + 1 < k THEN 24 * (x + 1) - b
                             ELSE IF x + 1 = k THEN 24 * k - a
                             ELSE 24 * (x + 1) - (a - b) - a)
                            - (IF x + 1 <= k THEN 24 * (x + 1) - b ELSE 24 * (x + 1) - a)
  BY <1>1, <1>3, <1>5, <1>11, <1>12 DEF Off, West, Mid, Late
<1> QED BY <1>5, <1>13

\* For a clock of business days the day stood on twice is a Saturday and the skipped
\* midnight a Sunday's: neither counts, so the clock is late by less than a day, if at all.
LEMMA OffWestBusiness ==
  ASSUME NEW cal \in Calendars, NEW start \in Starts, NEW c \in Clocks, c.unit # "CALENDAR",
         NEW z, z = cal.zone, NEW k \in Int, NEW a \in Int, NEW b \in Int, SkipOn(z, k, a, b), b < 0, k % 7 = 6, Day(z, start) <= k
  PROVE  b - a <= Off(cal, start, c) /\ Off(cal, start, c) < 24
<1>. ZoneAsUsed(z) /\ a - b \in 1 .. 12
  BY DEF SkipOn
<1>1. PICK D0, x : D0 = Day(z, start) /\ x = LastDay(cal, start, c)
  OBVIOUS
<1>2. /\ D0 \in Int /\ ZoneAsUsed(z) /\ MaxDays \in Nat /\ x \in D0 + 1 .. D0 + MaxDays - 1
      /\ RunsOutOn(cal, start, c, x) /\ D0 <= k /\ x \in Int
  BY <1>1, LastDayIs
<1>3. FirstInstant(z, x + 1) = IF x + 1 <= k THEN 24 * (x + 1) - b ELSE 24 * (x + 1) - a
  BY <1>2, FirstAroundSkip
<1>4. ~BusinessDay(cal, k) /\ ~BusinessDay(cal, k - 1)
  BY DEF BusinessDay, Weekend
<1> DEFINE T == CountedDays(cal, start, c, x)
<1>5. \A d : d \in T <=> d \in D0 + 1 .. x /\ BusinessDay(cal, d)
  BY <1>1 DEF CountedDays
<1>6. x \in T /\ Cardinality(T) = c.count
  BY <1>2 DEF RunsOutOn
<1>7. x # k /\ x # k - 1 /\ BusinessDay(cal, x)
  BY <1>4, <1>5, <1>6
<1>8. PICK m : m = IF x < k THEN x - D0 ELSE x - D0 + 1
  OBVIOUS
<1>9. m \in 1 .. MaxDays /\ m \in 0 .. MaxDays /\ m \in Int
  BY <1>2, <1>8
<1> DEFINE f == [n \in Int |-> IF D0 + n < k THEN D0 + n ELSE D0 + n - 1]
           S == CountedRounds(cal, start, c) \cap (1 .. m)
<1>10. \A n \in Int : f[n] = (IF D0 + n < k THEN D0 + n ELSE D0 + n - 1) /\ f[n] = WestDay(k, D0 + n)
  BY <1>2 DEF WestDay
<1> HIDE DEF f
<1>11. \A n : n \in S <=> n \in 1 .. m /\ BusinessDay(cal, f[n])
  <2>1. \A n \in 1 .. MaxDays : Day(z, rounds(cal, start)[n]) = f[n]
    <3> SUFFICES ASSUME NEW n \in 1 .. MaxDays PROVE Day(z, rounds(cal, start)[n]) = f[n]
      OBVIOUS
    <3>1. n \in 0 .. MaxDays /\ n \in Int
      BY <1>2
    <3>2. Day(z, rounds(cal, start)[n]) = WestDay(k, D0 + n)
      BY <1>1, <1>2, <3>1, RoundsWest
    <3> QED BY <1>10, <3>1, <3>2
  <2>2. \A n : n \in CountedRounds(cal, start, c) <=> n \in 1 .. MaxDays /\ BusinessDay(cal, f[n])
    BY <2>1 DEF CountedRounds, IsBusinessDay
  <2>3. \A n \in 1 .. m : n \in 1 .. MaxDays
    BY <1>2, <1>9
  <2> QED BY <2>2, <2>3
<1>12. IsFiniteSet(S)
  <2>1. IsFiniteSet(1 .. m)
    BY <1>9, FS_Interval
  <2> QED BY <2>1, FS_Subset
<1> HIDE DEF S, T
<1>13. \A n \in S : f[n] # k /\ f[n] # k - 1 /\ n \in 1 .. m
  BY <1>4, <1>11
<1>14. \A n \in S : f[n] \in T
  <2> SUFFICES ASSUME NEW n \in S PROVE f[n] \in T
    OBVIOUS
  <2>1. n \in 1 .. m /\ BusinessDay(cal, f[n]) /\ f[n] # k /\ f[n] # k - 1
    BY <1>11, <1>13
  <2>2. f[n] = IF D0 + n < k THEN D0 + n ELSE D0 + n - 1
    BY <1>10, <2>1
  <2>3. f[n] \in D0 + 1 .. x
    BY <1>2, <1>7, <1>8, <1>9, <2>1, <2>2
  <2> QED BY <1>5, <2>1, <2>3
<1>15. \A n, l \in S : f[n] = f[l] => n = l
  <2> SUFFICES ASSUME NEW n \in S, NEW l \in S, f[n] = f[l] PROVE n = l
    OBVIOUS
  <2>1. n \in Int /\ l \in Int
    BY <1>9, <1>13
  <2>2. PICK p : p = f[n] /\ p = f[l]
    OBVIOUS
  <2>3. p = (IF D0 + n < k THEN D0 + n ELSE D0 + n - 1) /\ p = (IF D0 + l < k THEN D0 + l ELSE D0 + l - 1) /\ p # k - 1
    BY <1>10, <1>13, <2>1, <2>2
  <2> QED BY <1>2, <2>1, <2>3
<1>16. \A d \in T : \E n \in S : f[n] = d
  <2> SUFFICES ASSUME NEW d \in T PROVE \E n \in S : f[n] = d
    OBVIOUS
  <2>1. d \in D0 + 1 .. x /\ BusinessDay(cal, d) /\ d # k /\ d # k - 1
    BY <1>4, <1>5
  <2>2. PICK n : n = IF d < k THEN d - D0 ELSE d - D0 + 1
    OBVIOUS
  <2>3. n \in Int /\ n \in 1 .. m
    BY <1>2, <1>7, <1>8, <2>1, <2>2
  <2>4. f[n] = d
    <3>1. f[n] = IF D0 + n < k THEN D0 + n ELSE D0 + n - 1
      BY <1>10, <2>3
    <3> QED BY <1>2, <2>1, <2>2, <3>1
  <2> QED BY <1>11, <2>1, <2>3, <2>4
<1>17. Cardinality(S) = Cardinality(T)
  BY <1>12, <1>14, <1>15, <1>16, SameSize
<1>18. f[m] = x
  <2>1. f[m] = IF D0 + m < k THEN D0 + m ELSE D0 + m - 1
    BY <1>9, <1>10
  <2> QED BY <1>2, <1>7, <1>8, <2>1
<1>19. m \in S
  <2>1. m \in 1 .. m
    BY <1>9
  <2> QED BY <1>7, <1>11, <1>18, <2>1
<1>20. Due(cal, start, c) = AddDay(z, rounds(cal, start)[m])
  <2>1. m \in CountedRounds(cal, start, c) /\ Cardinality(CountedRounds(cal, start, c) \cap (1 .. m)) = c.count
    BY <1>6, <1>17, <1>19 DEF S
  <2> QED BY <1>2, <2>1, DueAfter
<1>21. AddDay(z, rounds(cal, start)[m]) = West(k, a, b, D0 + m + 1)
  BY <1>1, <1>2, <1>9, RoundsWest
<1>22. PICK u : u = AddDay(z, rounds(cal, start)[m])
  OBVIOUS
<1>23. u = IF x < k THEN 24 * (x + 1) - b ELSE 24 * (x + 2) - (a - b) - a
  BY <1>2, <1>7, <1>8, <1>21, <1>22 DEF West, Mid, Late
<1>24. Off(cal, start, c) = u - (IF x + 1 <= k THEN 24 * (x + 1) - b ELSE 24 * (x + 1) - a)
  BY <1>1, <1>3, <1>20, <1>22 DEF Off
<1> QED BY <1>2, <1>7, <1>23, <1>24

\* Every clock: its due time is off the end of its last day only where a midnight is
\* skipped or comes twice.
LEMMA OffAnyZone ==
  ASSUME NEW cal \in Calendars, NEW start \in Starts, NEW c \in Clocks, NEW z, z = cal.zone
  PROVE  LET off == Off(cal, start, c)
         IN IF SkipsMidnight(z) THEN z.before - z.after <= off /\ off < 24
            ELSE IF RepeatsMidnight(z) THEN 0 <= off /\ off <= z.before - z.after
            ELSE off = 0
<1>1. ZoneAsUsed(z) /\ LastDay(cal, start, c) + 1 \in Int /\ Day(z, start) \in Int
  BY LastDayIs
<1>2. CASE ~SkipsMidnight(z)
  <2>1. PICK e : e = LastDay(cal, start, c) + 1
    OBVIOUS
  <2>2. Due(cal, start, c) = Date(z, e, 0)
    BY <1>2, <2>1, DueOrdinary
  <2>3. Off(cal, start, c) = Date(z, e, 0) - FirstInstant(z, e)
    BY <2>1, <2>2 DEF Off
  <2>4. LET off == Date(z, e, 0) - FirstInstant(z, e)
        IN IF RepeatsMidnight(z) THEN 0 <= off /\ off <= z.before - z.after ELSE off = 0
    BY <1>1, <1>2, <2>1, OffOrdinary
  <2> QED BY <1>2, <2>3, <2>4
<1>3. CASE SkipsMidnight(z)
  <2>1. PICK a, b : a = z.after /\ b = z.before
    OBVIOUS
  <2>2. PICK k \in Int : z.change = 24 * k - b /\ a - b \in 1 .. 12 /\ (b < 0 => k % 7 = 6)
                         /\ a \in -12 .. 14 /\ b \in -12 .. 14
    BY <1>1, <1>3, <2>1, SkipIs
  <2>. SkipOn(z, k, a, b) /\ a \in Int /\ b \in Int
    BY <1>1, <2>1, <2>2 DEF SkipOn
  <2>3. CASE Day(z, start) > k \/ b >= 0
    <3>1. b - a <= Off(cal, start, c) /\ Off(cal, start, c) < 24
      BY <2>1, <2>2, <2>3, OffAfterSkip
    <3> QED BY <1>3, <2>1, <3>1
  <2>4. CASE Day(z, start) <= k /\ b < 0 /\ c.unit = "CALENDAR"
    <3>1. b - a <= Off(cal, start, c) /\ Off(cal, start, c) < 24
      BY <2>1, <2>2, <2>4, OffWestCalendar
    <3> QED BY <1>3, <2>1, <3>1
  <2>5. CASE Day(z, start) <= k /\ b < 0 /\ c.unit # "CALENDAR"
    <3>1. b - a <= Off(cal, start, c) /\ Off(cal, start, c) < 24
      BY <2>1, <2>2, <2>5, OffWestBusiness
    <3> QED BY <1>3, <2>1, <3>1
  <2>6. b \in Int
    BY <2>2
  <2> QED BY <1>1, <2>2, <2>3, <2>4, <2>5, <2>6
<1> QED BY <1>2, <1>3

\* A clock keeps the calendar it was opened under and what Due gave for it.
ClockAsOpened ==
  /\ scene = "calendar" => calendar \in Calendars
  /\ clock # <<>> => \E cal \in Calendars, start \in Starts, c \in Clocks :
       clock = <<[start |-> start, clock |-> c, calendar |-> cal, due |-> Due(cal, start, c)]>>

\* Every step keeps that: only Counting touches the calendar and the clock.
LEMMA ClockStep == ClockAsOpened /\ [Next]_vars => ClockAsOpened'
<1> SUFFICES ASSUME ClockAsOpened, [Next]_vars PROVE ClockAsOpened'
  OBVIOUS
<1>1. CASE UNCHANGED <<calendar, clock, scene>>
  BY <1>1 DEF ClockAsOpened
<1>2. CASE scene = "calendar" /\ Counting /\ UNCHANGED scene
  <2>1. ASSUME NEW cal \in Calendars, SetCalendar(cal) PROVE ClockAsOpened'
    BY <2>1 DEF SetCalendar, ClockAsOpened
  <2>2. ASSUME NEW start \in Starts, NEW c \in Clocks, OpenClock(start, c) PROVE ClockAsOpened'
    BY <1>2, <2>2 DEF OpenClock, ClockAsOpened
  <2> QED BY <1>2, <2>1, <2>2 DEF Counting
<1>3. CASE Wording \/ Asking \/ Scoring \/ Migrating \/ RollOut
  <2>1. UNCHANGED calendarVars
    BY <1>3 DEF Wording, Asking, Scoring, Migrating, RollOut
  <2> QED BY <1>1, <2>1 DEF Next, vars, calendarVars
<1> QED BY <1>1, <1>2, <1>3 DEF Next, vars, calendarVars

\* And such a clock ends with its last day.
LEMMA ClockEnds == ClockAsOpened => DueEndsTheLastDay
<1> SUFFICES ASSUME ClockAsOpened, clock # <<>> PROVE DueEndsTheLastDay
  BY DEF DueEndsTheLastDay
<1>1. PICK cal \in Calendars, start \in Starts, c \in Clocks :
        clock = <<[start |-> start, clock |-> c, calendar |-> cal, due |-> Due(cal, start, c)]>>
  BY DEF ClockAsOpened
<1>2. PICK x : x = clock[1]
  OBVIOUS
<1>3. x.start = start /\ x.clock = c /\ x.calendar = cal /\ x.due = Due(cal, start, c)
  BY <1>1, <1>2
<1>4. x.due - End(x) = Off(cal, start, c)
  BY <1>3 DEF End, Off
<1>5. PICK z : z = cal.zone
  OBVIOUS
<1>6. LET off == Off(cal, start, c)
      IN IF SkipsMidnight(z) THEN z.before - z.after <= off /\ off < 24
         ELSE IF RepeatsMidnight(z) THEN 0 <= off /\ off <= z.before - z.after
         ELSE off = 0
  BY <1>5, OffAnyZone
<1> QED BY <1>2, <1>3, <1>4, <1>5, <1>6 DEF DueEndsTheLastDay

\* A clock runs out with the last of its days: Calendar.Due gives the end of that day in
\* every zone, over any weekends, holidays and changes of the offset, except where a
\* midnight is skipped or comes twice; there it is off by no more than the property says.
THEOREM ClocksEndWithTheirLastDay == Spec => []DueEndsTheLastDay
<1>1. Init => ClockAsOpened
  BY DEF Init, ClockAsOpened
<1> QED BY <1>1, ClockStep, ClockEnds, PTL DEF Spec

-----------------------------------------------------------------------------
(* Lists, and what joining them end to end gives *)

IsList(s) == \E n \in Nat : s = [i \in 1 .. n |-> s[i]]
Lists(p) == IsList(p) /\ \A i \in DOMAIN p : IsList(p[i])

LEMMA ListLen ==
  ASSUME NEW s, IsList(s)
  PROVE  /\ Len(s) \in Nat /\ DOMAIN s = 1 .. Len(s) /\ s = [i \in 1 .. Len(s) |-> s[i]]
         /\ s \in Seq({s[i] : i \in DOMAIN s})
<1>1. PICK n \in Nat : s = [i \in 1 .. n |-> s[i]]
  BY DEF IsList
<1>2. PICK S, D : D = 1 .. n /\ DOMAIN s = D /\ S = {s[i] : i \in D}
  BY <1>1
<1>3. \A i \in D : s[i] \in S
  BY <1>2
<1>4. s \in [D -> S]
  BY <1>1, <1>2, <1>3
<1>5. s \in Seq(S) /\ Len(s) = n
  BY <1>2, <1>4
<1>. QED BY <1>1, <1>2, <1>5

LEMMA SeqIsList == ASSUME NEW S, NEW s \in Seq(S) PROVE IsList(s)
<1>1. Len(s) \in Nat /\ s = [i \in 1 .. Len(s) |-> s[i]]
  OBVIOUS
<1>. QED BY <1>1 DEF IsList

LEMMA EmptyList == IsList(<<>>)
<1>1. <<>> \in Seq({})
  OBVIOUS
<1>. QED BY <1>1, SeqIsList

LEMMA OneList == ASSUME NEW x PROVE IsList(<<x>>) /\ Len(<<x>>) = 1 /\ <<x>>[1] = x /\ DOMAIN <<x>> = {1}
<1>1. <<x>> \in Seq({x}) /\ Len(<<x>>) = 1 /\ <<x>>[1] = x
  OBVIOUS
<1>2. DOMAIN <<x>> = 1 .. 1 /\ 1 .. 1 = {1}
  OBVIOUS
<1>3. IsList(<<x>>)
  BY <1>1, SeqIsList
<1>. QED BY <1>1, <1>2, <1>3

Join(a, b) == a \o b

\* What is joined has the elements of the one and then those of the other.
LEMMA Cat ==
  ASSUME NEW a, NEW b, IsList(a), IsList(b)
  PROVE  /\ IsList(Join(a, b)) /\ Len(Join(a, b)) = Len(a) + Len(b)
         /\ \A i \in 1 .. Len(a) : Join(a, b)[i] = a[i]
         /\ \A i \in 1 .. Len(b) : Join(a, b)[Len(a) + i] = b[i]
<1>1. PICK T : a \in Seq(T) /\ b \in Seq(T)
  <2>1. PICK A, B : a \in Seq(A) /\ b \in Seq(B)
    BY ListLen
  <2>2. A \subseteq A \cup B /\ B \subseteq A \cup B
    OBVIOUS
  <2>3. a \in Seq(A \cup B) /\ b \in Seq(A \cup B)
    BY <2>1, <2>2
  <2>. QED BY <2>3
<1>2. a \o b \in Seq(T) /\ Len(a \o b) = Len(a) + Len(b)
  BY <1>1
<1>3. \A i \in 1 .. Len(a) : (a \o b)[i] = a[i]
  BY <1>1
<1>4. \A i \in 1 .. Len(b) : (a \o b)[Len(a) + i] = b[i]
  BY <1>1
<1>5. IsList(a \o b)
  BY <1>2, SeqIsList
<1>. QED BY <1>2, <1>3, <1>4, <1>5 DEF Join

\* The list c is the n elements of a and then the m of b.
IsCat(c, a, b, n, m) ==
  /\ IsList(c) /\ Len(c) = n + m
  /\ \A i \in 1 .. n : c[i] = a[i]
  /\ \A i \in 1 .. m : c[n + i] = b[i]

LEMMA CatIs ==
  ASSUME NEW a, NEW b, IsList(a), IsList(b), NEW c, c = Join(a, b), NEW n, n = Len(a), NEW m, m = Len(b)
  PROVE  IsCat(c, a, b, n, m)
BY Cat DEF IsCat

\* Lists of one length with the same elements are one.
LEMMA SameList ==
  ASSUME NEW a, NEW b, IsList(a), IsList(b), Len(a) = Len(b), \A i \in 1 .. Len(a) : a[i] = b[i]
  PROVE  a = b
<1>1. PICK n : n = Len(a) /\ n = Len(b) /\ a = [i \in 1 .. n |-> a[i]] /\ b = [i \in 1 .. n |-> b[i]]
  BY ListLen
<1>. QED BY <1>1

LEMMA CatEmpty ==
  ASSUME NEW a, IsList(a)
  PROVE  Join(<<>>, a) = a /\ Join(a, <<>>) = a
<1>1. PICK T : a \in Seq(T)
  BY ListLen
<1>. QED BY <1>1 DEF Join

LEMMA TwoList == ASSUME NEW a, NEW b PROVE Join(<<a>>, <<b>>) = <<a, b>>
<1>1. PICK x, y, c, d : x = <<a>> /\ y = <<b>> /\ c = Join(x, y) /\ d = <<a, b>>
  OBVIOUS
<1>2. PICK e : e = 1
  OBVIOUS
<1>3. IsList(x) /\ Len(x) = e /\ x[1] = a /\ IsList(y) /\ Len(y) = e /\ y[1] = b
  BY <1>1, <1>2, OneList
<1>4. IsCat(c, x, y, e, e)
  BY <1>1, <1>3, CatIs
<1>5. IsList(c) /\ Len(c) = 2
  BY <1>2, <1>4 DEF IsCat
<1>6. c[1] = a /\ c[1 + 1] = b
  <2>1. 1 \in 1 .. e
    BY <1>2
  <2>. QED BY <1>2, <1>3, <1>4, <2>1 DEF IsCat
<1>7. d \in Seq({a, b}) /\ Len(d) = 2 /\ d[1] = a /\ d[2] = b
  BY <1>1
<1>8. IsList(d)
  BY <1>7, SeqIsList
<1>9. \A i \in 1 .. Len(c) : c[i] = d[i]
  <2>1. \A i \in 1 .. Len(c) : i = 1 \/ i = 1 + 1
    BY <1>5
  <2>2. 1 + 1 = 2
    OBVIOUS
  <2>. QED BY <1>6, <1>7, <2>1, <2>2
<1>10. c = d
  BY <1>5, <1>7, <1>8, <1>9, SameList
<1>. QED BY <1>1, <1>10

LEMMA CatAssoc ==
  ASSUME NEW a, NEW b, NEW c, IsList(a), IsList(b), IsList(c)
  PROVE  Join(Join(a, b), c) = Join(a, Join(b, c))
<1>1. PICK x, y : x = Join(Join(a, b), c) /\ y = Join(a, Join(b, c))
  OBVIOUS
<1>2. PICK p, q, r : p = Len(a) /\ q = Len(b) /\ r = Len(c)
  OBVIOUS
<1>3. p \in Nat /\ q \in Nat /\ r \in Nat
  BY <1>2, ListLen
<1>4. PICK ab, bc : ab = Join(a, b) /\ bc = Join(b, c)
  OBVIOUS
<1>5. /\ IsList(ab) /\ Len(ab) = p + q /\ (\A i \in 1 .. p : ab[i] = a[i]) /\ (\A i \in 1 .. q : ab[p + i] = b[i])
  BY <1>2, <1>4, Cat
<1>6. /\ IsList(bc) /\ Len(bc) = q + r /\ (\A i \in 1 .. q : bc[i] = b[i]) /\ (\A i \in 1 .. r : bc[q + i] = c[i])
  BY <1>2, <1>4, Cat
<1>7. /\ IsList(x) /\ Len(x) = (p + q) + r /\ (\A i \in 1 .. p + q : x[i] = ab[i]) /\ (\A i \in 1 .. r : x[(p + q) + i] = c[i])
  <2>1. PICK n : n = p + q /\ n = Len(ab)
    BY <1>5
  <2>2. x = Join(ab, c) /\ IsList(ab)
    BY <1>1, <1>4, <1>5
  <2>3. /\ IsList(x) /\ Len(x) = n + r /\ (\A i \in 1 .. n : x[i] = ab[i]) /\ (\A i \in 1 .. r : x[n + i] = c[i])
    BY <1>2, <2>1, <2>2, Cat
  <2>. QED BY <2>1, <2>3
<1>8. /\ IsList(y) /\ Len(y) = p + (q + r) /\ (\A i \in 1 .. p : y[i] = a[i]) /\ (\A i \in 1 .. q + r : y[p + i] = bc[i])
  <2>1. PICK n : n = q + r /\ n = Len(bc)
    BY <1>6
  <2>2. y = Join(a, bc) /\ IsList(bc)
    BY <1>1, <1>4, <1>6
  <2>3. /\ IsList(y) /\ Len(y) = p + n /\ (\A i \in 1 .. p : y[i] = a[i]) /\ (\A i \in 1 .. n : y[p + i] = bc[i])
    BY <1>2, <2>1, <2>2, Cat
  <2>. QED BY <2>1, <2>3
<1>9. ASSUME NEW i \in 1 .. Len(x) PROVE x[i] = y[i]
  <2>1. CASE i <= p
    BY <1>3, <1>5, <1>7, <1>8, <2>1
  <2>2. CASE i > p /\ i <= p + q
    <3>1. PICK j : j = i - p /\ j \in 1 .. q /\ j \in 1 .. q + r /\ i = p + j
      BY <1>3, <1>7, <2>2
    <3>2. x[i] = b[j]
      BY <1>3, <1>5, <1>7, <2>2, <3>1
    <3>3. y[i] = b[j]
      BY <1>6, <1>8, <3>1
    <3>. QED BY <3>2, <3>3
  <2>3. CASE i > p + q
    <3>1. PICK j : j = i - (p + q) /\ j \in 1 .. r /\ i = (p + q) + j
      BY <1>3, <1>7, <2>3
    <3>2. PICK k : k = q + j /\ k \in 1 .. q + r /\ i = p + k
      BY <1>3, <3>1
    <3>3. y[i] = bc[k] /\ bc[k] = c[j] /\ x[i] = c[j]
      BY <1>6, <1>7, <1>8, <3>1, <3>2
    <3>. QED BY <3>3
  <2>. QED BY <1>3, <1>7, <2>1, <2>2, <2>3
<1>10. Len(x) = Len(y)
  BY <1>3, <1>7, <1>8
<1>11. x = y
  BY <1>7, <1>8, <1>9, <1>10, SameList
<1>. QED BY <1>1, <1>11

\* What FlattenSeq has joined after each of the parts.
Runs(p, g, n) ==
  /\ g[0] = <<>>
  /\ \A i \in 1 .. n : g[i] = Join(g[i - 1], p[i])

LEMMA RunsAreLists ==
  ASSUME NEW p, NEW g, NEW n \in Nat, Runs(p, g, n), \A i \in 1 .. n : IsList(p[i])
  PROVE  \A i \in 0 .. n : IsList(g[i])
<1>1. PICK Fails : Fails = {i \in 0 .. n : ~IsList(g[i])}
  OBVIOUS
<1>. SUFFICES ASSUME Fails # {} PROVE FALSE
  BY <1>1
<1>2. PICK k \in Fails : \A l \in Fails : k <= l
  <2>1. Fails \in SUBSET Nat
    BY <1>1
  <2>. QED BY <2>1, LeastOf
<1>3. k \in 0 .. n /\ ~IsList(g[k])
  BY <1>1, <1>2
<1>4. k # 0
  BY <1>3, EmptyList DEF Runs
<1>5. k \in 1 .. n /\ k - 1 \in 0 .. n /\ ~(k <= k - 1)
  BY <1>3, <1>4
<1>6. IsList(g[k - 1])
  BY <1>1, <1>2, <1>5
<1>7. IsList(g[k])
  BY <1>5, <1>6, Cat DEF Runs
<1>. QED BY <1>3, <1>7

LEMMA RunsOnce ==
  ASSUME NEW p, NEW g, NEW h, NEW n \in Nat, Runs(p, g, n), Runs(p, h, n)
  PROVE  g[n] = h[n]
<1>1. PICK Fails : Fails = {i \in 0 .. n : g[i] # h[i]}
  OBVIOUS
<1>. SUFFICES ASSUME Fails # {} PROVE FALSE
  BY <1>1
<1>2. PICK k \in Fails : \A l \in Fails : k <= l
  <2>1. Fails \in SUBSET Nat
    BY <1>1
  <2>. QED BY <2>1, LeastOf
<1>3. k \in 0 .. n /\ g[k] # h[k]
  BY <1>1, <1>2
<1>4. k # 0
  BY <1>3 DEF Runs
<1>5. k \in 1 .. n /\ k - 1 \in 0 .. n /\ ~(k <= k - 1)
  BY <1>3, <1>4
<1>6. g[k - 1] = h[k - 1]
  BY <1>1, <1>2, <1>5
<1>7. g[k] = h[k]
  BY <1>5, <1>6 DEF Runs
<1>. QED BY <1>3, <1>7

LEMMA FlatRuns ==
  ASSUME NEW p, Lists(p)
  PROVE  \E g : Runs(p, g, Len(p)) /\ FlattenSeq(p) = g[Len(p)]
<1>1. PICK n : n = Len(p) /\ n \in Nat /\ DOMAIN p = 1 .. n /\ p = [i \in 1 .. n |-> p[i]]
  BY ListLen DEF Lists
<1>2. CASE n = 0
  <2>1. p = <<>>
    BY <1>1, <1>2
  <2>2. PICK g : g = [i \in {0} |-> <<>>]
    OBVIOUS
  <2>3. Runs(p, g, n)
    BY <1>2, <2>2 DEF Runs
  <2>4. FlattenSeq(p) = p
    BY <1>1, <1>2 DEF FlattenSeq
  <2>. QED BY <1>1, <1>2, <2>1, <2>2, <2>3, <2>4
<1>3. CASE n # 0
  <2>. DEFINE Rec(f, i) == IF i = 1 THEN p[i] ELSE Join(f[i - 1], p[i])
              Upto(k, f) == f = [i \in 1 .. k |-> Rec(f, i)]
              Fails == {k \in 1 .. n : ~\E f : Upto(k, f)}
  <2>1. Fails = {}
    <3>. SUFFICES ASSUME Fails # {} PROVE FALSE
      OBVIOUS
    <3>1. PICK k \in Fails : \A l \in Fails : k <= l
      <4>1. Fails \in SUBSET Nat
        OBVIOUS
      <4>. QED BY <4>1, LeastOf
    <3>2. k # 1
      <4>1. Upto(1, [i \in 1 .. 1 |-> p[1]])
        OBVIOUS
      <4>. QED BY <3>1, <4>1
    <3>3. PICK f : Upto(k - 1, f)
      <4>1. k - 1 \in 1 .. n /\ ~(k <= k - 1)
        BY <1>1, <3>1, <3>2
      <4>2. k - 1 \notin Fails
        BY <3>1, <4>1
      <4>. QED BY <4>1, <4>2
    <3>4. PICK h : h = [i \in 1 .. k |-> IF i = k THEN Join(f[k - 1], p[k]) ELSE f[i]]
      OBVIOUS
    <3>5. Upto(k, h)
      <4>1. k \in Nat /\ k > 1
        BY <1>1, <3>1, <3>2
      <4>2. \A i \in 1 .. k - 1 : h[i] = f[i]
        BY <3>4, <4>1
      <4>3. h[k] = Join(f[k - 1], p[k])
        BY <3>4, <4>1
      <4>4. \A i \in 1 .. k - 1 : f[i] = Rec(f, i)
        BY <3>3
      <4>5. ASSUME NEW i \in 1 .. k PROVE h[i] = Rec(h, i)
        <5>1. CASE i = k
          <6>1. k - 1 \in 1 .. k - 1
            BY <4>1
          <6>. QED BY <4>1, <4>2, <4>3, <5>1, <6>1
        <5>2. CASE i # k /\ i = 1
          <6>1. i \in 1 .. k - 1
            BY <4>1, <5>2
          <6>. QED BY <4>2, <4>4, <5>2, <6>1
        <5>3. CASE i # k /\ i # 1
          <6>1. i \in 1 .. k - 1 /\ i - 1 \in 1 .. k - 1
            BY <4>1, <5>3
          <6>2. f[i] = Join(f[i - 1], p[i])
            BY <4>4, <5>3, <6>1
          <6>. QED BY <4>2, <5>3, <6>1, <6>2
        <5>. QED BY <5>1, <5>2, <5>3
      <4>6. DOMAIN h = 1 .. k /\ h = [i \in 1 .. k |-> h[i]]
        BY <3>4
      <4>. QED BY <4>5, <4>6
    <3>6. k \in 1 .. n /\ ~\E x : Upto(k, x)
      BY <3>1
    <3>. QED BY <3>5, <3>6
  <2>2. \E f : Upto(n, f)
    <3>1. n \in 1 .. n
      BY <1>1, <1>3
    <3>2. n \notin Fails
      BY <2>1
    <3>. QED BY <3>1, <3>2
  <2>3. Upto(n, CHOOSE f : Upto(n, f))
    BY <2>2
  <2>4. PICK f : f = CHOOSE x : Upto(n, x)
    OBVIOUS
  <2>5. FlattenSeq(p) = f[n]
    BY <1>1, <1>3, <2>4 DEF FlattenSeq, Join
  <2>6. Upto(n, f)
    BY <2>3, <2>4
  <2>7. \A i \in 1 .. n : f[i] = IF i = 1 THEN p[i] ELSE Join(f[i - 1], p[i])
    BY <2>6
  <2>. HIDE DEF Upto, Rec, Fails
  <2>8. PICK g : g = [i \in 0 .. n |-> IF i = 0 THEN <<>> ELSE f[i]]
    OBVIOUS
  <2>9. g[0] = <<>> /\ \A i \in 1 .. n : g[i] = f[i]
    BY <1>1, <2>8
  <2>10. ASSUME NEW i \in 1 .. n PROVE g[i] = Join(g[i - 1], p[i])
    <3>1. CASE i = 1
      <4>1. g[i] = p[i] /\ g[i - 1] = <<>> /\ IsList(p[i])
        <5>1. i - 1 = 0 /\ i \in DOMAIN p
          BY <1>1, <3>1
        <5>2. g[i] = p[i]
          BY <2>7, <2>9, <3>1
        <5>3. g[i - 1] = <<>>
          BY <2>9, <5>1
        <5>4. IsList(p[i])
          BY <5>1 DEF Lists
        <5>. QED BY <5>2, <5>3, <5>4
      <4>. QED BY <4>1, CatEmpty
    <3>2. CASE i # 1
      <4>1. i - 1 \in 1 .. n
        BY <1>1, <3>2
      <4>. QED BY <2>7, <2>9, <3>2, <4>1
    <3>. QED BY <3>1, <3>2
  <2>11. Runs(p, g, n) /\ FlattenSeq(p) = g[n]
    <3>1. n \in 1 .. n
      BY <1>1, <1>3
    <3>2. FlattenSeq(p) = g[n]
      BY <2>5, <2>9, <3>1
    <3>3. g[0] = <<>>
      BY <2>9
    <3>4. Runs(p, g, n)
      BY <2>10, <3>3 DEF Runs
    <3>. QED BY <3>2, <3>4
  <2>. QED BY <1>1, <2>11
<1>. QED BY <1>2, <1>3

LEMMA RunsFlat ==
  ASSUME NEW p, Lists(p), NEW g, Runs(p, g, Len(p))
  PROVE  FlattenSeq(p) = g[Len(p)]
<1>1. Len(p) \in Nat
  BY ListLen DEF Lists
<1>2. PICK h : Runs(p, h, Len(p)) /\ FlattenSeq(p) = h[Len(p)]
  BY FlatRuns
<1>. QED BY <1>1, <1>2, RunsOnce

LEMMA FlatList ==
  ASSUME NEW p, Lists(p)
  PROVE  IsList(FlattenSeq(p))
<1>1. PICK n : n = Len(p) /\ n \in Nat /\ DOMAIN p = 1 .. n
  BY ListLen DEF Lists
<1>2. PICK g : Runs(p, g, n) /\ FlattenSeq(p) = g[n]
  BY <1>1, FlatRuns
<1>3. \A i \in 1 .. n : IsList(p[i])
  BY <1>1 DEF Lists
<1>4. IsList(g[n])
  BY <1>1, <1>2, <1>3, RunsAreLists
<1>. QED BY <1>2, <1>4

LEMMA FlatEmpty == FlattenSeq(<<>>) = <<>>
BY DEF FlattenSeq

LEMMA FlatOne ==
  ASSUME NEW x, IsList(x)
  PROVE  FlattenSeq(<<x>>) = x
<1>1. PICK p : p = <<x>>
  OBVIOUS
<1>2. IsList(p) /\ Len(p) = 1 /\ p[1] = x /\ DOMAIN p = {1}
  BY <1>1, OneList
<1>3. Lists(p)
  BY <1>2 DEF Lists
<1>4. PICK g : Runs(p, g, 1) /\ FlattenSeq(p) = g[1]
  BY <1>2, <1>3, FlatRuns
<1>5. g[1] = Join(<<>>, x)
  BY <1>2, <1>4 DEF Runs
<1>. QED BY <1>1, <1>4, <1>5, CatEmpty

LEMMA FlatCat ==
  ASSUME NEW a, NEW b, Lists(a), Lists(b)
  PROVE  Lists(Join(a, b)) /\ FlattenSeq(Join(a, b)) = Join(FlattenSeq(a), FlattenSeq(b))
<1>1. PICK n, m : n = Len(a) /\ m = Len(b) /\ n \in Nat /\ m \in Nat /\ DOMAIN a = 1 .. n /\ DOMAIN b = 1 .. m
  BY ListLen DEF Lists
<1>2. PICK c : c = Join(a, b)
  OBVIOUS
<1>3. IsList(a) /\ IsList(b)
  BY DEF Lists
<1>4. /\ IsList(c) /\ Len(c) = n + m
      /\ \A i \in 1 .. n : c[i] = a[i]
      /\ \A i \in 1 .. m : c[n + i] = b[i]
  BY <1>1, <1>2, <1>3, Cat
<1>5. DOMAIN c = 1 .. n + m
  BY <1>4, ListLen
<1>6. ASSUME NEW i \in 1 .. n + m PROVE \/ i \in 1 .. n /\ c[i] = a[i]
                                        \/ i > n /\ i - n \in 1 .. m /\ c[i] = b[i - n]
  <2>1. CASE i <= n
    BY <1>1, <1>4, <2>1
  <2>2. CASE i > n
    <3>1. PICK j : j = i - n /\ j \in 1 .. m /\ i = n + j
      BY <1>1, <2>2
    <3>. QED BY <1>4, <2>2, <3>1
  <2>. QED BY <1>1, <2>1, <2>2
<1>7. Lists(c)
  BY <1>1, <1>4, <1>5, <1>6 DEF Lists
<1>8. PICK g : Runs(a, g, n) /\ FlattenSeq(a) = g[n]
  BY <1>1, FlatRuns
<1>9. PICK h : Runs(b, h, m) /\ FlattenSeq(b) = h[m]
  BY <1>1, FlatRuns
<1>10. PICK x : x = FlattenSeq(a) /\ IsList(x)
  BY FlatList
<1>11. \A i \in 0 .. m : IsList(h[i])
  <2>1. \A i \in 1 .. m : IsList(b[i])
    BY <1>1 DEF Lists
  <2>. QED BY <1>1, <1>9, <2>1, RunsAreLists
<1>12. PICK r : r = [i \in 0 .. n + m |-> IF i <= n THEN g[i] ELSE Join(x, h[i - n])]
  OBVIOUS
<1>13. (\A i \in 0 .. n : r[i] = g[i]) /\ (\A i \in n + 1 .. n + m : r[i] = Join(x, h[i - n]))
  BY <1>1, <1>12
<1>14. ASSUME NEW i \in 1 .. n + m PROVE r[i] = Join(r[i - 1], c[i])
  <2>1. CASE i \in 1 .. n /\ c[i] = a[i]
    <3>1. r[i] = g[i] /\ r[i - 1] = g[i - 1]
      BY <1>1, <1>13, <2>1
    <3>. QED BY <1>8, <2>1, <3>1 DEF Runs
  <2>2. CASE i > n /\ i - n \in 1 .. m /\ c[i] = b[i - n]
    <3>1. PICK j : j = i - n /\ j \in 1 .. m /\ j \in 0 .. m /\ j - 1 \in 0 .. m /\ c[i] = b[j]
      BY <1>1, <2>2
    <3>2. r[i] = Join(x, h[j]) /\ h[j] = Join(h[j - 1], b[j])
      <4>1. i \in n + 1 .. n + m
        BY <1>1, <2>2
      <4>2. r[i] = Join(x, h[j])
        BY <1>13, <3>1, <4>1
      <4>3. h[j] = Join(h[j - 1], b[j])
        BY <1>9, <3>1 DEF Runs
      <4>. QED BY <4>2, <4>3
    <3>3. r[i - 1] = Join(x, h[j - 1])
      <4>1. CASE j = 1
        <5>1. i - 1 = n /\ r[n] = g[n] /\ h[j - 1] = <<>>
          <6>1. i - 1 = n /\ j - 1 = 0 /\ n \in 0 .. n
            BY <1>1, <3>1, <4>1
          <6>2. r[n] = g[n]
            BY <1>13, <6>1
          <6>3. h[j - 1] = <<>>
            BY <1>9, <6>1 DEF Runs
          <6>. QED BY <6>1, <6>2, <6>3
        <5>. QED BY <1>8, <1>10, <5>1, CatEmpty
      <4>2. CASE j # 1
        <5>1. i - 1 \in n + 1 .. n + m /\ (i - 1) - n = j - 1
          BY <1>1, <3>1, <4>2
        <5>. QED BY <1>13, <5>1
      <4>. QED BY <4>1, <4>2
    <3>4. IsList(h[j - 1]) /\ IsList(b[j])
      BY <1>1, <1>11, <3>1 DEF Lists
    <3>5. PICK u, v : u = h[j - 1] /\ v = b[j] /\ IsList(u) /\ IsList(v)
      BY <3>4
    <3>6. Join(Join(x, u), v) = Join(x, Join(u, v))
      BY <1>10, <3>5, CatAssoc
    <3>. QED BY <3>1, <3>2, <3>3, <3>5, <3>6
  <2>. QED BY <1>6, <2>1, <2>2
<1>15. Runs(c, r, n + m)
  <2>1. r[0] = <<>>
    BY <1>1, <1>8, <1>13 DEF Runs
  <2>. QED BY <1>14, <2>1 DEF Runs
<1>16. FlattenSeq(c) = r[n + m]
  BY <1>4, <1>7, <1>15, RunsFlat
<1>17. r[n + m] = Join(x, h[m])
  <2>1. CASE m = 0
    <3>1. r[n + m] = g[n] /\ h[m] = <<>>
      BY <1>1, <1>9, <1>13, <2>1 DEF Runs
    <3>. QED BY <1>8, <1>10, <3>1, CatEmpty
  <2>2. CASE m # 0
    <3>1. n + m \in n + 1 .. n + m /\ (n + m) - n = m
      BY <1>1, <2>2
    <3>. QED BY <1>13, <3>1
  <2>. QED BY <2>1, <2>2
<1>. QED BY <1>2, <1>7, <1>9, <1>10, <1>16, <1>17

\* Joining lists of one element gives the elements.
LEMMA FlatSingles ==
  ASSUME NEW y, IsList(y), NEW p, IsList(p), Len(p) = Len(y), \A i \in 1 .. Len(y) : p[i] = <<y[i]>>
  PROVE  FlattenSeq(p) = y
<1>1. PICK n : n = Len(y) /\ n \in Nat /\ DOMAIN y = 1 .. n /\ DOMAIN p = 1 .. n /\ y = [i \in 1 .. n |-> y[i]]
  BY ListLen
<1>2. Lists(p)
  <2>1. ASSUME NEW i \in DOMAIN p PROVE IsList(p[i])
    <3>1. p[i] = <<y[i]>>
      BY <1>1
    <3>. QED BY <3>1, OneList
  <2>. QED BY <2>1 DEF Lists
<1>3. PICK g : g = [i \in 0 .. n |-> [j \in 1 .. i |-> y[j]]]
  OBVIOUS
<1>4. ASSUME NEW i \in 0 .. n PROVE g[i] = [j \in 1 .. i |-> y[j]] /\ IsList(g[i]) /\ Len(g[i]) = i
  <2>1. PICK u : u = g[i] /\ u = [j \in 1 .. i |-> y[j]]
    BY <1>3
  <2>2. i \in Nat /\ u = [j \in 1 .. i |-> u[j]]
    BY <1>1, <2>1
  <2>3. IsList(u)
    BY <2>2 DEF IsList
  <2>4. Len(u) = i
    BY <2>1, <2>2
  <2>. QED BY <2>1, <2>3, <2>4
<1>5. g[0] = <<>>
  <2>1. 0 \in 0 .. n /\ 1 .. 0 = {}
    BY <1>1
  <2>2. g[0] = [j \in 1 .. 0 |-> y[j]]
    BY <1>4, <2>1
  <2>3. g[0] = [j \in {} |-> y[j]]
    BY <2>1, <2>2
  <2>. QED BY <2>3
<1>6. ASSUME NEW i \in 1 .. n PROVE g[i] = Join(g[i - 1], p[i])
  <2>1. PICK u, v, w : u = g[i] /\ v = g[i - 1] /\ w = p[i]
    OBVIOUS
  <2>2. i \in 0 .. n /\ i - 1 \in 0 .. n
    BY <1>1
  <2>3. /\ u = [j \in 1 .. i |-> y[j]] /\ IsList(u) /\ Len(u) = i
        /\ v = [j \in 1 .. i - 1 |-> y[j]] /\ IsList(v) /\ Len(v) = i - 1
    BY <1>4, <2>1, <2>2
  <2>4. IsList(w) /\ Len(w) = 1 /\ w[1] = y[i]
    <3>1. w = <<y[i]>>
      BY <1>1, <2>1
    <3>. QED BY <3>1, OneList
  <2>5. PICK x : x = Join(v, w)
    OBVIOUS
  <2>6. /\ IsList(x) /\ Len(x) = (i - 1) + 1
        /\ \A j \in 1 .. i - 1 : x[j] = v[j]
        /\ \A j \in 1 .. 1 : x[(i - 1) + j] = w[j]
    <3>1. PICK k : k = i - 1 /\ Len(v) = k
      BY <2>3
    <3>2. /\ IsList(x) /\ Len(x) = k + 1
          /\ \A j \in 1 .. k : x[j] = v[j]
          /\ \A j \in 1 .. 1 : x[k + j] = w[j]
      <4>1. PICK e : e = 1 /\ Len(w) = e
        BY <2>4
      <4>2. IsList(v) /\ IsList(w)
        BY <2>3, <2>4
      <4>3. /\ IsList(x) /\ Len(x) = k + e
            /\ \A j \in 1 .. k : x[j] = v[j]
            /\ \A j \in 1 .. e : x[k + j] = w[j]
        <5>1. IsCat(x, v, w, k, e)
          BY <2>5, <3>1, <4>1, <4>2, CatIs
        <5>. QED BY <5>1 DEF IsCat
      <4>. QED BY <4>1, <4>3
    <3>. QED BY <3>1, <3>2
  <2>7. ASSUME NEW j \in 1 .. i PROVE u[j] = x[j]
    <3>1. CASE j = i
      <4>1. 1 \in 1 .. 1 /\ (i - 1) + 1 = i
        OBVIOUS
      <4>2. x[i] = w[1]
        BY <2>6, <4>1
      <4>. QED BY <2>3, <2>4, <3>1, <4>2
    <3>2. CASE j # i
      <4>1. j \in 1 .. i - 1
        BY <3>2
      <4>. QED BY <2>3, <2>6, <4>1
    <3>. QED BY <3>1, <3>2
  <2>8. u = x
    BY <2>3, <2>6, <2>7, SameList
  <2>. QED BY <2>1, <2>5, <2>8
<1>7. Runs(p, g, n)
  BY <1>5, <1>6 DEF Runs
<1>8. FlattenSeq(p) = g[n]
  BY <1>1, <1>2, <1>7, RunsFlat
<1>. QED BY <1>1, <1>4, <1>8

\* Two lists of one length, each pair of their elements in R.
Paired(a, b, R) == IsList(a) /\ IsList(b) /\ Len(a) = Len(b) /\ \A j \in 1 .. Len(a) : <<a[j], b[j]>> \in R

LEMMA PairedEmpty == ASSUME NEW R PROVE Paired(<<>>, <<>>, R)
<1>1. Len(<<>>) = 0
  OBVIOUS
<1>2. 1 .. Len(<<>>) = {}
  BY <1>1
<1>. QED BY <1>2, EmptyList DEF Paired

LEMMA PairedOne == ASSUME NEW R, NEW x, NEW y, <<x, y>> \in R PROVE Paired(<<x>>, <<y>>, R)
<1>1. PICK a, b : a = <<x>> /\ b = <<y>>
  OBVIOUS
<1>2. IsList(a) /\ Len(a) = 1 /\ a[1] = x /\ IsList(b) /\ Len(b) = 1 /\ b[1] = y
  BY <1>1, OneList
<1>3. \A j \in 1 .. Len(a) : <<a[j], b[j]>> \in R
  BY <1>2
<1>4. Paired(a, b, R)
  BY <1>2, <1>3 DEF Paired
<1>. QED BY <1>1, <1>4

LEMMA PairedCat ==
  ASSUME NEW R, NEW a, NEW b, NEW c, NEW d, Paired(a, b, R), Paired(c, d, R)
  PROVE  Paired(Join(a, c), Join(b, d), R)
<1>1. PICK n, m : n = Len(a) /\ n = Len(b) /\ m = Len(c) /\ m = Len(d)
  BY DEF Paired
<1>2. IsList(a) /\ IsList(b) /\ IsList(c) /\ IsList(d)
  BY DEF Paired
<1>3. n \in Nat /\ m \in Nat
  BY <1>1, <1>2, ListLen
<1>4. PICK x, y : x = Join(a, c) /\ y = Join(b, d)
  OBVIOUS
<1>5. /\ IsList(x) /\ Len(x) = n + m
      /\ (\A i \in 1 .. n : x[i] = a[i]) /\ (\A i \in 1 .. m : x[n + i] = c[i])
  <2>1. IsCat(x, a, c, n, m)
    BY <1>1, <1>2, <1>4, CatIs
  <2>. QED BY <2>1 DEF IsCat
<1>6. /\ IsList(y) /\ Len(y) = n + m
      /\ (\A i \in 1 .. n : y[i] = b[i]) /\ (\A i \in 1 .. m : y[n + i] = d[i])
  <2>1. IsCat(y, b, d, n, m)
    BY <1>1, <1>2, <1>4, CatIs
  <2>. QED BY <2>1 DEF IsCat
<1>7. (\A i \in 1 .. n : <<a[i], b[i]>> \in R) /\ (\A i \in 1 .. m : <<c[i], d[i]>> \in R)
  BY <1>1 DEF Paired
<1>8. ASSUME NEW i \in 1 .. n + m PROVE <<x[i], y[i]>> \in R
  <2>1. CASE i <= n
    <3>1. i \in 1 .. n
      BY <1>3, <2>1
    <3>2. x[i] = a[i] /\ y[i] = b[i] /\ <<a[i], b[i]>> \in R
      BY <1>5, <1>6, <1>7, <3>1
    <3>. QED BY <3>2
  <2>2. CASE i > n
    <3>1. PICK j : j \in 1 .. m /\ i = n + j
      <4>1. i - n \in 1 .. m /\ i = n + (i - n)
        BY <1>3, <2>2
      <4>. QED BY <4>1
    <3>2. x[i] = c[j] /\ y[i] = d[j] /\ <<c[j], d[j]>> \in R
      BY <1>5, <1>6, <1>7, <3>1
    <3>. QED BY <3>2
  <2>. QED BY <1>3, <2>1, <2>2
<1>9. Paired(x, y, R)
  <2>1. Len(x) = Len(y) /\ IsList(x) /\ IsList(y)
    BY <1>5, <1>6
  <2>2. \A i \in 1 .. Len(x) : <<x[i], y[i]>> \in R
    BY <1>5, <1>8
  <2>. QED BY <2>1, <2>2 DEF Paired
<1>. QED BY <1>4, <1>9

\* Joining paired parts gives paired lists.
LEMMA FlatPaired ==
  ASSUME NEW R, NEW p, NEW q, IsList(p), IsList(q), Len(p) = Len(q),
         \A i \in 1 .. Len(p) : Paired(p[i], q[i], R)
  PROVE  Paired(FlattenSeq(p), FlattenSeq(q), R)
<1>1. PICK n : n = Len(p) /\ n = Len(q) /\ n \in Nat /\ DOMAIN p = 1 .. n /\ DOMAIN q = 1 .. n
  BY ListLen
<1>2. \A i \in 1 .. n : Paired(p[i], q[i], R)
  BY <1>1
<1>3. Lists(p) /\ Lists(q)
  <2>1. (\A i \in DOMAIN p : IsList(p[i])) /\ (\A i \in DOMAIN q : IsList(q[i]))
    BY <1>1, <1>2 DEF Paired
  <2>. QED BY <2>1 DEF Lists
<1>4. PICK g : Runs(p, g, n) /\ FlattenSeq(p) = g[n]
  BY <1>1, <1>3, FlatRuns
<1>5. PICK h : Runs(q, h, n) /\ FlattenSeq(q) = h[n]
  BY <1>1, <1>3, FlatRuns
<1>6. PICK Fails : Fails = {i \in 0 .. n : ~Paired(g[i], h[i], R)}
  OBVIOUS
<1>7. Fails = {}
  <2>. SUFFICES ASSUME Fails # {} PROVE FALSE
    OBVIOUS
  <2>1. PICK k \in Fails : \A l \in Fails : k <= l
    <3>1. Fails \in SUBSET Nat
      BY <1>6
    <3>. QED BY <3>1, LeastOf
  <2>2. k \in 0 .. n /\ ~Paired(g[k], h[k], R)
    BY <1>6, <2>1
  <2>3. k # 0
    BY <1>4, <1>5, <2>2, PairedEmpty DEF Runs
  <2>4. k \in 1 .. n /\ k - 1 \in 0 .. n /\ ~(k <= k - 1)
    BY <1>1, <2>2, <2>3
  <2>5. Paired(g[k - 1], h[k - 1], R)
    BY <1>6, <2>1, <2>4
  <2>6. Paired(p[k], q[k], R)
    BY <1>2, <2>4
  <2>7. Paired(Join(g[k - 1], p[k]), Join(h[k - 1], q[k]), R)
    BY <2>5, <2>6, PairedCat
  <2>8. g[k] = Join(g[k - 1], p[k]) /\ h[k] = Join(h[k - 1], q[k])
    BY <1>4, <1>5, <2>4 DEF Runs
  <2>. QED BY <2>2, <2>7, <2>8
<1>8. n \in 0 .. n
  BY <1>1
<1>9. Paired(g[n], h[n], R)
  BY <1>6, <1>7, <1>8
<1>. QED BY <1>4, <1>5, <1>9

-----------------------------------------------------------------------------
(* Leaving out *)

\* What Without joins.
Rest(list, S) == [i \in DOMAIN list |-> IF list[i] \in S THEN <<>> ELSE <<list[i]>>]

LEMMA WithoutIs == ASSUME NEW x, NEW S PROVE Without(x, S) = FlattenSeq(Rest(x, S))
BY DEF Without, Rest

LEMMA RestLists ==
  ASSUME NEW x, NEW S, IsList(x)
  PROVE  Lists(Rest(x, S)) /\ Len(Rest(x, S)) = Len(x)
<1>1. PICK n : n = Len(x) /\ n \in Nat /\ DOMAIN x = 1 .. n
  BY ListLen
<1>2. PICK y : y = Rest(x, S)
  OBVIOUS
<1>3. DOMAIN y = 1 .. n /\ y = [i \in 1 .. n |-> y[i]] /\ \A i \in 1 .. n : y[i] = IF x[i] \in S THEN <<>> ELSE <<x[i]>>
  BY <1>1, <1>2 DEF Rest
<1>4. IsList(y)
  BY <1>1, <1>3 DEF IsList
<1>5. Len(y) = n
  <2>1. PICK m : m = Len(y) /\ m \in Nat /\ DOMAIN y = 1 .. m
    BY <1>4, ListLen
  <2>2. 1 .. m = 1 .. n
    BY <1>3, <2>1
  <2>3. m = n
    BY <1>1, <2>1, <2>2
  <2>. QED BY <2>1, <2>3
<1>6. ASSUME NEW i \in 1 .. n PROVE IsList(y[i])
  <2>1. y[i] = <<>> \/ y[i] = <<x[i]>>
    BY <1>3
  <2>. QED BY <2>1, EmptyList, OneList
<1>. QED BY <1>1, <1>2, <1>3, <1>4, <1>5, <1>6 DEF Lists

LEMMA WithoutList == ASSUME NEW x, NEW S, IsList(x) PROVE IsList(Without(x, S))
BY WithoutIs, RestLists, FlatList

LEMMA WithoutEmpty == ASSUME NEW S PROVE Without(<<>>, S) = <<>>
<1>1. Rest(<<>>, S) = <<>>
  BY DEF Rest
<1>. QED BY <1>1, WithoutIs, FlatEmpty

LEMMA WithoutOne ==
  ASSUME NEW x, NEW S
  PROVE  Without(<<x>>, S) = IF x \in S THEN <<>> ELSE <<x>>
<1>1. PICK y, z : y = <<x>> /\ z = IF x \in S THEN <<>> ELSE <<x>>
  OBVIOUS
<1>2. IsList(y) /\ Len(y) = 1 /\ y[1] = x /\ DOMAIN y = {1}
  BY <1>1, OneList
<1>3. Rest(y, S) = [i \in {1} |-> z]
  BY <1>1, <1>2 DEF Rest
<1>4. PICK o : o = <<z>> /\ DOMAIN o = {1} /\ o[1] = z
  BY OneList
<1>5. o = [i \in {1} |-> z]
  BY <1>4
<1>6. IsList(z)
  BY <1>1, EmptyList, OneList
<1>7. FlattenSeq(o) = z
  BY <1>4, <1>6, FlatOne
<1>. QED BY <1>1, <1>3, <1>5, <1>7, WithoutIs

LEMMA RestCat ==
  ASSUME NEW x, NEW y, NEW S, IsList(x), IsList(y)
  PROVE  Rest(Join(x, y), S) = Join(Rest(x, S), Rest(y, S))
<1>1. PICK n, m : n = Len(x) /\ m = Len(y) /\ n \in Nat /\ m \in Nat /\ DOMAIN x = 1 .. n /\ DOMAIN y = 1 .. m
  BY ListLen
<1>2. PICK c, u, v, w : c = Join(x, y) /\ u = Rest(x, S) /\ v = Rest(y, S) /\ w = Join(u, v)
  OBVIOUS
<1>3. /\ IsList(c) /\ Len(c) = n + m
      /\ (\A i \in 1 .. n : c[i] = x[i]) /\ (\A i \in 1 .. m : c[n + i] = y[i])
  BY <1>1, <1>2, Cat
<1>4. IsList(u) /\ Len(u) = n /\ IsList(v) /\ Len(v) = m
  BY <1>1, <1>2, RestLists DEF Lists
<1>5. /\ IsList(w) /\ Len(w) = n + m
      /\ (\A i \in 1 .. n : w[i] = u[i]) /\ (\A i \in 1 .. m : w[n + i] = v[i])
  <2>1. IsCat(w, u, v, n, m)
    BY <1>2, <1>4, CatIs
  <2>. QED BY <2>1 DEF IsCat
<1>6. PICK r : r = Rest(c, S) /\ IsList(r) /\ Len(r) = n + m
  BY <1>3, RestLists DEF Lists
<1>7. DOMAIN c = 1 .. n + m
  BY <1>3, ListLen
<1>8. ASSUME NEW i \in 1 .. n + m PROVE r[i] = w[i]
  <2>1. r[i] = IF c[i] \in S THEN <<>> ELSE <<c[i]>>
    BY <1>6, <1>7 DEF Rest
  <2>2. CASE i <= n
    <3>1. i \in 1 .. n
      BY <1>1, <2>2
    <3>2. c[i] = x[i] /\ w[i] = u[i]
      BY <1>3, <1>5, <3>1
    <3>3. u[i] = IF x[i] \in S THEN <<>> ELSE <<x[i]>>
      BY <1>1, <1>2, <3>1 DEF Rest
    <3>. QED BY <2>1, <3>2, <3>3
  <2>3. CASE i > n
    <3>1. PICK j : j \in 1 .. m /\ i = n + j
      <4>1. i - n \in 1 .. m /\ i = n + (i - n)
        BY <1>1, <2>3
      <4>. QED BY <4>1
    <3>2. c[i] = y[j] /\ w[i] = v[j]
      BY <1>3, <1>5, <3>1
    <3>3. v[j] = IF y[j] \in S THEN <<>> ELSE <<y[j]>>
      BY <1>1, <1>2, <3>1 DEF Rest
    <3>. QED BY <2>1, <3>2, <3>3
  <2>. QED BY <1>1, <2>2, <2>3
<1>9. Len(r) = Len(w) /\ \A i \in 1 .. Len(r) : r[i] = w[i]
  BY <1>5, <1>6, <1>8
<1>10. r = w
  BY <1>5, <1>6, <1>9, SameList
<1>. QED BY <1>2, <1>6, <1>10

LEMMA WithoutCat ==
  ASSUME NEW x, NEW y, NEW S, IsList(x), IsList(y)
  PROVE  Without(Join(x, y), S) = Join(Without(x, S), Without(y, S))
<1>1. PICK u, v : u = Rest(x, S) /\ v = Rest(y, S)
  OBVIOUS
<1>2. Lists(u) /\ Lists(v)
  BY <1>1, RestLists
<1>3. FlattenSeq(Join(u, v)) = Join(FlattenSeq(u), FlattenSeq(v))
  BY <1>2, FlatCat
<1>. QED BY <1>1, <1>3, RestCat, WithoutIs

\* Leaving out of what is joined is joining what is left of the parts.
LEMMA WithoutFlat ==
  ASSUME NEW p, NEW q, NEW S, Lists(p), IsList(q), Len(q) = Len(p),
         \A i \in 1 .. Len(p) : q[i] = Without(p[i], S)
  PROVE  Without(FlattenSeq(p), S) = FlattenSeq(q)
<1>1. PICK n : n = Len(p) /\ n = Len(q) /\ n \in Nat /\ DOMAIN p = 1 .. n /\ DOMAIN q = 1 .. n
  BY ListLen DEF Lists
<1>2. PICK g : Runs(p, g, n) /\ FlattenSeq(p) = g[n]
  BY <1>1, FlatRuns
<1>3. \A i \in 1 .. n : IsList(p[i]) /\ q[i] = Without(p[i], S)
  BY <1>1 DEF Lists
<1>4. \A i \in 0 .. n : IsList(g[i])
  BY <1>1, <1>2, <1>3, RunsAreLists
<1>5. Lists(q)
  BY <1>1, <1>3, WithoutList DEF Lists
<1>6. PICK h : h = [i \in 0 .. n |-> Without(g[i], S)]
  OBVIOUS
<1>7. \A i \in 0 .. n : h[i] = Without(g[i], S)
  BY <1>6
<1>8. h[0] = <<>>
  <2>1. 0 \in 0 .. n
    BY <1>1
  <2>2. g[0] = <<>>
    BY <1>2 DEF Runs
  <2>. QED BY <1>7, <2>1, <2>2, WithoutEmpty
<1>9. ASSUME NEW i \in 1 .. n PROVE h[i] = Join(h[i - 1], q[i])
  <2>1. i \in 0 .. n /\ i - 1 \in 0 .. n
    BY <1>1
  <2>2. PICK a, b : a = g[i - 1] /\ b = p[i]
    OBVIOUS
  <2>3. IsList(a) /\ IsList(b) /\ q[i] = Without(b, S) /\ h[i - 1] = Without(a, S)
    BY <1>3, <1>4, <1>7, <2>1, <2>2
  <2>4. g[i] = Join(a, b)
    BY <1>2, <2>2 DEF Runs
  <2>5. h[i] = Without(Join(a, b), S)
    BY <1>7, <2>1, <2>4
  <2>6. Without(Join(a, b), S) = Join(Without(a, S), Without(b, S))
    BY <2>3, WithoutCat
  <2>. QED BY <2>3, <2>5, <2>6
<1>10. Runs(q, h, n)
  BY <1>8, <1>9 DEF Runs
<1>11. FlattenSeq(q) = h[n]
  BY <1>1, <1>5, <1>10, RunsFlat
<1>12. n \in 0 .. n
  BY <1>1
<1>. QED BY <1>2, <1>7, <1>11, <1>12

\* Where there is nothing to leave out, everything is left.
LEMMA WithoutNone ==
  ASSUME NEW x, NEW S, IsList(x), \A i \in 1 .. Len(x) : x[i] \notin S
  PROVE  Without(x, S) = x
<1>1. PICK n : n = Len(x) /\ n \in Nat /\ DOMAIN x = 1 .. n
  BY ListLen
<1>2. PICK r : r = Rest(x, S) /\ IsList(r) /\ Len(r) = n
  BY <1>1, RestLists DEF Lists
<1>3. \A i \in 1 .. n : r[i] = <<x[i]>>
  BY <1>1, <1>2 DEF Rest
<1>4. FlattenSeq(r) = x
  BY <1>1, <1>2, <1>3, FlatSingles
<1>. QED BY <1>2, <1>4, WithoutIs

\* The paragraphs without their marks, and without those of which nothing is left.
Cleared(x) == [i \in DOMAIN x |-> WithoutMarks(x[i])]
Bare(x) == Without(Cleared(x), {<<>>})

LEMMA ClearedList == ASSUME NEW x, IsList(x) PROVE IsList(Cleared(x)) /\ Len(Cleared(x)) = Len(x)
<1>1. PICK n : n = Len(x) /\ n \in Nat /\ DOMAIN x = 1 .. n
  BY ListLen
<1>2. PICK y : y = Cleared(x)
  OBVIOUS
<1>3. DOMAIN y = 1 .. n /\ y = [i \in 1 .. n |-> y[i]]
  BY <1>1, <1>2 DEF Cleared
<1>4. IsList(y)
  BY <1>1, <1>3 DEF IsList
<1>5. PICK m : m = Len(y) /\ m \in Nat /\ DOMAIN y = 1 .. m
  BY <1>4, ListLen
<1>6. 1 .. m = 1 .. n
  BY <1>3, <1>5
<1>7. m = n
  BY <1>1, <1>5, <1>6
<1>. QED BY <1>1, <1>2, <1>4, <1>5, <1>7

LEMMA ClearedCat ==
  ASSUME NEW x, NEW y, IsList(x), IsList(y)
  PROVE  Cleared(Join(x, y)) = Join(Cleared(x), Cleared(y))
<1>1. PICK n, m : n = Len(x) /\ m = Len(y) /\ n \in Nat /\ m \in Nat /\ DOMAIN x = 1 .. n /\ DOMAIN y = 1 .. m
  BY ListLen
<1>2. PICK c, u, v, w : c = Join(x, y) /\ u = Cleared(x) /\ v = Cleared(y) /\ w = Join(u, v)
  OBVIOUS
<1>3. IsCat(c, x, y, n, m)
  BY <1>1, <1>2, CatIs
<1>4. IsList(u) /\ Len(u) = n /\ IsList(v) /\ Len(v) = m
  BY <1>1, <1>2, ClearedList
<1>5. IsCat(w, u, v, n, m)
  BY <1>2, <1>4, CatIs
<1>6. IsList(c) /\ Len(c) = n + m /\ IsList(w) /\ Len(w) = n + m
  BY <1>3, <1>5 DEF IsCat
<1>7. PICK r : r = Cleared(c) /\ IsList(r) /\ Len(r) = n + m
  BY <1>6, ClearedList
<1>8. DOMAIN c = 1 .. n + m
  BY <1>6, ListLen
<1>9. ASSUME NEW i \in 1 .. n + m PROVE r[i] = w[i]
  <2>1. r[i] = WithoutMarks(c[i])
    BY <1>7, <1>8 DEF Cleared
  <2>2. CASE i <= n
    <3>1. i \in 1 .. n
      BY <1>1, <2>2
    <3>2. c[i] = x[i] /\ w[i] = u[i]
      BY <1>3, <1>5, <3>1 DEF IsCat
    <3>3. u[i] = WithoutMarks(x[i])
      BY <1>1, <1>2, <3>1 DEF Cleared
    <3>. QED BY <2>1, <3>2, <3>3
  <2>3. CASE i > n
    <3>1. PICK j : j \in 1 .. m /\ i = n + j
      <4>1. i - n \in 1 .. m /\ i = n + (i - n)
        BY <1>1, <2>3
      <4>. QED BY <4>1
    <3>2. c[i] = y[j] /\ w[i] = v[j]
      BY <1>3, <1>5, <3>1 DEF IsCat
    <3>3. v[j] = WithoutMarks(y[j])
      BY <1>1, <1>2, <3>1 DEF Cleared
    <3>. QED BY <2>1, <3>2, <3>3
  <2>. QED BY <1>1, <2>2, <2>3
<1>10. Len(r) = Len(w) /\ \A i \in 1 .. Len(r) : r[i] = w[i]
  BY <1>6, <1>7, <1>9
<1>11. r = w
  BY <1>6, <1>7, <1>10, SameList
<1>. QED BY <1>2, <1>7, <1>11

LEMMA BareCat ==
  ASSUME NEW x, NEW y, IsList(x), IsList(y)
  PROVE  Bare(Join(x, y)) = Join(Bare(x), Bare(y))
<1>1. PICK u, v : u = Cleared(x) /\ v = Cleared(y)
  OBVIOUS
<1>2. IsList(u) /\ IsList(v)
  BY <1>1, ClearedList
<1>3. Without(Join(u, v), {<<>>}) = Join(Without(u, {<<>>}), Without(v, {<<>>}))
  BY <1>2, WithoutCat
<1>. QED BY <1>1, <1>3, ClearedCat DEF Bare

LEMMA BareList == ASSUME NEW x, IsList(x) PROVE IsList(Bare(x))
BY ClearedList, WithoutList DEF Bare

LEMMA BareEmpty == Bare(<<>>) = <<>>
<1>1. Cleared(<<>>) = <<>>
  BY DEF Cleared
<1>. QED BY <1>1, WithoutEmpty DEF Bare

LEMMA BareOne ==
  ASSUME NEW x
  PROVE  Bare(<<x>>) = IF WithoutMarks(x) = <<>> THEN <<>> ELSE <<WithoutMarks(x)>>
<1>1. PICK y, w : y = <<x>> /\ w = WithoutMarks(x)
  OBVIOUS
<1>2. DOMAIN y = {1} /\ y[1] = x
  BY <1>1, OneList
<1>3. PICK o : o = <<w>> /\ DOMAIN o = {1} /\ o[1] = w
  BY OneList
<1>4. Cleared(y) = [i \in {1} |-> w]
  BY <1>1, <1>2 DEF Cleared
<1>5. o = [i \in {1} |-> w]
  BY <1>3
<1>6. Cleared(y) = <<w>>
  BY <1>3, <1>4, <1>5
<1>7. Without(<<w>>, {<<>>}) = IF w \in {<<>>} THEN <<>> ELSE <<w>>
  BY WithoutOne
<1>8. (w \in {<<>>}) <=> (w = <<>>)
  OBVIOUS
<1>. QED BY <1>1, <1>6, <1>7, <1>8 DEF Bare

LEMMA BareFlat ==
  ASSUME NEW p, NEW q, Lists(p), IsList(q), Len(q) = Len(p),
         \A i \in 1 .. Len(p) : q[i] = Bare(p[i])
  PROVE  Bare(FlattenSeq(p)) = FlattenSeq(q)
<1>1. PICK n : n = Len(p) /\ n = Len(q) /\ n \in Nat /\ DOMAIN p = 1 .. n /\ DOMAIN q = 1 .. n
  BY ListLen DEF Lists
<1>2. PICK g : Runs(p, g, n) /\ FlattenSeq(p) = g[n]
  BY <1>1, FlatRuns
<1>3. \A i \in 1 .. n : IsList(p[i]) /\ q[i] = Bare(p[i])
  BY <1>1 DEF Lists
<1>4. \A i \in 0 .. n : IsList(g[i])
  BY <1>1, <1>2, <1>3, RunsAreLists
<1>5. Lists(q)
  BY <1>1, <1>3, BareList DEF Lists
<1>6. PICK h : h = [i \in 0 .. n |-> Bare(g[i])]
  OBVIOUS
<1>7. \A i \in 0 .. n : h[i] = Bare(g[i])
  BY <1>6
<1>8. h[0] = <<>>
  <2>1. 0 \in 0 .. n
    BY <1>1
  <2>2. g[0] = <<>>
    BY <1>2 DEF Runs
  <2>. QED BY <1>7, <2>1, <2>2, BareEmpty
<1>9. ASSUME NEW i \in 1 .. n PROVE h[i] = Join(h[i - 1], q[i])
  <2>1. i \in 0 .. n /\ i - 1 \in 0 .. n
    BY <1>1
  <2>2. PICK a, b : a = g[i - 1] /\ b = p[i]
    OBVIOUS
  <2>3. IsList(a) /\ IsList(b) /\ q[i] = Bare(b) /\ h[i - 1] = Bare(a)
    BY <1>3, <1>4, <1>7, <2>1, <2>2
  <2>4. g[i] = Join(a, b)
    BY <1>2, <2>2 DEF Runs
  <2>5. h[i] = Bare(Join(a, b))
    BY <1>7, <2>1, <2>4
  <2>6. Bare(Join(a, b)) = Join(Bare(a), Bare(b))
    BY <2>3, BareCat
  <2>. QED BY <2>3, <2>5, <2>6
<1>10. Runs(q, h, n)
  BY <1>8, <1>9 DEF Runs
<1>11. FlattenSeq(q) = h[n]
  BY <1>1, <1>5, <1>10, RunsFlat
<1>12. n \in 0 .. n
  BY <1>1
<1>. QED BY <1>2, <1>7, <1>11, <1>12

\* It is all the same whether paragraphs without words are left out once, after the
\* marks, or before them too.
LEMMA BareOnce ==
  ASSUME NEW x, IsList(x)
  PROVE  Bare(Without(x, {<<>>})) = Bare(x)
<1>1. PICK n : n = Len(x) /\ n \in Nat /\ DOMAIN x = 1 .. n
  BY ListLen
<1>2. PICK p, q, c : p = Rest(x, {<<>>}) /\ c = Cleared(x) /\ q = Rest(c, {<<>>})
  OBVIOUS
<1>3. Lists(p) /\ Len(p) = n
  BY <1>1, <1>2, RestLists
<1>4. IsList(c) /\ Len(c) = n
  BY <1>1, <1>2, ClearedList
<1>5. Lists(q) /\ Len(q) = n
  BY <1>2, <1>4, RestLists
<1>6. DOMAIN c = 1 .. n
  BY <1>4, ListLen
<1>7. ASSUME NEW i \in 1 .. n PROVE q[i] = Bare(p[i])
  <2>1. PICK w : w = WithoutMarks(x[i])
    OBVIOUS
  <2>2. c[i] = w
    BY <1>1, <1>2, <2>1 DEF Cleared
  <2>3. q[i] = IF w = <<>> THEN <<>> ELSE <<w>>
    BY <1>2, <1>6, <2>2 DEF Rest
  <2>4. p[i] = IF x[i] = <<>> THEN <<>> ELSE <<x[i]>>
    BY <1>1, <1>2 DEF Rest
  <2>5. CASE x[i] = <<>>
    <3>1. w = <<>>
      BY <2>1, <2>5, WithoutEmpty DEF WithoutMarks
    <3>. QED BY <2>3, <2>4, <2>5, <3>1, BareEmpty
  <2>6. CASE x[i] # <<>>
    <3>1. Bare(<<x[i]>>) = IF w = <<>> THEN <<>> ELSE <<w>>
      BY <2>1, BareOne
    <3>. QED BY <2>3, <2>4, <2>6, <3>1
  <2>. QED BY <2>5, <2>6
<1>8. IsList(q) /\ Len(q) = Len(p) /\ \A i \in 1 .. Len(p) : q[i] = Bare(p[i])
  BY <1>3, <1>5, <1>7 DEF Lists
<1>9. Bare(FlattenSeq(p)) = FlattenSeq(q)
  BY <1>3, <1>8, BareFlat
<1>. QED BY <1>2, <1>9, WithoutIs DEF Bare

-----------------------------------------------------------------------------
(* One line, in both halves *)

LEMMA MapList ==
  ASSUME NEW y, NEW n \in Nat, DOMAIN y = 1 .. n, y = [i \in 1 .. n |-> y[i]]
  PROVE  IsList(y) /\ Len(y) = n
<1>1. IsList(y)
  BY DEF IsList
<1>2. PICK m : m = Len(y) /\ m \in Nat /\ DOMAIN y = 1 .. m
  BY <1>1, ListLen
<1>3. 1 .. m = 1 .. n
  BY <1>2
<1>4. m = n
  BY <1>2, <1>3
<1>. QED BY <1>1, <1>2, <1>4

LEMMA LineIs ==
  ASSUME NEW line \in Line
  PROVE  IsList(line) /\ \A i \in DOMAIN line : line[i] \in Token
<1>1. line \in Seq(Token)
  BY DEF Line
<1>2. IsList(line)
  BY <1>1, SeqIsList
<1>. QED BY <1>1, <1>2

LEMMA LitIs == ASSUME NEW w PROVE Lit(w) \notin Marks /\ Lit(w).k = "lit" /\ Lit(w).id = w
<1>1. Lit(w).k = "lit" /\ Lit(w).id = w
  BY DEF Lit
<1>2. \A x \in Marks : x.k = "ph"
  BY DEF Marks
<1>. QED BY <1>1, <1>2

LEMMA MarkIs == ASSUME NEW t \in Token PROVE (t \in Marks) <=> (t.k = "ph")
<1>1. t.id \in STRING /\ t = [k |-> t.k, id |-> t.id]
  BY DEF Token
<1>2. t \in Marks => t.k = "ph"
  BY DEF Marks
<1>3. t.k = "ph" => t \in Marks
  BY <1>1 DEF Marks
<1>. QED BY <1>2, <1>3

\* The words of a value are all literal.
LEMMA WordsAre ==
  ASSUME NEW v, IsList(v)
  PROVE  /\ IsList(Words(v)) /\ WithoutMarks(Words(v)) = Words(v)
         /\ v = <<>> => Words(v) = <<>>
<1>1. PICK n : n = Len(v) /\ n \in Nat /\ DOMAIN v = 1 .. n
  BY ListLen
<1>2. PICK y : y = Words(v)
  OBVIOUS
<1>3. DOMAIN y = 1 .. n /\ y = [i \in 1 .. n |-> y[i]] /\ \A i \in 1 .. n : y[i] = Lit(v[i])
  BY <1>1, <1>2 DEF Words
<1>4. IsList(y) /\ Len(y) = n
  BY <1>1, <1>3, MapList
<1>5. \A i \in 1 .. Len(y) : y[i] \notin Marks
  BY <1>3, <1>4, LitIs
<1>6. WithoutMarks(y) = y
  BY <1>4, <1>5, WithoutNone DEF WithoutMarks
<1>7. v = <<>> => Words(v) = <<>>
  <2>. SUFFICES ASSUME v = <<>> PROVE Words(v) = <<>>
    OBVIOUS
  <2>1. DOMAIN v = {}
    OBVIOUS
  <2>2. Words(v) = [i \in {} |-> Lit(v[i])]
    BY <2>1 DEF Words
  <2>. QED BY <2>2
<1>. QED BY <1>2, <1>4, <1>6, <1>7

LEMMA WordsOne == ASSUME NEW w PROVE Words(<<w>>) = <<Lit(w)>>
<1>1. PICK v, o : v = <<w>> /\ o = <<Lit(w)>>
  OBVIOUS
<1>2. DOMAIN v = {1} /\ v[1] = w
  BY <1>1, OneList
<1>3. Words(v) = [i \in {1} |-> Lit(w)]
  BY <1>2 DEF Words
<1>4. DOMAIN o = {1} /\ o[1] = Lit(w)
  BY <1>1, OneList
<1>5. o = [i \in {1} |-> Lit(w)]
  BY <1>1, <1>4
<1>. QED BY <1>1, <1>3, <1>5

\* So are the bullets.
LEMMA BulletsAre ==
  ASSUME NEW v, IsList(v)
  PROVE  /\ WithoutMarks(Bullets(v)) = Bullets(v)
         /\ v = <<>> => Bullets(v) = <<>>
<1>1. PICK n : n = Len(v) /\ n \in Nat /\ DOMAIN v = 1 .. n
  BY ListLen
<1>2. PICK p : p = [i \in DOMAIN v |-> <<Lit("-"), Lit(v[i])>>]
  OBVIOUS
<1>3. DOMAIN p = 1 .. n /\ p = [i \in 1 .. n |-> p[i]] /\ \A i \in 1 .. n : p[i] = <<Lit("-"), Lit(v[i])>>
  BY <1>1, <1>2
<1>4. IsList(p) /\ Len(p) = n
  BY <1>1, <1>3, MapList
<1>5. PICK T, R : T = {Lit("-")} \cup {Lit(v[i]) : i \in 1 .. n} /\ R = T \X T
  OBVIOUS
<1>6. \A x \in T : x \notin Marks
  BY <1>5, LitIs
<1>7. ASSUME NEW i \in 1 .. Len(p) PROVE Paired(p[i], p[i], R)
  <2>1. PICK a, b : a = Lit("-") /\ b = Lit(v[i])
    OBVIOUS
  <2>2. a \in T /\ b \in T
    BY <1>4, <1>5, <2>1
  <2>3. <<a, a>> \in R /\ <<b, b>> \in R
    BY <1>5, <2>2
  <2>4. Paired(<<a>>, <<a>>, R) /\ Paired(<<b>>, <<b>>, R)
    BY <2>3, PairedOne
  <2>5. Paired(Join(<<a>>, <<b>>), Join(<<a>>, <<b>>), R)
    BY <2>4, PairedCat
  <2>6. Join(<<a>>, <<b>>) = <<a, b>>
    BY TwoList
  <2>. QED BY <1>3, <1>4, <2>1, <2>5, <2>6
<1>8. PICK y : y = FlattenSeq(p)
  OBVIOUS
<1>9. Paired(y, y, R)
  BY <1>4, <1>7, <1>8, FlatPaired
<1>10. IsList(y) /\ \A i \in 1 .. Len(y) : <<y[i], y[i]>> \in R
  BY <1>9 DEF Paired
<1>11. \A i \in 1 .. Len(y) : y[i] \notin Marks
  BY <1>5, <1>6, <1>10
<1>12. WithoutMarks(y) = y
  BY <1>10, <1>11, WithoutNone DEF WithoutMarks
<1>13. Bullets(v) = y
  BY <1>2, <1>8 DEF Bullets
<1>14. v = <<>> => Bullets(v) = <<>>
  <2>. SUFFICES ASSUME v = <<>> PROVE Bullets(v) = <<>>
    OBVIOUS
  <2>1. DOMAIN v = {}
    OBVIOUS
  <2>2. p = [i \in {} |-> <<Lit("-"), Lit(v[i])>>]
    BY <1>2, <2>1
  <2>3. p = <<>>
    BY <2>2
  <2>. QED BY <1>8, <1>13, <2>3, FlatEmpty
<1>. QED BY <1>12, <1>13, <1>14

\* The facts the server fills before it hands the wording to the browser.
ToFact(day, t) == IF t.k = "ph" /\ t.id \in factNames \ {"dueDate"} THEN Lit(Fact(day, t.id)) ELSE t
Facted(line, day) == [i \in DOMAIN line |-> ToFact(day, line[i])]

LEMMA FactedIs ==
  ASSUME NEW day, NEW line \in Line
  PROVE  substituteFacts(line, day) = Facted(line, day) /\ IsList(Facted(line, day)) /\ Len(Facted(line, day)) = Len(line)
<1>1. PICK n : n = Len(line) /\ n \in Nat /\ DOMAIN line = 1 .. n
  BY LineIs, ListLen
<1>2. PICK y : y = Facted(line, day)
  OBVIOUS
<1>3. DOMAIN y = 1 .. n /\ y = [i \in 1 .. n |-> y[i]] /\ \A i \in 1 .. n : y[i] = ToFact(day, line[i])
  BY <1>1, <1>2 DEF Facted
<1>4. IsList(y) /\ Len(y) = n
  BY <1>1, <1>3, MapList
<1>5. PICK p : p = [i \in DOMAIN line |-> IF line[i].k = "ph" /\ line[i].id \in factNames \ {"dueDate"}
                                         THEN Words(factMap(day)[line[i].id]) ELSE <<line[i]>>]
  OBVIOUS
<1>6. DOMAIN p = 1 .. n /\ p = [i \in 1 .. n |-> p[i]]
  BY <1>1, <1>5
<1>7. IsList(p) /\ Len(p) = n
  BY <1>1, <1>6, MapList
<1>8. ASSUME NEW i \in 1 .. n PROVE p[i] = <<y[i]>>
  <2>1. PICK t : t = line[i] /\ y[i] = ToFact(day, t)
    BY <1>3
  <2>2. p[i] = IF t.k = "ph" /\ t.id \in factNames \ {"dueDate"} THEN Words(factMap(day)[t.id]) ELSE <<t>>
    BY <1>1, <1>5, <2>1
  <2>3. ASSUME t.id \in factNames \ {"dueDate"} PROVE factMap(day)[t.id] = <<Fact(day, t.id)>>
    BY <2>3 DEF factMap
  <2>. QED BY <2>1, <2>2, <2>3, WordsOne DEF ToFact
<1>9. FlattenSeq(p) = y
  BY <1>4, <1>7, <1>8, FlatSingles
<1>10. substituteFacts(line, day) = FlattenSeq(p)
  BY <1>5 DEF substituteFacts
<1>. QED BY <1>1, <1>2, <1>4, <1>9, <1>10

\* Filling in facts leaves every tag of a section where it is.
LEMMA FactedTags ==
  ASSUME NEW day, NEW line \in Line, NEW y, y = Facted(line, day), NEW i \in DOMAIN line
  PROVE  /\ y[i].k = "open" <=> line[i].k = "open"
         /\ y[i].k = "close" <=> line[i].k = "close"
         /\ line[i].k = "open" => y[i] = line[i]
<1>1. PICK t, u : t = line[i] /\ u = y[i] /\ u = ToFact(day, t)
  BY DEF Facted
<1>2. CASE t.k = "ph" /\ t.id \in factNames \ {"dueDate"}
  <2>1. u.k = "lit" /\ t.k = "ph"
    BY <1>1, <1>2, LitIs DEF ToFact
  <2>. QED BY <1>1, <2>1
<1>3. CASE ~(t.k = "ph" /\ t.id \in factNames \ {"dueDate"})
  <2>1. u = t
    BY <1>1, <1>3 DEF ToFact
  <2>. QED BY <1>1, <2>1
<1>. QED BY <1>2, <1>3

LEMMA FactedPending ==
  ASSUME NEW day, NEW line \in Line, NEW y, y = Facted(line, day), NEW i \in DOMAIN line
  PROVE  Pending(y, i) = Pending(line, i)
<1>1. PICK n : n = Len(line) /\ n \in Nat /\ DOMAIN line = 1 .. n
  BY LineIs, ListLen
<1>2. \A j \in 1 .. n : (y[j].k = "open" <=> line[j].k = "open") /\ (y[j].k = "close" <=> line[j].k = "close")
  BY <1>1, FactedTags
<1>3. i \in 1 .. n
  BY <1>1
<1>4. ASSUME NEW j \in 1 .. i - 1
      PROVE  /\ y[j].k = "open" <=> line[j].k = "open"
             /\ (\A l \in j + 1 .. i - 1 : y[l].k # "close") <=> (\A l \in j + 1 .. i - 1 : line[l].k # "close")
  <2>1. j \in 1 .. n /\ \A l \in j + 1 .. i - 1 : l \in 1 .. n
    BY <1>1, <1>3
  <2>. QED BY <1>2, <2>1
<1>. QED BY <1>4 DEF Pending

LEMMA FirstPending ==
  ASSUME NEW line \in Line, NEW i \in DOMAIN line, Pending(line, i) # {}
  PROVE  /\ Min(Pending(line, i)) \in DOMAIN line
         /\ line[Min(Pending(line, i))].k = "open"
<1>1. PICK n : n = Len(line) /\ n \in Nat /\ DOMAIN line = 1 .. n
  BY LineIs, ListLen
<1>2. PICK S : S = Pending(line, i)
  OBVIOUS
<1>3. S \subseteq 1 .. i - 1 /\ \A j \in S : line[j].k = "open"
  BY <1>2 DEF Pending
<1>4. S \in SUBSET Nat
  BY <1>1, <1>3
<1>5. \E m \in S : \A l \in S : m <= l
  BY <1>2, <1>4, LeastOf
<1>6. Min(S) \in S
  <2>1. Min(S) = CHOOSE x \in S : \A z \in S : x <= z
    BY DEF Min
  <2>. QED BY <1>5, <2>1
<1>7. Min(S) \in 1 .. n
  <2>1. PICK m : m = Min(S) /\ m \in 1 .. i - 1
    BY <1>3, <1>6
  <2>2. i \in 1 .. n
    BY <1>1
  <2>3. m \in 1 .. n
    BY <1>1, <2>1, <2>2
  <2>. QED BY <2>1, <2>3
<1>. QED BY <1>1, <1>2, <1>3, <1>6, <1>7

\* What the two halves take the names in a line for.
Alike(line, all, vals, day) ==
  \A i \in DOMAIN line :
    /\ line[i].k = "open" => Value(all, line[i].id) = Value(vals, line[i].id)
    /\ line[i].k = "ph" => IF line[i].id \in factNames \ {"dueDate"}
                           THEN Value(all, line[i].id) = <<Fact(day, line[i].id)>>
                           ELSE /\ Value(all, line[i].id) = Value(vals, line[i].id)
                                /\ IsList(Value(all, line[i].id))

LEMMA StaysAlike ==
  ASSUME NEW day, NEW line \in Line, NEW all, NEW vals, Alike(line, all, vals, day),
         NEW y, y = Facted(line, day), NEW i \in DOMAIN line
  PROVE  Stays(y, vals, i) <=> Stays(line, all, i)
<1>1. PICK n : n = Len(line) /\ n = Len(y) /\ n \in Nat /\ DOMAIN line = 1 .. n
  BY LineIs, ListLen, FactedIs
<1>2. PICK S : S = Pending(line, i) /\ S = Pending(y, i)
  BY FactedPending
<1>3. /\ y[i].k = "open" <=> line[i].k = "open"
      /\ y[i].k = "close" <=> line[i].k = "close"
  BY FactedTags
<1>4. (\A j \in i .. n : y[j].k # "close") <=> (\A j \in i .. n : line[j].k # "close")
  <2>1. \A j \in i .. n : j \in DOMAIN line
    BY <1>1
  <2>2. \A j \in i .. n : y[j].k = "close" <=> line[j].k = "close"
    BY <2>1, FactedTags
  <2>. QED BY <2>2
<1>5. ASSUME S # {} PROVE Value(vals, y[Min(S)].id) = Value(all, line[Min(S)].id)
  <2>1. PICK m : m = Min(S)
    OBVIOUS
  <2>2. m \in DOMAIN line /\ line[m].k = "open"
    BY <1>2, <1>5, <2>1, FirstPending
  <2>3. y[m] = line[m]
    BY <2>2, FactedTags
  <2>4. Value(all, line[m].id) = Value(vals, line[m].id)
    BY <2>2 DEF Alike
  <2>. QED BY <2>1, <2>3, <2>4
<1>6. Stays(y, vals, i) <=>
        \/ \A j \in i .. n : y[j].k # "close"
        \/ S = {} /\ y[i].k # "open"
        \/ S # {} /\ y[i].k # "close" /\ Value(vals, y[Min(S)].id) # <<>>
  BY <1>1, <1>2 DEF Stays
<1>7. Stays(line, all, i) <=>
        \/ \A j \in i .. n : line[j].k # "close"
        \/ S = {} /\ line[i].k # "open"
        \/ S # {} /\ line[i].k # "close" /\ Value(all, line[Min(S)].id) # <<>>
  BY <1>1, <1>2 DEF Stays
<1>. QED BY <1>3, <1>4, <1>5, <1>6, <1>7

\* In a tidy line no tag of a section stays.
LEMMA TidyStays ==
  ASSUME NEW line \in Line, Tidy(line), NEW all, NEW i \in DOMAIN line, Stays(line, all, i)
  PROVE  line[i].k \in {"lit", "ph"}
<1>1. PICK n : n = Len(line) /\ n \in Nat /\ DOMAIN line = 1 .. n
  BY LineIs, ListLen
<1>2. line[i].k \in {"lit", "ph", "open", "close"}
  BY LineIs DEF Token
<1>3. i \in 1 .. n
  BY <1>1
<1>4. \/ \A j \in i .. n : line[j].k # "close"
      \/ Pending(line, i) = {} /\ line[i].k # "open"
      \/ Pending(line, i) # {} /\ line[i].k # "close"
  BY <1>1 DEF Stays
<1>5. line[i].k # "close"
  <2>. SUFFICES ASSUME line[i].k = "close" PROVE FALSE
    OBVIOUS
  <2>1. PICK j \in 1 .. i - 1 : line[j].k = "open" /\ Between(line, j, i) = {}
    BY DEF Tidy
  <2>2. \A l \in j + 1 .. i - 1 : line[l].k # "close"
    BY <2>1 DEF Between
  <2>3. j \in Pending(line, i)
    BY <2>1, <2>2 DEF Pending
  <2>4. i \in i .. n
    BY <1>1, <1>3
  <2>. QED BY <1>4, <2>3, <2>4
<1>6. line[i].k # "open"
  <2>. SUFFICES ASSUME line[i].k = "open" PROVE FALSE
    OBVIOUS
  <2>1. PICK j \in i + 1 .. n : line[j].k = "close" /\ Between(line, i, j) = {}
    BY <1>1 DEF Tidy
  <2>2. j \in i .. n
    BY <1>1, <1>3, <2>1
  <2>3. PICK h : h \in Pending(line, i)
    BY <1>4, <2>1, <2>2
  <2>4. h \in 1 .. i - 1 /\ line[h].k = "open" /\ \A l \in h + 1 .. i - 1 : line[l].k # "close"
    BY <2>3 DEF Pending
  <2>5. h \in 1 .. n
    BY <1>1, <1>3, <2>4
  <2>6. PICK c \in h + 1 .. n : line[c].k = "close" /\ Between(line, h, c) = {}
    BY <1>1, <2>4, <2>5 DEF Tidy
  <2>7. c # i
    BY <2>6
  <2>8. CASE c < i
    <3>1. c \in h + 1 .. i - 1
      BY <1>1, <1>3, <2>5, <2>6, <2>8
    <3>. QED BY <2>4, <2>6, <3>1
  <2>9. CASE c > i
    <3>1. i \in h + 1 .. c - 1
      BY <1>1, <1>3, <2>4, <2>5, <2>6, <2>9
    <3>2. i \in Between(line, h, c)
      BY <3>1 DEF Between
    <3>. QED BY <2>6, <3>2
  <2>. QED BY <1>1, <1>3, <2>5, <2>6, <2>7, <2>8, <2>9
<1>. QED BY <1>2, <1>5, <1>6

\* What the two halves make of a token that is no tag of a section.
Sent(all, t) == IF t.k = "lit" THEN <<t>> ELSE Words(Value(all, t.id))
Seen(vals, t) == IF t.k = "ph" /\ Value(vals, t.id) # <<>> THEN Words(Value(vals, t.id)) ELSE <<t>>

LEMMA TokenSame ==
  ASSUME NEW day, NEW line \in Line, NEW all, NEW vals, Alike(line, all, vals, day),
         NEW i \in DOMAIN line, line[i].k \in {"lit", "ph"}
  PROVE  /\ IsList(Seen(vals, ToFact(day, line[i])))
         /\ WithoutMarks(Seen(vals, ToFact(day, line[i]))) = Sent(all, line[i])
<1>1. PICK t, u : t = line[i] /\ u = ToFact(day, t)
  OBVIOUS
<1>2. t \in Token /\ t.k \in {"lit", "ph"}
  BY <1>1, LineIs
<1>3. CASE t.k = "lit"
  <2>1. u = t /\ t \notin Marks
    BY <1>1, <1>2, <1>3, MarkIs DEF ToFact
  <2>2. Seen(vals, u) = <<t>> /\ Sent(all, t) = <<t>>
    BY <1>3, <2>1 DEF Seen, Sent
  <2>3. WithoutMarks(<<t>>) = <<t>>
    BY <2>1, WithoutOne DEF WithoutMarks
  <2>. QED BY <1>1, <2>2, <2>3, OneList
<1>4. CASE t.k = "ph" /\ t.id \in factNames \ {"dueDate"}
  <2>1. u = Lit(Fact(day, t.id))
    BY <1>1, <1>4 DEF ToFact
  <2>2. u \notin Marks /\ u.k = "lit"
    BY <2>1, LitIs
  <2>3. Seen(vals, u) = <<u>>
    BY <2>2 DEF Seen
  <2>4. Value(all, t.id) = <<Fact(day, t.id)>>
    BY <1>1, <1>4 DEF Alike
  <2>5. Sent(all, t) = <<u>>
    BY <1>4, <2>1, <2>4, WordsOne DEF Sent
  <2>6. WithoutMarks(<<u>>) = <<u>>
    BY <2>2, WithoutOne DEF WithoutMarks
  <2>. QED BY <1>1, <2>3, <2>5, <2>6, OneList
<1>5. CASE t.k = "ph" /\ t.id \notin factNames \ {"dueDate"}
  <2>1. u = t /\ t \in Marks
    BY <1>1, <1>2, <1>5, MarkIs DEF ToFact
  <2>2. PICK v : v = Value(all, t.id)
    OBVIOUS
  <2>3. Value(vals, t.id) = v /\ IsList(v)
    BY <1>1, <1>5, <2>2 DEF Alike
  <2>4. Sent(all, t) = Words(v)
    BY <1>5, <2>2 DEF Sent
  <2>5. CASE v = <<>>
    <3>1. Seen(vals, u) = <<t>>
      BY <2>1, <2>3, <2>5 DEF Seen
    <3>2. WithoutMarks(<<t>>) = <<>>
      BY <2>1, WithoutOne DEF WithoutMarks
    <3>3. Words(v) = <<>>
      BY <2>3, <2>5, WordsAre
    <3>. QED BY <1>1, <2>4, <3>1, <3>2, <3>3, OneList
  <2>6. CASE v # <<>>
    <3>1. Seen(vals, u) = Words(v)
      BY <1>5, <2>1, <2>3, <2>6 DEF Seen
    <3>. QED BY <1>1, <2>3, <2>4, <3>1, WordsAre
  <2>. QED BY <2>5, <2>6
<1>. QED BY <1>2, <1>3, <1>4, <1>5

\* The tokens of a line that are no tags of sections, each with what the browser gets for it.
Pairs(line, day) == {<<line[i], ToFact(day, line[i])>> : i \in {j \in DOMAIN line : line[j].k \in {"lit", "ph"}}}

LEMMA SectionsSame ==
  ASSUME NEW day, NEW line \in Line, Tidy(line), NEW all, NEW vals, Alike(line, all, vals, day)
  PROVE  Paired(Sections(line, all), Sections(substituteFacts(line, day), vals), Pairs(line, day))
<1>1. PICK n : n = Len(line) /\ n \in Nat /\ DOMAIN line = 1 .. n
  BY LineIs, ListLen
<1>2. PICK y : y = Facted(line, day) /\ substituteFacts(line, day) = y /\ IsList(y) /\ Len(y) = n
  BY <1>1, FactedIs
<1>3. DOMAIN y = 1 .. n /\ \A i \in 1 .. n : y[i] = ToFact(day, line[i])
  BY <1>1, <1>2 DEF Facted
<1>4. PICK p : p = [i \in DOMAIN line |-> IF Stays(line, all, i) THEN <<line[i]>> ELSE <<>>]
  OBVIOUS
<1>5. PICK q : q = [i \in DOMAIN y |-> IF Stays(y, vals, i) THEN <<y[i]>> ELSE <<>>]
  OBVIOUS
<1>6. /\ DOMAIN p = 1 .. n /\ p = [i \in 1 .. n |-> p[i]]
      /\ \A i \in 1 .. n : p[i] = IF Stays(line, all, i) THEN <<line[i]>> ELSE <<>>
  BY <1>1, <1>4
<1>7. /\ DOMAIN q = 1 .. n /\ q = [i \in 1 .. n |-> q[i]]
      /\ \A i \in 1 .. n : q[i] = IF Stays(y, vals, i) THEN <<y[i]>> ELSE <<>>
  BY <1>3, <1>5
<1>8. IsList(p) /\ Len(p) = n
  BY <1>1, <1>6, MapList
<1>9. IsList(q) /\ Len(q) = n
  BY <1>1, <1>7, MapList
<1>10. ASSUME NEW i \in 1 .. n PROVE Paired(p[i], q[i], Pairs(line, day))
  <2>1. Stays(y, vals, i) <=> Stays(line, all, i)
    BY <1>1, <1>2, StaysAlike
  <2>2. CASE ~Stays(line, all, i)
    <3>1. p[i] = <<>> /\ q[i] = <<>>
      BY <1>6, <1>7, <2>1, <2>2
    <3>. QED BY <3>1, PairedEmpty
  <2>3. CASE Stays(line, all, i)
    <3>1. PICK t, u : t = line[i] /\ u = y[i]
      OBVIOUS
    <3>2. p[i] = <<t>> /\ q[i] = <<u>>
      BY <1>6, <1>7, <2>1, <2>3, <3>1
    <3>3. line[i].k \in {"lit", "ph"}
      BY <1>1, <2>3, TidyStays
    <3>4. u = ToFact(day, line[i])
      BY <1>3, <3>1
    <3>5. <<t, u>> \in Pairs(line, day)
      BY <1>1, <3>1, <3>3, <3>4 DEF Pairs
    <3>. QED BY <3>2, <3>5, PairedOne
  <2>. QED BY <2>2, <2>3
<1>11. Paired(FlattenSeq(p), FlattenSeq(q), Pairs(line, day))
  BY <1>8, <1>9, <1>10, FlatPaired
<1>12. Sections(line, all) = FlattenSeq(p) /\ Sections(y, vals) = FlattenSeq(q)
  BY <1>4, <1>5 DEF Sections
<1>. QED BY <1>2, <1>11, <1>12

\* Which lists the two halves write as bullets.
ListedAlike(line, listy, listyShown) ==
  \A i \in DOMAIN line : line[i].k = "ph" =>
    /\ line[i].id \in listy <=> line[i].id \in listyShown
    /\ line[i].id \in listy => line[i].id \notin factNames

\* The line the browser shows is, without its marks, the line the server sends.
LEMMA LineSame ==
  ASSUME NEW day, NEW line \in Line, Tidy(line), NEW all, NEW vals, Alike(line, all, vals, day),
         NEW listy, NEW listyShown, ListedAlike(line, listy, listyShown)
  PROVE  WithoutMarks(fillEmailLine(substituteFacts(line, day), vals, listyShown)) = substitute(line, all, listy)
<1>1. PICK s, z : s = Sections(line, all) /\ z = Sections(substituteFacts(line, day), vals)
  OBVIOUS
<1>2. Paired(s, z, Pairs(line, day))
  BY <1>1, SectionsSame
<1>3. PICK n : n = Len(s) /\ n = Len(z) /\ n \in Nat /\ DOMAIN s = 1 .. n /\ DOMAIN z = 1 .. n
  <2>1. IsList(s) /\ IsList(z) /\ Len(s) = Len(z)
    BY <1>2 DEF Paired
  <2>. QED BY <2>1, ListLen
<1>4. ASSUME NEW i \in 1 .. n
      PROVE  \E j \in DOMAIN line : s[i] = line[j] /\ z[i] = ToFact(day, line[j]) /\ line[j].k \in {"lit", "ph"}
  <2>1. <<s[i], z[i]>> \in Pairs(line, day)
    BY <1>2, <1>3 DEF Paired
  <2>2. PICK j \in {l \in DOMAIN line : line[l].k \in {"lit", "ph"}} : <<s[i], z[i]>> = <<line[j], ToFact(day, line[j])>>
    BY <2>1 DEF Pairs
  <2>. QED BY <2>2
<1>5. PICK p : p = [i \in DOMAIN s |-> Sent(all, s[i])]
  OBVIOUS
<1>6. PICK q : q = [i \in DOMAIN z |-> Seen(vals, z[i])]
  OBVIOUS
<1>7. substitute(line, all, listy) =
        IF Len(s) = 1 /\ s[1].k # "lit" /\ s[1].id \in listy
        THEN Bullets(Value(all, s[1].id)) ELSE FlattenSeq(p)
  BY <1>1, <1>5 DEF substitute, Sent
<1>8. fillEmailLine(substituteFacts(line, day), vals, listyShown) =
        IF Len(z) = 1 /\ z[1].k = "ph" /\ z[1].id \in listyShown /\ Value(vals, z[1].id) # <<>>
        THEN Bullets(Value(vals, z[1].id)) ELSE FlattenSeq(q)
  BY <1>1, <1>6 DEF fillEmailLine, Seen
<1>9. /\ DOMAIN p = 1 .. n /\ p = [i \in 1 .. n |-> p[i]]
      /\ \A i \in 1 .. n : p[i] = Sent(all, s[i])
  BY <1>3, <1>5
<1>10. /\ DOMAIN q = 1 .. n /\ q = [i \in 1 .. n |-> q[i]]
       /\ \A i \in 1 .. n : q[i] = Seen(vals, z[i])
  BY <1>3, <1>6
<1>11. IsList(p) /\ Len(p) = n
  BY <1>3, <1>9, MapList
<1>12. IsList(q) /\ Len(q) = n
  BY <1>3, <1>10, MapList
<1>13. ASSUME NEW i \in 1 .. n PROVE IsList(q[i]) /\ p[i] = WithoutMarks(q[i])
  <2>1. PICK j \in DOMAIN line : s[i] = line[j] /\ z[i] = ToFact(day, line[j]) /\ line[j].k \in {"lit", "ph"}
    BY <1>4
  <2>2. q[i] = Seen(vals, ToFact(day, line[j])) /\ p[i] = Sent(all, line[j])
    BY <1>9, <1>10, <2>1
  <2>. QED BY <2>1, <2>2, TokenSame
<1>14. WithoutMarks(FlattenSeq(q)) = FlattenSeq(p)
  <2>1. Lists(q)
    BY <1>10, <1>12, <1>13 DEF Lists
  <2>2. Len(p) = Len(q) /\ \A i \in 1 .. Len(q) : p[i] = Without(q[i], Marks)
    BY <1>11, <1>12, <1>13 DEF WithoutMarks
  <2>. QED BY <1>11, <2>1, <2>2, WithoutFlat DEF WithoutMarks
<1>15. CASE n = 1 /\ s[1].k # "lit" /\ s[1].id \in listy
  <2>1. 1 \in 1 .. n
    BY <1>15
  <2>2. PICK j \in DOMAIN line : s[1] = line[j] /\ z[1] = ToFact(day, line[j]) /\ line[j].k \in {"lit", "ph"}
    BY <1>4, <2>1
  <2>3. PICK t : t = line[j] /\ s[1] = t
    BY <2>2
  <2>4. t.k = "ph" /\ t.id \in listy
    BY <1>15, <2>2, <2>3
  <2>5. t.id \in listyShown /\ t.id \notin factNames
    BY <2>3, <2>4 DEF ListedAlike
  <2>6. z[1] = t
    BY <2>2, <2>3, <2>5 DEF ToFact
  <2>7. PICK v : v = Value(all, t.id) /\ v = Value(vals, t.id) /\ IsList(v)
    BY <2>3, <2>4, <2>5 DEF Alike
  <2>8. substitute(line, all, listy) = Bullets(v)
    BY <1>3, <1>7, <1>15, <2>3, <2>7
  <2>9. CASE v # <<>>
    <3>1. fillEmailLine(substituteFacts(line, day), vals, listyShown) = Bullets(v)
      BY <1>3, <1>8, <1>15, <2>4, <2>5, <2>6, <2>7, <2>9
    <3>. QED BY <2>7, <2>8, <3>1, BulletsAre
  <2>10. CASE v = <<>>
    <3>1. fillEmailLine(substituteFacts(line, day), vals, listyShown) = FlattenSeq(q)
      BY <1>8, <2>6, <2>7, <2>10
    <3>2. Bullets(v) = <<>>
      BY <2>7, <2>10, BulletsAre
    <3>3. p[1] = <<>>
      <4>1. p[1] = Words(v)
        BY <1>9, <2>1, <2>3, <2>4, <2>7 DEF Sent
      <4>. QED BY <2>7, <2>10, <4>1, WordsAre
    <3>4. FlattenSeq(p) = <<>>
      <4>1. PICK o : o = <<<<>>>> /\ IsList(o) /\ Len(o) = 1 /\ o[1] = <<>>
        BY OneList
      <4>2. Len(p) = Len(o) /\ \A i \in 1 .. Len(p) : p[i] = o[i]
        BY <1>11, <1>15, <3>3, <4>1
      <4>3. p = o
        BY <1>11, <4>1, <4>2, SameList
      <4>. QED BY <4>1, <4>3, FlatOne, EmptyList
    <3>. QED BY <1>14, <2>8, <3>1, <3>2, <3>4
  <2>. QED BY <2>9, <2>10
<1>16. CASE ~(n = 1 /\ s[1].k # "lit" /\ s[1].id \in listy)
  <2>1. substitute(line, all, listy) = FlattenSeq(p)
    BY <1>3, <1>7, <1>16
  <2>2. ~(Len(z) = 1 /\ z[1].k = "ph" /\ z[1].id \in listyShown)
    <3>. SUFFICES ASSUME n = 1, z[1].k = "ph", z[1].id \in listyShown PROVE FALSE
      BY <1>3
    <3>1. 1 \in 1 .. n
      OBVIOUS
    <3>2. PICK j \in DOMAIN line : s[1] = line[j] /\ z[1] = ToFact(day, line[j])
      BY <1>4, <3>1
    <3>3. PICK t : t = line[j] /\ s[1] = t /\ z[1] = ToFact(day, t)
      BY <3>2
    <3>4. z[1] = t
      BY <3>3, LitIs DEF ToFact
    <3>5. t.id \in listy /\ t.k = "ph"
      BY <3>2, <3>3, <3>4 DEF ListedAlike
    <3>. QED BY <1>16, <3>3, <3>5
  <2>3. fillEmailLine(substituteFacts(line, day), vals, listyShown) = FlattenSeq(q)
    BY <1>8, <2>2
  <2>. QED BY <1>14, <2>1, <2>3
<1>. QED BY <1>15, <1>16

-----------------------------------------------------------------------------
(* One email, in both halves *)

\* What every template is made of that a build carries or a tenant's wording makes.
IsTemplate(t) ==
  /\ DOMAIN t = {"fields", "subject", "paragraphs"}
  /\ t.subject \in Line /\ t.paragraphs \in Seq(Line)
  /\ \A f \in DOMAIN t.fields : t.fields[f].default \in Input
  /\ "days" \in DOMAIN t.fields => /\ t.fields["days"].type = "NUMBER"
                                  /\ t.fields["days"].range \subseteq Nat \ {0}

RowStored == row # <<>> => row[1] \in Overrides

LEMMA LaidTemplate ==
  ASSUME NEW b \in DOMAIN Base, NEW o \in Overrides
  PROVE  IsTemplate(Laid(Base[b], o))
<1>1. PICK base : base = Base[b]
  OBVIOUS
<1>2. /\ DOMAIN base = {"fields", "subject", "paragraphs"}
      /\ base.subject \in Line /\ base.paragraphs \in Seq(Line)
      /\ o.subject \in Line /\ o.paragraphs \in Seq(Line)
  BY <1>1, WordingAssumption
<1>3. \A f \in DOMAIN base.fields :
        /\ DOMAIN base.fields[f] = {"type", "required", "default", "options", "range"}
        /\ base.fields[f].default \in Input
  BY <1>1, WordingAssumption
<1>4. PICK t : t = Laid(base, o)
  OBVIOUS
<1>5. DOMAIN t = {"fields", "subject", "paragraphs"}
  BY <1>2, <1>4 DEF Laid
<1>6. t.subject \in Line
  BY <1>2, <1>4 DEF Laid
<1>7. t.paragraphs \in Seq(Line)
  BY <1>2, <1>4 DEF Laid
<1>8. ASSUME NEW f \in DOMAIN t.fields PROVE t.fields[f].default \in Input
  <2>1. f \in DOMAIN base.fields /\ \E opts : t.fields[f] = [base.fields[f] EXCEPT !.options = opts]
    BY <1>2, <1>4, Zenon DEF Laid
  <2>2. PICK opts : t.fields[f] = [base.fields[f] EXCEPT !.options = opts]
    BY <2>1
  <2>. QED BY <1>3, <2>1, <2>2
<1>9. ASSUME "days" \in DOMAIN t.fields
      PROVE  t.fields["days"].type = "NUMBER" /\ t.fields["days"].range \subseteq Nat \ {0}
  <2>1. PICK f : f = "days" /\ f \in DOMAIN t.fields
    BY <1>9
  <2>2. f \in DOMAIN base.fields /\ \E opts : t.fields[f] = [base.fields[f] EXCEPT !.options = opts]
    BY <1>2, <1>4, <2>1, Zenon DEF Laid
  <2>3. PICK opts : t.fields[f] = [base.fields[f] EXCEPT !.options = opts]
    BY <2>2
  <2>4. t.fields[f].type = base.fields[f].type /\ t.fields[f].range = base.fields[f].range
    BY <1>3, <2>2, <2>3
  <2>5. base.fields[f].type = "NUMBER" /\ base.fields[f].range \subseteq Nat \ {0}
    BY <1>1, <2>1, <2>2, DaysAssumption
  <2>. QED BY <2>1, <2>4, <2>5
<1>. QED BY <1>1, <1>4, <1>5, <1>6, <1>7, <1>8, <1>9 DEF IsTemplate

LEMMA AppliedTemplate ==
  ASSUME NEW b \in Builds, RowStored
  PROVE  IsTemplate(applyStored(Base[b]))
<1>1. b \in DOMAIN Base
  BY ReleaseAssumption
<1>2. IsTemplate(Base[b])
  BY <1>1, WordingAssumption, DaysAssumption DEF IsTemplate
<1>3. ASSUME row # <<>> PROVE IsTemplate(Laid(Base[b], row[1]))
  BY <1>1, <1>3, LaidTemplate DEF RowStored
<1>. QED BY <1>2, <1>3 DEF applyStored

\* What the workbench is handed: the form is the same, the facts are filled in.
LEMMA PlaceholdersAre ==
  ASSUME NEW t, IsTemplate(t), NEW day
  PROVE  /\ Placeholders(t, day).fields = t.fields
         /\ Placeholders(t, day).subject = substituteFacts(t.subject, day)
         /\ Placeholders(t, day).paragraphs = [i \in DOMAIN t.paragraphs |-> substituteFacts(t.paragraphs[i], day)]
<1>1. DOMAIN t = {"fields", "subject", "paragraphs"}
  BY DEF IsTemplate
<1>2. PICK s, p : s = substituteFacts(t.subject, day) /\ p = [i \in DOMAIN t.paragraphs |-> substituteFacts(t.paragraphs[i], day)]
  OBVIOUS
<1>3. Placeholders(t, day) = [t EXCEPT !.subject = s, !.paragraphs = p]
  BY <1>1, <1>2 DEF Placeholders
<1>. QED BY <1>1, <1>2, <1>3

LEMMA GivenList ==
  ASSUME NEW t, IsTemplate(t), NEW inputs \in Forms, NEW f \in DOMAIN t.fields
  PROVE  IsList(Given(t, inputs)[f])
<1>1. Given(t, inputs)[f] = IF f \in DOMAIN inputs /\ inputs[f] # <<>> THEN inputs[f] ELSE t.fields[f].default
  BY DEF Given
<1>2. f \in DOMAIN inputs => inputs[f] \in Input
  BY WordingAssumption
<1>3. t.fields[f].default \in Input
  BY DEF IsTemplate
<1>4. Given(t, inputs)[f] \in Seq(STRING)
  BY <1>1, <1>2, <1>3 DEF Input
<1>. QED BY <1>4, SeqIsList

\* The values of the fields as the browser shows them, before the due date.
ShownFields(t, inputs) ==
  [f \in DOMAIN t.fields |->
    IF t.fields[f].type = "MULTISELECT"
    THEN FlattenSeq([i \in DOMAIN Given(t, inputs)[f] |->
           IF Given(t, inputs)[f][i] \in DOMAIN t.fields[f].options
           THEN <<optionText(t.fields[f], Given(t, inputs)[f][i])>> ELSE <<>>])
    ELSE Given(t, inputs)[f]]

LEMMA BrowserValues ==
  ASSUME NEW t, NEW inputs, NEW day
  PROVE  customerFacingFieldValues(t, inputs, day) =
           [id \in DOMAIN t.fields \cup {"dueDate"} |->
              IF id = "dueDate" THEN daysToReply(day, Value(ShownFields(t, inputs), "days")) ELSE ShownFields(t, inputs)[id]]
BY DEF customerFacingFieldValues, ShownFields

LEMMA ItoaSame == ASSUME NEW n \in DOMAIN Atoi, n # "010" PROVE Itoa[Atoi[n]] = n
BY DEF Itoa, Atoi

\* A field's value is the same in both halves, unless it is a number with a leading zero.
LEMMA FieldSame ==
  ASSUME NEW t, IsTemplate(t), NEW inputs \in Forms, Valid(t, inputs), ~LeadingZeros(t, inputs),
         NEW f \in DOMAIN t.fields
  PROVE  /\ IsList(Validate(t, inputs)[f])
         /\ ShownFields(t, inputs)[f] = Validate(t, inputs)[f]
<1>1. PICK raw, field : raw = Given(t, inputs)[f] /\ field = t.fields[f]
  OBVIOUS
<1>2. IsList(raw)
  BY <1>1, GivenList
<1>3. PICK n : n = Len(raw) /\ n \in Nat /\ DOMAIN raw = 1 .. n /\ raw = [i \in 1 .. n |-> raw[i]]
  BY <1>2, ListLen
<1>4. raw = <<>> \/ displayable(field, raw)
  BY <1>1 DEF Valid
<1>5. PICK v : v = Validate(t, inputs)[f] /\ v = displayValue(field, raw)
  BY <1>1 DEF Validate
<1>6. /\ DOMAIN v = 1 .. n /\ v = [i \in 1 .. n |-> v[i]]
      /\ \A i \in 1 .. n : v[i] = CASE field.type = "MULTISELECT" -> optionText(field, raw[i])
                                  [] field.type = "NUMBER"      -> Itoa[Atoi[raw[i]]]
                                  [] OTHER                      -> raw[i]
  BY <1>3, <1>5 DEF displayValue
<1>7. IsList(v) /\ Len(v) = n
  BY <1>3, <1>6, MapList
<1>8. ASSUME n # 0 PROVE displayable(field, raw)
  <2>1. 1 \in DOMAIN raw
    BY <1>3, <1>8
  <2>2. raw # <<>>
    BY <2>1
  <2>. QED BY <1>4, <2>2
<1>9. CASE field.type = "MULTISELECT"
  <2>1. PICK p : p = [i \in DOMAIN raw |-> IF raw[i] \in DOMAIN field.options THEN <<optionText(field, raw[i])>> ELSE <<>>]
    OBVIOUS
  <2>2. ShownFields(t, inputs)[f] = FlattenSeq(p)
    BY <1>1, <1>9, <2>1 DEF ShownFields
  <2>3. DOMAIN p = 1 .. n /\ p = [i \in 1 .. n |-> p[i]]
    BY <1>3, <2>1
  <2>4. IsList(p) /\ Len(p) = n
    BY <1>3, <2>3, MapList
  <2>5. ASSUME NEW i \in 1 .. n PROVE p[i] = <<v[i]>>
    <3>1. ToSet(raw) \subseteq DOMAIN field.options
      BY <1>3, <1>8, <1>9 DEF displayable
    <3>2. raw[i] \in ToSet(raw)
      BY <1>3 DEF ToSet
    <3>3. raw[i] \in DOMAIN field.options
      BY <3>1, <3>2
    <3>4. p[i] = <<optionText(field, raw[i])>>
      BY <1>3, <2>1, <3>3
    <3>5. v[i] = optionText(field, raw[i])
      BY <1>6, <1>9
    <3>. QED BY <3>4, <3>5
  <2>6. FlattenSeq(p) = v
    BY <1>7, <2>4, <2>5, FlatSingles
  <2>. QED BY <1>5, <1>7, <2>2, <2>6
<1>10. CASE field.type # "MULTISELECT"
  <2>1. ShownFields(t, inputs)[f] = raw
    BY <1>1, <1>10 DEF ShownFields
  <2>2. ASSUME NEW i \in 1 .. n PROVE v[i] = raw[i]
    <3>1. CASE field.type = "NUMBER"
      <4>1. raw[i] \in ToSet(raw)
        BY <1>3 DEF ToSet
      <4>2. ToSet(raw) \subseteq DOMAIN Atoi
        BY <1>3, <1>8, <1>10, <3>1 DEF displayable
      <4>3. raw[i] # "010"
        BY <1>1, <3>1, <4>1 DEF LeadingZeros
      <4>4. Itoa[Atoi[raw[i]]] = raw[i]
        BY <4>1, <4>2, <4>3, ItoaSame
      <4>. QED BY <1>6, <1>10, <3>1, <4>4
    <3>2. CASE field.type # "NUMBER"
      BY <1>6, <1>10, <3>2
    <3>. QED BY <3>1, <3>2
  <2>3. v = raw
    BY <1>3, <1>6, <2>2
  <2>. QED BY <1>5, <1>7, <2>1, <2>3
<1>. QED BY <1>9, <1>10

\* The values the server substitutes.
Values(values, day) ==
  [id \in DOMAIN values \cup factNames |->
     IF id \in DOMAIN values THEN values[id]
     ELSE IF id = "dueDate" THEN DueDate(day, Value(values, "days"))
     ELSE factMap(day)[id]]

LEMMA DueDateList == ASSUME NEW day, NEW v PROVE IsList(DueDate(day, v))
<1>1. DueDate(day, v) = <<>> \/ \E x : DueDate(day, v) = <<x>>
  BY DEF DueDate
<1>. QED BY <1>1, EmptyList, OneList

\* A form whose fields are none of the facts, filled in to be sent.
Ready(t, inputs) ==
  /\ IsTemplate(t) /\ inputs \in Forms /\ Valid(t, inputs) /\ ~LeadingZeros(t, inputs)
  /\ \A f \in DOMAIN t.fields : f \notin factNames

\* A form that is sent asks for one day at least, so that both halves date the reply.
LEMMA DueSame ==
  ASSUME NEW t, NEW inputs, Ready(t, inputs), NEW day
  PROVE  daysToReply(day, Value(Validate(t, inputs), "days")) = DueDate(day, Value(Validate(t, inputs), "days"))
<1>1. PICK V, f, v : V = Validate(t, inputs) /\ f = "days" /\ v = Value(V, f)
  OBVIOUS
<1>2. DOMAIN V = DOMAIN t.fields
  BY <1>1 DEF Validate
<1>3. CASE f \notin DOMAIN V
  <2>1. v = <<>>
    BY <1>1, <1>3 DEF Value
  <2>2. Len(v) # 1
    BY <2>1
  <2>. QED BY <1>1, <2>2 DEF daysToReply, DueDate
<1>4. CASE f \in DOMAIN V /\ ~(Len(v) = 1 /\ v[1] \in DOMAIN Atoi)
  BY <1>1, <1>4 DEF daysToReply, DueDate
<1>5. CASE f \in DOMAIN V /\ Len(v) = 1 /\ v[1] \in DOMAIN Atoi
  <2>1. v = V[f] /\ f \in DOMAIN t.fields
    BY <1>1, <1>2, <1>5 DEF Value
  <2>2. PICK raw, field : raw = Given(t, inputs)[f] /\ field = t.fields[f]
    OBVIOUS
  <2>3. field.type = "NUMBER" /\ field.range \subseteq Nat \ {0}
    BY <1>1, <2>1, <2>2 DEF Ready, IsTemplate
  <2>4. IsList(raw) /\ IsList(v) /\ v = raw
    <3>1. ShownFields(t, inputs)[f] = raw
      BY <2>1, <2>2, <2>3 DEF ShownFields
    <3>. QED BY <1>1, <2>1, <2>2, <3>1, FieldSame, GivenList DEF Ready
  <2>5. DOMAIN raw = 1 .. 1
    BY <1>5, <2>4, ListLen
  <2>6. raw # <<>> /\ raw[1] \in ToSet(raw)
    BY <2>5 DEF ToSet
  <2>7. displayable(field, raw)
    BY <2>1, <2>2, <2>6 DEF Ready, Valid
  <2>8. Atoi[raw[1]] \in field.range
    BY <2>3, <2>6, <2>7 DEF displayable
  <2>9. Atoi[v[1]] > 0
    BY <2>3, <2>4, <2>8
  <2>. QED BY <1>1, <1>5, <2>9 DEF daysToReply, DueDate
<1>. QED BY <1>3, <1>4, <1>5

\* A line with no date in it, or one that is read twice on one day.
SameDay(line, day, composed) ==
  composed = day \/ \A i \in DOMAIN line : line[i].k # "lit" => line[i].id \notin {"today", "dueDate"}

\* The names of a line stand for the same in both halves.
LEMMA NamesAlike ==
  ASSUME NEW t, NEW inputs, Ready(t, inputs), NEW line \in Line, NEW day, NEW composed,
         SameDay(line, day, composed),
         \A i \in DOMAIN line : line[i].k = "open" => line[i].id \in DOMAIN t.fields \cup {"dueDate"}
  PROVE  Alike(line, Values(Validate(t, inputs), composed), customerFacingFieldValues(t, inputs, day), day)
<1>1. PICK V, all, vals, sh : /\ V = Validate(t, inputs) /\ all = Values(V, composed)
                              /\ vals = customerFacingFieldValues(t, inputs, day)
                              /\ sh = ShownFields(t, inputs)
  OBVIOUS
<1>2. PICK D : D = DOMAIN t.fields
  OBVIOUS
<1>3. \A f \in D : IsList(V[f]) /\ sh[f] = V[f] /\ f \notin factNames
  BY <1>1, <1>2, FieldSame DEF Ready
<1>4. DOMAIN V = D /\ DOMAIN sh = D
  BY <1>1, <1>2 DEF Validate, ShownFields
<1>5. Value(sh, "days") = Value(V, "days")
  BY <1>3, <1>4 DEF Value
<1>6. PICK due, seen : /\ due = DueDate(composed, Value(V, "days")) /\ IsList(due)
                      /\ seen = daysToReply(day, Value(V, "days"))
  BY DueDateList
<1>17. ASSUME composed = day PROVE seen = due
  BY <1>1, <1>6, <1>17, DueSame
<1>7. vals = [id \in D \cup {"dueDate"} |-> IF id = "dueDate" THEN seen ELSE sh[id]]
  BY <1>1, <1>2, <1>5, <1>6, BrowserValues
<1>8. all = [id \in D \cup factNames |-> IF id \in D THEN V[id] ELSE IF id = "dueDate" THEN due ELSE factMap(composed)[id]]
  BY <1>1, <1>4, <1>6 DEF Values
<1>9. "dueDate" \in factNames
  BY DEF factNames
<1>10. ASSUME NEW id \in D PROVE Value(all, id) = V[id] /\ Value(vals, id) = V[id] /\ id \notin factNames /\ IsList(V[id])
  BY <1>3, <1>7, <1>8, <1>9 DEF Value
<1>11. Value(all, "dueDate") = due /\ Value(vals, "dueDate") = seen
  BY <1>3, <1>7, <1>8, <1>9 DEF Value
<1>12. ASSUME NEW id \in factNames \ {"dueDate"}, composed = day \/ id # "today"
       PROVE  Value(all, id) = <<Fact(day, id)>>
  <2>1. id \notin D
    BY <1>3
  <2>2. factMap(composed)[id] = <<Fact(composed, id)>>
    BY DEF factMap
  <2>3. Fact(composed, id) = Fact(day, id)
    BY <1>12 DEF Fact
  <2>. QED BY <1>8, <2>1, <2>2, <2>3 DEF Value
<1>13. ASSUME NEW id, id \notin D, id \notin factNames PROVE Value(all, id) = <<>> /\ Value(vals, id) = <<>>
  BY <1>7, <1>8, <1>9, <1>13 DEF Value
<1>14. ASSUME NEW id, id \notin factNames \ {"dueDate"}, composed = day \/ id # "dueDate"
       PROVE  Value(all, id) = Value(vals, id) /\ IsList(Value(all, id))
  <2>1. CASE id \in D
    BY <1>10, <2>1
  <2>2. CASE id = "dueDate"
    BY <1>6, <1>11, <1>14, <1>17, <2>2
  <2>3. CASE id \notin D /\ id # "dueDate"
    BY <1>13, <1>14, <2>3, EmptyList
  <2>. QED BY <2>1, <2>2, <2>3
<1>15. ASSUME NEW i \in DOMAIN line
       PROVE  /\ line[i].k = "open" => Value(all, line[i].id) = Value(vals, line[i].id)
              /\ line[i].k = "ph" => IF line[i].id \in factNames \ {"dueDate"}
                                     THEN Value(all, line[i].id) = <<Fact(day, line[i].id)>>
                                     ELSE /\ Value(all, line[i].id) = Value(vals, line[i].id)
                                          /\ IsList(Value(all, line[i].id))
  <2>1. ASSUME line[i].k = "open" PROVE line[i].id \notin factNames \ {"dueDate"}
    BY <1>2, <1>3, <2>1
  <2>2. ASSUME line[i].k # "lit" PROVE composed = day \/ line[i].id \notin {"today", "dueDate"}
    BY <2>2 DEF SameDay
  <2>. QED BY <1>12, <1>14, <2>1, <2>2
<1>16. Alike(line, all, vals, day)
  BY <1>15 DEF Alike
<1>. QED BY <1>1, <1>16

\* The browser's values and lists come from the form alone.
LEMMA ShownForm ==
  ASSUME NEW t, IsTemplate(t), NEW inputs, NEW day
  PROVE  /\ customerFacingFieldValues(Placeholders(t, day), inputs, day) = customerFacingFieldValues(t, inputs, day)
         /\ Listy(Placeholders(t, day)) = Listy(t)
<1>1. PICK u : u = Placeholders(t, day) /\ u.fields = t.fields
  BY PlaceholdersAre
<1>2. Given(u, inputs) = Given(t, inputs)
  BY <1>1 DEF Given
<1>3. ShownFields(u, inputs) = ShownFields(t, inputs)
  BY <1>1, <1>2 DEF ShownFields
<1>4. customerFacingFieldValues(u, inputs, day) = customerFacingFieldValues(t, inputs, day)
  BY <1>1, <1>3, BrowserValues
<1>5. Listy(u) = Listy(t)
  BY <1>1 DEF Listy
<1>. QED BY <1>1, <1>4, <1>5

LEMMA PlainLine ==
  ASSUME NEW t, IsTemplate(t), Plain(t), NEW line \in Lines(t)
  PROVE  /\ line \in Line /\ Tidy(line)
         /\ \A i \in DOMAIN line : line[i].k = "open" => line[i].id \in DOMAIN t.fields \cup {"dueDate"}
<1>1. line \in Line
  <2>1. line = t.subject \/ \E i \in DOMAIN t.paragraphs : line = t.paragraphs[i]
    BY DEF Lines, ToSet
  <2>2. t.subject \in Line /\ t.paragraphs \in Seq(Line)
    BY DEF IsTemplate
  <2>3. \A i \in DOMAIN t.paragraphs : t.paragraphs[i] \in Line
    BY <2>2
  <2>. QED BY <2>1, <2>2, <2>3
<1>. QED BY <1>1 DEF Plain

LEMMA DayLine ==
  ASSUME NEW t, NEW line \in Lines(t), NEW day, NEW composed, composed = day \/ ~Dated(t)
  PROVE  SameDay(line, day, composed)
<1>1. ASSUME NEW i \in DOMAIN line, line[i].k # "lit" PROVE line[i].id \in Names(t)
  <2>1. line[i].id \in {line[k].id : k \in {j \in DOMAIN line : line[j].k # "lit"}}
    BY <1>1
  <2>. QED BY <2>1 DEF Names
<1>2. ASSUME ~Dated(t) PROVE "today" \notin Names(t) /\ "dueDate" \notin Names(t)
  BY <1>2 DEF Dated
<1>. QED BY <1>1, <1>2 DEF SameDay

\* The email the server composes is the preview of the wording it handed out, without
\* the marks for what was left empty.
LEMMA EmailSame ==
  ASSUME NEW t, NEW inputs, Ready(t, inputs), Plain(t), NEW day, NEW composed,
         composed = day \/ ~Dated(t)
  PROVE  Fill(t, composed, Validate(t, inputs)) = Unmarked(renderEmailPreview(Placeholders(t, day), inputs, day))
<1>1. PICK u, V, all, vals, L : u = Placeholders(t, day) /\ V = Validate(t, inputs) /\ all = Values(V, composed)
                               /\ vals = customerFacingFieldValues(t, inputs, day) /\ L = Listy(t)
  OBVIOUS
<1>2. IsTemplate(t) /\ \A f \in DOMAIN t.fields : f \notin factNames
  BY DEF Ready
<1>3. /\ u.subject = substituteFacts(t.subject, day)
      /\ u.paragraphs = [i \in DOMAIN t.paragraphs |-> substituteFacts(t.paragraphs[i], day)]
  BY <1>1, <1>2, PlaceholdersAre
<1>4. customerFacingFieldValues(u, inputs, day) = vals /\ Listy(u) = L
  BY <1>1, <1>2, ShownForm
<1>5. \A id \in L : id \notin factNames
  BY <1>1, <1>2 DEF Listy
<1>6. PICK ps : ps = t.paragraphs
  OBVIOUS
<1>7. PICK n : n = Len(ps) /\ n \in Nat /\ DOMAIN ps = 1 .. n
  BY <1>2, <1>6, SeqIsList, ListLen DEF IsTemplate
<1>8. WithoutMarks(fillEmailLine(u.subject, vals, L)) = substitute(t.subject, all, {})
  <2>1. PICK line : line = t.subject /\ line \in Lines(t)
    BY DEF Lines
  <2>2. line \in Line /\ Tidy(line)
    BY <1>2, <2>1, PlainLine
  <2>3. Alike(line, all, vals, day)
    BY <1>1, <1>2, <2>1, PlainLine, DayLine, NamesAlike
  <2>4. ListedAlike(line, {}, L)
    BY <1>1, <2>1 DEF ListedAlike, Plain
  <2>5. WithoutMarks(fillEmailLine(substituteFacts(line, day), vals, L)) = substitute(line, all, {})
    BY <2>2, <2>3, <2>4, LineSame
  <2>. QED BY <1>3, <2>1, <2>5
<1>9. ASSUME NEW i \in 1 .. n
      PROVE  WithoutMarks(fillEmailLine(substituteFacts(ps[i], day), vals, L)) = substitute(ps[i], all, L)
  <2>1. PICK line : line = ps[i] /\ line \in Lines(t)
    BY <1>6, <1>7 DEF Lines, ToSet
  <2>2. line \in Line /\ Tidy(line)
    BY <1>2, <2>1, PlainLine
  <2>3. Alike(line, all, vals, day)
    BY <1>1, <1>2, <2>1, PlainLine, DayLine, NamesAlike
  <2>4. ListedAlike(line, L, L)
    BY <1>5 DEF ListedAlike
  <2>5. WithoutMarks(fillEmailLine(substituteFacts(line, day), vals, L)) = substitute(line, all, L)
    BY <2>2, <2>3, <2>4, LineSame
  <2>. QED BY <2>1, <2>5
<1>10. PICK x, y : /\ x = [i \in DOMAIN u.paragraphs |-> fillEmailLine(u.paragraphs[i], vals, L)]
                  /\ y = [i \in DOMAIN ps |-> substitute(ps[i], all, L)]
  OBVIOUS
<1>11. DOMAIN u.paragraphs = 1 .. n /\ \A i \in 1 .. n : u.paragraphs[i] = substituteFacts(ps[i], day)
  BY <1>3, <1>6, <1>7
<1>12. /\ DOMAIN x = 1 .. n /\ x = [i \in 1 .. n |-> x[i]]
       /\ \A i \in 1 .. n : x[i] = fillEmailLine(substituteFacts(ps[i], day), vals, L)
  BY <1>10, <1>11
<1>13. IsList(x)
  BY <1>7, <1>12, MapList
<1>14. Cleared(x) = y
  <2>1. Cleared(x) = [i \in 1 .. n |-> WithoutMarks(x[i])]
    BY <1>12 DEF Cleared
  <2>2. y = [i \in 1 .. n |-> substitute(ps[i], all, L)]
    BY <1>7, <1>10
  <2>3. \A i \in 1 .. n : WithoutMarks(x[i]) = substitute(ps[i], all, L)
    BY <1>9, <1>12
  <2>. QED BY <2>1, <2>2, <2>3
<1>15. Bare(Without(x, {<<>>})) = Without(y, {<<>>})
  BY <1>13, <1>14, BareOnce DEF Bare
<1>16. Fill(t, composed, V) = [subject |-> substitute(t.subject, all, {}), paragraphs |-> Without(y, {<<>>})]
  BY <1>1, <1>6, <1>10 DEF Fill, Values
<1>17. renderEmailPreview(u, inputs, day) = [subject |-> fillEmailLine(u.subject, vals, L), paragraphs |-> Without(x, {<<>>})]
  BY <1>4, <1>10 DEF renderEmailPreview
<1>18. PICK mail : mail = renderEmailPreview(u, inputs, day)
  OBVIOUS
<1>19. mail.subject = fillEmailLine(u.subject, vals, L) /\ mail.paragraphs = Without(x, {<<>>})
  BY <1>17, <1>18
<1>20. Unmarked(mail) = [subject |-> WithoutMarks(mail.subject), paragraphs |-> Bare(mail.paragraphs)]
  BY DEF Unmarked, Bare, Cleared
<1>21. Unmarked(mail) = [subject |-> substitute(t.subject, all, {}), paragraphs |-> Without(y, {<<>>})]
  BY <1>8, <1>15, <1>19, <1>20
<1>. QED BY <1>1, <1>16, <1>18, <1>21

\* What an analyst has open is a wording as it was handed out.
ComposerShows == composer # <<>> => composer[1].shown = Placeholders(composer[1].wording, composer[1].day)

PreviewInv == ServingOK /\ RowStored /\ ComposerShows /\ PreviewIsSent

LEMMA PreviewStep == PreviewInv /\ [Next]_vars => PreviewInv'
<1>. SUFFICES ASSUME PreviewInv, [Next]_vars PROVE RowStored' /\ ComposerShows' /\ PreviewIsSent'
  BY ServingStep DEF PreviewInv
<1>. USE DEF PreviewInv
<1>1. CASE UNCHANGED wordingVars
  <2>1. UNCHANGED <<row, composer, sent>>
    BY <1>1 DEF wordingVars
  <2>. QED BY <2>1 DEF RowStored, ComposerShows, PreviewIsSent
<1>2. ASSUME NEW b, NEW o \in Overrides, PutTemplateSetting(b, o) PROVE RowStored' /\ ComposerShows' /\ PreviewIsSent'
  BY <1>2 DEF PutTemplateSetting, RowStored, ComposerShows, PreviewIsSent
<1>3. CASE DeleteTemplateSetting
  BY <1>3 DEF DeleteTemplateSetting, RowStored, ComposerShows, PreviewIsSent
<1>4. ASSUME NEW b, ListEmailTemplates(b) PROVE RowStored' /\ ComposerShows' /\ PreviewIsSent'
  BY <1>4 DEF ListEmailTemplates, RowStored, ComposerShows, PreviewIsSent
<1>5. ASSUME NEW b \in Served, NEW inputs \in Forms, ComposeEmail(b, inputs)
      PROVE  RowStored' /\ ComposerShows' /\ PreviewIsSent'
  <2>1. PICK tpl : tpl = applyStored(Base[b])
    OBVIOUS
  <2>2. b \in Builds
    BY DEF ServingOK
  <2>3. IsTemplate(tpl)
    BY <2>1, <2>2, AppliedTemplate
  <2>4. \A f \in DOMAIN tpl.fields : f \notin factNames
    BY <2>1, <2>2, AppliedIsChecked DEF checkTemplate
  <2>5. PICK seen, shown, day : /\ seen = composer[1].wording /\ shown = composer[1].shown
                                /\ day = composer[1].day /\ shown = Placeholders(seen, day)
    BY <1>5 DEF ComposeEmail, ComposerShows
  <2>6. PICK doc, pre : doc = Fill(tpl, today, Validate(tpl, inputs)) /\ pre = renderEmailPreview(shown, inputs, day)
    OBVIOUS
  <2>7. /\ Valid(tpl, inputs) /\ composer' = <<>> /\ row' = row
        /\ sent' = <<[document |-> doc, wording |-> tpl, inputs |-> inputs, day |-> today,
                      preview |-> pre, previewed |-> seen, previewedOn |-> day]>>
    BY <1>5, <2>1, <2>5, <2>6 DEF ComposeEmail
  <2>8. ASSUME tpl = seen, Plain(tpl), ~LeadingZeros(tpl, inputs), today = day \/ ~Dated(tpl)
        PROVE  doc = Unmarked(pre)
    <3>1. Ready(tpl, inputs)
      BY <2>3, <2>4, <2>7, <2>8 DEF Ready
    <3>. QED BY <2>5, <2>6, <2>8, <3>1, EmailSame
  <2>9. PreviewIsSent'
    <3>1. /\ sent'[1].wording = tpl /\ sent'[1].previewed = seen /\ sent'[1].inputs = inputs
          /\ sent'[1].document = doc /\ sent'[1].preview = pre
          /\ sent'[1].day = today /\ sent'[1].previewedOn = day
      BY <2>7
    <3>. QED BY <2>8, <3>1 DEF PreviewIsSent, SentAsPreviewed
  <2>10. RowStored' /\ ComposerShows'
    BY <2>7 DEF RowStored, ComposerShows
  <2>. QED BY <2>9, <2>10
<1>7. CASE NextDay
  BY <1>7 DEF NextDay, RowStored, ComposerShows, PreviewIsSent
<1>6. CASE Wording
  BY <1>2, <1>3, <1>4, <1>5, <1>6, <1>7 DEF Wording
<1>. QED BY <1>1, <1>6 DEF Next, RollOut, Migrating, Counting, Asking, Scoring, vars, wordingVars

\* What the analyst saw is what the customer gets, for any wordings, forms and builds:
\* unless the wording changed since the composer was opened, or holds a date and a day
\* passed, the email notice.Fill composes is the preview of lib/email/render.ts without
\* its marks for what was left empty.  By token: a section stays in both halves or in neither, a fact the server
\* filled beforehand is a word in both, and a field has one value in both.
THEOREM PreviewIsAlwaysSent == Spec => []PreviewIsSent
<1>1. Init => PreviewInv
  BY ServingInit DEF Init, PreviewInv, RowStored, ComposerShows, PreviewIsSent
<1>2. PreviewInv => PreviewIsSent
  BY DEF PreviewInv
<1>. QED  BY <1>1, <1>2, PreviewStep, PTL DEF Spec
=============================================================================
