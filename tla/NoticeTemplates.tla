-------------------------- MODULE NoticeTemplates --------------------------
(***************************************************************************)
(* The words of the emails analysts send.  A build carries a template per  *)
(* kind; a tenant may reword it; the workbench previews the email in the   *)
(* browser while the analyst fills the form, and the server composes what  *)
(* is sent.  The substitution language has two implementations that must   *)
(* agree: notice.Fill in Go, lib/email/render.ts in the browser.           *)
(*                                                                         *)
(* A line of wording is a sequence of tokens: literal words, {{id}},       *)
(* {{#id}} and {{/id}}.  An input or a value is the sequence of its lines  *)
(* (or chosen option keys), empty when nothing was given.  One kind of     *)
(* email and one tenant: templates of different kinds and tenants share    *)
(* nothing.  Of the facts of a dispute only today's date changes while an  *)
(* email is written: nothing the program does changes the others.          *)
(***************************************************************************)
EXTENDS Integers, Sequences, FiniteSets, SequencesExt

CONSTANTS
  Base,         \* the template each build carries
  Overrides,    \* wordings tenants try to store
  Forms,        \* what analysts type: field -> input
  TooLong,      \* a line longer than a text field takes
  DateText,     \* day -> the date as a customer reads it
  MaxDay       \* bound on the days that pass

VARIABLES
  row,          \* the tenant_templates row: <<>> or <<override>>
  composer,     \* what an analyst has open: <<>> or <<[shown, wording, day]>>
  sent,         \* the email composed from it, with what was previewed: <<>> or <<email>>
  today

wordingVars == <<row, composer, sent, today>>

-----------------------------------------------------------------------------
(* Wording *)

Token == [k : {"lit", "ph", "open", "close"}, id : STRING]
Line == Seq(Token)
Input == Seq(STRING)

\* What is known of wordings and inputs before they are checked: what they are made of.
ASSUME WordingAssumption ==
  /\ \A b \in DOMAIN Base :
       /\ DOMAIN Base[b] = {"fields", "subject", "paragraphs"}
       /\ Base[b].subject \in Line /\ Base[b].paragraphs \in Seq(Line)
       /\ \A f \in DOMAIN Base[b].fields :
            /\ DOMAIN Base[b].fields[f] = {"type", "required", "default", "options", "range"}
            /\ Base[b].fields[f].default \in Input
  /\ \A o \in Overrides : o.subject \in Line /\ o.paragraphs \in Seq(Line)
  /\ \A inputs \in Forms : \A f \in DOMAIN inputs : inputs[f] \in Input

Lit(w) == [k |-> "lit", id |-> w]
Ph(f) == [k |-> "ph", id |-> f]
Open(f) == [k |-> "open", id |-> f]
Close(f) == [k |-> "close", id |-> f]

NoText == ""

factNames == {"customer", "bank", "amount", "merchant", "dispute", "today", "dueDate"}

\* The facts of the dispute at hand, on the day they are read; dueDate is known once the
\* form says how many days.
Fact(day, f) == IF f = "today" THEN DateText[day] ELSE f

factMap(day) == [f \in factNames |-> IF f = "dueDate" THEN <<>> ELSE <<Fact(day, f)>>]

Lines(t) == {t.subject} \cup ToSet(t.paragraphs)

Names(t) == UNION {{line[i].id : i \in {j \in DOMAIN line : line[j].k # "lit"}} : line \in Lines(t)}

checkTemplate(t) ==
  /\ t.subject # <<>> /\ t.paragraphs # <<>>
  /\ \A f \in DOMAIN t.fields :
       /\ f \notin factNames
       /\ t.fields[f].type = "MULTISELECT" => DOMAIN t.fields[f].options # {}
       /\ \A key \in DOMAIN t.fields[f].options : t.fields[f].options[key] # NoText
  /\ Names(t) \subseteq DOMAIN t.fields \cup factNames

\* Every shipped template passes the check the program makes when it starts.
ASSUME BaseAssumption == \A b \in DOMAIN Base : checkTemplate(Base[b])

\* The shipped forms ask for the days to reply in as a number, of one at least.
ASSUME DaysAssumption ==
  \A b \in DOMAIN Base : "days" \in DOMAIN Base[b].fields =>
    /\ Base[b].fields["days"].type = "NUMBER"
    /\ Base[b].fields["days"].range \subseteq Nat \ {0}

\* An override: a subject, paragraphs (empty leaves the base's) and texts for options,
\* given as the triples field, key, text.
Laid(base, o) ==
  [base EXCEPT
    !.subject = IF o.subject = <<>> THEN @ ELSE o.subject,
    !.paragraphs = IF o.paragraphs = <<>> THEN @ ELSE o.paragraphs,
    !.fields = [f \in DOMAIN @ |-> [@[f] EXCEPT !.options =
      [key \in DOMAIN @ |-> IF \E x \in o.texts : x[1] = f /\ x[2] = key
                            THEN (CHOOSE x \in o.texts : x[1] = f /\ x[2] = key)[3]
                            ELSE @[key]]]]]

Applies(base, o) ==
  /\ \A x \in o.texts : /\ x[1] \in DOMAIN base.fields
                        /\ x[2] \in DOMAIN base.fields[x[1]].options
                        /\ x[3] # NoText
  /\ checkTemplate(Laid(base, o))

\* Fault: a stored wording that no longer fits is used as it is.
applyStored_Fault(base) == IF row = <<>> THEN base ELSE Laid(base, row[1])

\* A stored wording that no longer fits the build's form gives way to the build's own.
applyStored(base) ==
  IF row # <<>> /\ Applies(base, row[1]) THEN Laid(base, row[1]) ELSE base

-----------------------------------------------------------------------------
(* The form *)

\* What the customer reads for an input: the texts of the chosen options, a number
\* without its leading zeros, the lines of a text.  Refused inputs have none.
Atoi == [n \in {"10", "010", "5", "0"} |-> CASE n = "5" -> 5 [] n = "0" -> 0 [] OTHER -> 10]
Itoa == [n \in {10, 5, 0} |-> CASE n = 5 -> "5" [] n = 0 -> "0" [] OTHER -> "10"]

optionText(field, key) == field.options[key]

displayable(field, raw) ==
  CASE field.type = "MULTISELECT" -> ToSet(raw) \subseteq DOMAIN field.options
    [] field.type = "NUMBER"      -> \A n \in ToSet(raw) : n \in DOMAIN Atoi /\ Atoi[n] \in field.range
    [] OTHER                      -> TooLong \notin ToSet(raw)

displayValue(field, raw) ==
  [i \in DOMAIN raw |->
    CASE field.type = "MULTISELECT" -> optionText(field, raw[i])
      [] field.type = "NUMBER"      -> Itoa[Atoi[raw[i]]]
      [] OTHER                      -> raw[i]]

Given(t, inputs) ==
  [f \in DOMAIN t.fields |->
    IF f \in DOMAIN inputs /\ inputs[f] # <<>> THEN inputs[f] ELSE t.fields[f].default]

Valid(t, inputs) ==
  /\ DOMAIN inputs \subseteq DOMAIN t.fields
  /\ \A f \in DOMAIN t.fields :
       IF Given(t, inputs)[f] = <<>> THEN ~t.fields[f].required
                                     ELSE displayable(t.fields[f], Given(t, inputs)[f])

Validate(t, inputs) ==
  [f \in DOMAIN t.fields |-> displayValue(t.fields[f], Given(t, inputs)[f])]

-----------------------------------------------------------------------------
(* Substitution, as the server does it *)

\* The days from the day the email is composed on, if they are a number.
DueDate(day, days) ==
  IF Len(days) = 1 /\ days[1] \in DOMAIN Atoi THEN <<DateText[day + Atoi[days[1]]]>> ELSE <<>>

Listy(t) == {f \in DOMAIN t.fields : t.fields[f].type \in {"MULTISELECT", "LIST"}}

\* The value of a name, empty when there is none.
Value(values, id) == IF id \in DOMAIN values THEN values[id] ELSE <<>>

Words(v) == [i \in DOMAIN v |-> Lit(v[i])]

Bullets(v) == FlattenSeq([i \in DOMAIN v |-> <<Lit("-"), Lit(v[i])>>])

\* Both halves match a section from its opening to the nearest closing tag, whatever
\* that one names, and do not look for sections inside it.  A position is inside a
\* section if tags opened before it are still pending and one closes at or after it: the
\* first of them is the section's.  What no tag closes stays as it is.
Pending(line, i) == {j \in 1 .. i - 1 : line[j].k = "open" /\ \A l \in j + 1 .. i - 1 : line[l].k # "close"}
Stays(line, values, i) ==
  \/ \A j \in i .. Len(line) : line[j].k # "close"
  \/ Pending(line, i) = {} /\ line[i].k # "open"
  \/ /\ Pending(line, i) # {} /\ line[i].k # "close"
     /\ Value(values, line[Min(Pending(line, i))].id) # <<>>
Sections(line, values) ==
  FlattenSeq([i \in DOMAIN line |-> IF Stays(line, values, i) THEN <<line[i]>> ELSE <<>>])

\* What is left of a list without these.
Without(list, S) == FlattenSeq([i \in DOMAIN list |-> IF list[i] \in S THEN <<>> ELSE <<list[i]>>])

\* Fault: a paragraph that is only a list is written as running text.
substitute_Fault(line, values, listy) ==
  LET s == Sections(line, values)
  IN FlattenSeq([i \in DOMAIN s |->
       IF s[i].k = "lit" THEN <<s[i]>> ELSE Words(Value(values, s[i].id))])

\* Sections, then a line that is only a list as bullets, then every tag that is left,
\* the ones of unclosed sections too, by the value it names.
substitute(line, values, listy) ==
  LET s == Sections(line, values)
  IN IF Len(s) = 1 /\ s[1].k # "lit" /\ s[1].id \in listy
     THEN Bullets(Value(values, s[1].id))
     ELSE FlattenSeq([i \in DOMAIN s |->
            IF s[i].k = "lit" THEN <<s[i]>> ELSE Words(Value(values, s[i].id))])

Fill(t, day, values) ==
  LET all == [id \in DOMAIN values \cup factNames |->
                IF id \in DOMAIN values THEN values[id]
                ELSE IF id = "dueDate" THEN DueDate(day, Value(values, "days"))
                ELSE factMap(day)[id]]
      filled == [i \in DOMAIN t.paragraphs |-> substitute(t.paragraphs[i], all, Listy(t))]
  IN [subject |-> substitute(t.subject, all, {}), paragraphs |-> Without(filled, {<<>>})]

-----------------------------------------------------------------------------
(* Substitution, as the browser does it *)

\* The server fills the facts but not dueDate, and leaves every section to the browser.
substituteFacts(line, day) ==
  FlattenSeq([i \in DOMAIN line |->
    IF line[i].k = "ph" /\ line[i].id \in factNames \ {"dueDate"}
    THEN Words(factMap(day)[line[i].id]) ELSE <<line[i]>>])

Placeholders(t, day) ==
  [t EXCEPT !.subject = substituteFacts(@, day),
            !.paragraphs = [i \in DOMAIN @ |-> substituteFacts(@[i], day)]]

\* The days from the day the wording was handed out on, if they are a number above zero.
daysToReply(day, days) ==
  IF Len(days) = 1 /\ days[1] \in DOMAIN Atoi /\ Atoi[days[1]] > 0
  THEN <<DateText[day + Atoi[days[1]]]>> ELSE <<>>

\* A number is shown as it was typed; an unknown option as nothing.
customerFacingFieldValues(t, inputs, day) ==
  LET given == Given(t, inputs)
      shown == [f \in DOMAIN t.fields |->
        IF t.fields[f].type = "MULTISELECT"
        THEN FlattenSeq([i \in DOMAIN given[f] |->
               IF given[f][i] \in DOMAIN t.fields[f].options THEN <<optionText(t.fields[f], given[f][i])>> ELSE <<>>])
        ELSE given[f]]
  IN [id \in DOMAIN t.fields \cup {"dueDate"} |-> IF id = "dueDate" THEN daysToReply(day, Value(shown, "days")) ELSE shown[id]]

\* What is unfilled stays as a marked placeholder; tags of sections are not placeholders here.
fillEmailLine(line, values, listy) ==
  LET s == Sections(line, values)
  IN IF Len(s) = 1 /\ s[1].k = "ph" /\ s[1].id \in listy /\ Value(values, s[1].id) # <<>>
     THEN Bullets(Value(values, s[1].id))
     ELSE FlattenSeq([i \in DOMAIN s |->
            IF s[i].k = "ph" /\ Value(values, s[i].id) # <<>>
            THEN Words(Value(values, s[i].id)) ELSE <<s[i]>>])

renderEmailPreview(t, inputs, day) ==
  LET values == customerFacingFieldValues(t, inputs, day)
      filled == [i \in DOMAIN t.paragraphs |-> fillEmailLine(t.paragraphs[i], values, Listy(t))]
  IN [subject |-> fillEmailLine(t.subject, values, Listy(t)), paragraphs |-> Without(filled, {<<>>})]

-----------------------------------------------------------------------------
(* Operations, each served by a process of build b *)

PutTemplateSetting(b, o) ==
  /\ Applies(Base[b], o)
  /\ row' = <<o>>
  /\ UNCHANGED <<composer, sent, today>>

DeleteTemplateSetting ==
  /\ row # <<>>
  /\ row' = <<>>
  /\ UNCHANGED <<composer, sent, today>>

ListEmailTemplates(b) ==
  /\ composer' = <<[shown |-> Placeholders(applyStored(Base[b]), today), wording |-> applyStored(Base[b]),
                    day |-> today]>>
  /\ sent' = <<>>
  /\ UNCHANGED <<row, today>>

\* The wording and the facts are read again in the transaction that stores the email.
ComposeEmail(b, inputs) ==
  LET tpl == applyStored(Base[b])
  IN /\ composer # <<>>
     /\ Valid(tpl, inputs)
     /\ sent' = <<[document |-> Fill(tpl, today, Validate(tpl, inputs)),
                   wording |-> tpl, inputs |-> inputs, day |-> today,
                   preview |-> renderEmailPreview(composer[1].shown, inputs, composer[1].day),
                   previewed |-> composer[1].wording, previewedOn |-> composer[1].day]>>
     /\ composer' = <<>>
     /\ UNCHANGED <<row, today>>

NextDay ==
  /\ today < MaxDay
  /\ today' = today + 1
  /\ UNCHANGED <<row, composer, sent>>

-----------------------------------------------------------------------------
(* Properties *)

\* A customer is never sent words made for another form: every name in the wording of
\* a sent email is a field of that form or a fact, although the wording was accepted by
\* one build and is used by another.
SentFitsItsForm ==
  sent # <<>> => Names(sent[1].wording) \subseteq DOMAIN sent[1].wording.fields \cup factNames

\* Wordings on which the two halves are meant to agree: sections are closed before the
\* next one opens and depend on fields or on the due date, and no list is named in a
\* subject.  (On others they differ: see the README.)
Between(line, i, j) == {l \in i + 1 .. j - 1 : line[l].k \in {"open", "close"}}
Tidy(line) ==
  /\ \A i \in DOMAIN line : line[i].k = "open" =>
       \E j \in i + 1 .. Len(line) : line[j].k = "close" /\ Between(line, i, j) = {}
  /\ \A j \in DOMAIN line : line[j].k = "close" =>
       \E i \in 1 .. j - 1 : line[i].k = "open" /\ Between(line, i, j) = {}
Plain(t) ==
  /\ \A line \in Lines(t) :
       /\ Tidy(line)
       /\ \A i \in DOMAIN line : line[i].k = "open" => line[i].id \in DOMAIN t.fields \cup {"dueDate"}
  /\ \A i \in DOMAIN t.subject : t.subject[i].k = "ph" => t.subject[i].id \notin Listy(t)

\* Numbers the browser shows as they were typed and the server as they are written.
LeadingZeros(t, inputs) ==
  \E f \in DOMAIN t.fields : t.fields[f].type = "NUMBER" /\ "010" \in ToSet(Given(t, inputs)[f])

Marks == [k : {"ph"}, id : STRING]
WithoutMarks(line) == Without(line, Marks)
Unmarked(mail) ==
  [subject |-> WithoutMarks(mail.subject),
   paragraphs |-> Without([i \in DOMAIN mail.paragraphs |-> WithoutMarks(mail.paragraphs[i])], {<<>>})]

SentAsPreviewed(mail) ==
  \/ mail.wording # mail.previewed
  \/ ~Plain(mail.wording)
  \/ LeadingZeros(mail.wording, mail.inputs)
  \/ mail.document = Unmarked(mail.preview)

\* A wording that holds a date reckoned from today's.
Dated(t) == {"today", "dueDate"} \cap Names(t) # {}

\* What the analyst saw is what the customer gets: unless the wording changed since
\* the composer was opened, or it holds a date and was opened on an earlier day, the
\* email composed by the server is the browser's preview without its marks for what was
\* left empty.
PreviewIsSent ==
  sent # <<>> => \/ Dated(sent[1].wording) /\ sent[1].day # sent[1].previewedOn
                 \/ SentAsPreviewed(sent[1])

=============================================================================
