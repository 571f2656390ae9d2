------------------------------ MODULE Release ------------------------------
(***************************************************************************)
(* What a release and a tenant's settings decide, while they change: a     *)
(* build brings migrations, email templates and question sets, a tenant    *)
(* its wording and its calendar.  Builds are rolled out one process at a   *)
(* time, so a row one build accepted is read by another, and one call of   *)
(* the workbench is served by the old build and the next by the new.       *)
(*                                                                         *)
(* A scene says what happens in a behaviour, so that one question's state  *)
(* space is not multiplied by another's.                                   *)
(***************************************************************************)
EXTENDS Migrations, NoticeTemplates, TenantCalendar, Intake

CONSTANTS
  Scenes,
  Newest     \* the newest build

ASSUME ReleaseAssumption ==
  /\ Newest \in Builds /\ Loads(Newest)
  /\ DOMAIN Base = Builds /\ DOMAIN Sets = Builds

VARIABLE scene

vars == <<scene, migrationVars, wordingVars, calendarVars, intakeVars>>

\* All migrations of the newest build are applied, except where migrating is the question.
Migrated == [v \in {f.version : f \in Files[Newest]} |-> (CHOOSE f \in Files[Newest] : f.version = v).sum]

Init ==
  /\ scene \in Scenes
  /\ applied = IF scene = "migrate" THEN NoRows ELSE Migrated
  /\ effects = {[version |-> v, on |-> {w \in DOMAIN applied : w < v}] : v \in DOMAIN applied}
  /\ lock = NoOne
  /\ migrator = [p \in Migrators |-> At("idle", Newest, NoRows, 0, "none")]
  /\ serving = [r \in Replicas |-> NoOne]
  /\ faults = 0
  /\ row = <<>> /\ composer = <<>> /\ sent = <<>> /\ today = 1
  /\ calendar \in IF scene = "calendar" THEN Calendars ELSE {CHOOSE c \in Calendars : TRUE}
  /\ clock = <<>>
  /\ questionnaire = <<>> /\ stage = "investigating" /\ appeals = 0 /\ page = <<>> /\ form = <<>>
  /\ asking = [n \in Replies |-> NotAsked]
  /\ profile \in IF scene = "score" THEN Profiles ELSE {CHOOSE p \in Profiles : TRUE}

-----------------------------------------------------------------------------

Served == {serving[r] : r \in Replicas} \ {NoOne}

RollOut ==
  /\ \E r \in Replicas : (\E b \in Builds : Run(r, b)) \/ Shutdown(r)
  /\ UNCHANGED <<wordingVars, calendarVars, intakeVars>>

Migrating ==
  /\ \E p \in Migrators : \/ \E b \in Builds : Migrate(p, b)
                          \/ Command(p)
                          \/ Lose(p)
  /\ UNCHANGED <<wordingVars, calendarVars, intakeVars>>

Wording ==
  /\ \/ \E b \in Served : \/ \E o \in Overrides : PutTemplateSetting(b, o)
                          \/ ListEmailTemplates(b)
                          \/ \E inputs \in Forms : ComposeEmail(b, inputs)
     \/ Served # {} /\ DeleteTemplateSetting
     \/ NextDay
  /\ UNCHANGED <<migrationVars, calendarVars, intakeVars>>

Counting ==
  /\ \/ \E c \in Calendars : SetCalendar(c)
     \/ \E start \in Starts, c \in Clocks : OpenClock(start, c)
  /\ UNCHANGED <<migrationVars, wordingVars, intakeVars>>

Asking ==
  /\ \/ \E b \in Served : \/ SendQuestionnaire(b)
                          \/ \E n \in Replies : SuggestQuestionnaireAnswers(n, b)
     \/ Served # {} /\ (ReceiveQuestionnaire \/ CloseDispute \/ Appeal \/ refreshDispute)
     \/ \E n \in Replies : ReadReply(n) \/ Proposed(n)
     \/ OpenPanel \/ LeavePanel
     \/ page # <<>> /\ \E id \in DOMAIN page[1].questions : \E v \in WellFormed["TEXT"] : Choose(id, v)
  /\ UNCHANGED <<migrationVars, wordingVars, calendarVars>>

Scoring ==
  /\ \E fact \in DOMAIN Facts : \E v \in Facts[fact] : Assess(fact, v)
  /\ UNCHANGED <<migrationVars, wordingVars, calendarVars>>

Next ==
  /\ \/ scene = "migrate" /\ (Migrating \/ RollOut)
     \/ scene = "wording" /\ (Wording \/ RollOut)
     \/ scene = "answers" /\ (Asking \/ RollOut)
     \/ scene = "calendar" /\ Counting
     \/ scene = "score" /\ Scoring
  /\ UNCHANGED scene

\* A migrate command's statements go on unless its connection is lost, and Postgres
\* hands the advisory lock to the sessions that wait for it.
Progress(p) == scene = "migrate" /\ Command(p)
               /\ UNCHANGED <<scene, wordingVars, calendarVars, intakeVars>>
Locking(p) == scene = "migrate" /\ AdvisoryLock(p)
              /\ UNCHANGED <<scene, wordingVars, calendarVars, intakeVars>>

Fairness == \A p \in Migrators : WF_vars(Progress(p)) /\ SF_vars(Locking(p))

Spec == Init /\ [][Next]_vars /\ Fairness
=============================================================================
