---------------------------- MODULE SqlQueries ----------------------------
(***************************************************************************)
(* The generated statements of the dispute store, each over the tables it  *)
(* touches.  db is the database a transaction sees, s the session bound to *)
(* it: a tenant, and a tenant key or an analyst with teams.  Row-level     *)
(* security filters what a statement finds and refuses what it may not     *)
(* write.  A table whose rows carry an identity column is a sequence, the  *)
(* others are sets.  Rows keep the columns that keys, filters and orders   *)
(* look at, and one more where a reader tells two rows apart.              *)
(*                                                                         *)
(* A read returns rows; a write returns its SQLSTATE ("00000" for success),*)
(* the database after it and how many rows it touched.                     *)
(***************************************************************************)
EXTENDS Integers, Sequences, SequencesExt, FiniteSets

Done(db, n) == [code |-> "00000", db |-> db, n |-> n]
Refused(code, db) == [code |-> code, db |-> db, n |-> 0]

UniqueViolation == "23505"
PolicyViolation == "42501"

InTenant(s, rows) == {r \in rows : r.tenant = s.tenant}

\* in_team: a key sees its tenant, an analyst the disputes of their teams.
in_team(s, team) == s.kind = "key" \/ team \in s.teams

\* The disputes the session sees, and whether it sees this one; the policies of the
\* other tables look the dispute up and so see what it sees.
Scoped(db, s) == {d \in InTenant(s, db.disputes) : in_team(s, d.team)}
Sees(db, s, id) == \E d \in Scoped(db, s) : d.id = id

Of(db, s, rows, id) == {r \in rows : r.dispute = id /\ Sees(db, s, id)}

\* ORDER BY: the rows one after the other, each before the next.
OrderBy(rows, before(_, _)) ==
  CHOOSE list \in [1 .. Cardinality(rows) -> rows] : \A i, j \in DOMAIN list : i < j => before(list[i], list[j])

\* The rows of a numbered table at these numbers, in their order.
Ascending(numbers) == OrderBy(numbers, LAMBDA i, j : i < j)
Numbered(rows, numbers) == LET at == Ascending(numbers) IN [k \in DOMAIN at |-> rows[at[k]]]
OfSeq(db, s, rows, id) == Numbered(rows, {i \in DOMAIN rows : rows[i].dispute = id /\ Sees(db, s, id)})

-----------------------------------------------------------------------------
(* Accounts, transactions, disputes and their log *)

GetTransaction(db, s, id) == {t \in InTenant(s, db.transactions) : t.id = id}

GetAccount(db, s, id) == {a \in InTenant(s, db.accounts) : a.id = id}

InsertDispute(db, s, d) ==
  IF \E r \in db.disputes : r.id = d.id THEN Refused(UniqueViolation, db)
  ELSE IF ~in_team(s, d.team) THEN Refused(PolicyViolation, db)
  ELSE Done([db EXCEPT !.disputes = @ \cup {[d EXCEPT !.tenant = s.tenant]}], 1)

GetDispute(db, s, id) == {d \in Scoped(db, s) : d.id = id}

\* The rows at the expected version, each replaced by new(row).
Replace(db, rows, new(_)) ==
  Done([db EXCEPT !.disputes = (@ \ rows) \cup {new(r) : r \in rows}], Cardinality(rows))

UpdateDisputeState(db, s, id, expected, state) ==
  Replace(db, {d \in GetDispute(db, s, id) : d.version = expected},
          LAMBDA d : [d EXCEPT !.state = state, !.version = @ + 1])

\* reassign_dispute runs as the owner: the new team need not be one of the caller's.
UpdateDisputeTeam_Fault(db, s, id, expected, team) ==
  Replace(db, {d \in InTenant(s, db.disputes) : d.version = expected},
          LAMBDA d : [d EXCEPT !.team = team, !.version = @ + 1])
UpdateDisputeTeam(db, s, id, expected, team) ==
  Replace(db, {d \in GetDispute(db, s, id) : d.version = expected},
          LAMBDA d : [d EXCEPT !.team = team, !.version = @ + 1])

InsertDisputeEvent(db, s, id, e) ==
  IF ~Sees(db, s, id) THEN Refused(PolicyViolation, db)
  ELSE IF \E r \in db.events : r.dispute = id /\ r.seq = e.seq THEN Refused(UniqueViolation, db)
  ELSE Done([db EXCEPT !.events = @ \cup {[dispute |-> id, seq |-> e.seq, to |-> e.to]}], 1)

BySeq(rows) == OrderBy(rows, LAMBDA a, b : a.seq < b.seq)

ListDisputeEvents(db, s, id) == BySeq(Of(db, s, db.events, id))

CountAccountDisputesSince(db, s, account, since, exclude) ==
  Cardinality({d \in Scoped(db, s) : d.account = account /\ d.opened >= since /\ d.id # exclude})

CountAccountLostChargebacks(db, s, account, exclude) ==
  Cardinality({d \in Scoped(db, s) :
    /\ d.account = account /\ d.id # exclude
    /\ \E e \in Of(db, s, db.events, d.id) : e.to = "CHARGEBACK_LOST"})

\* Keyset order: newest first, ties by id.
Newer(a, b) == a.opened > b.opened \/ (a.opened = b.opened /\ a.id > b.id)
NewestFirst(rows) == OrderBy(rows, Newer)

Open(c) == c.end = "open"

Overdue(clocks, id, now) == \E c \in clocks : c.dispute = id /\ Open(c) /\ c.due < now

\* q: a state or "any", whether only overdue, the cursor as a set of at most one, a limit.
ListDisputes(db, s, q) ==
  LET rows == {d \in Scoped(db, s) :
                 /\ q.state \in {"any", d.state}
                 /\ q.overdue => Overdue(db.deadlines, d.id, q.now)
                 /\ \A c \in q.after : Newer(c, d)}
      sorted == NewestFirst(rows)
  IN SubSeq(sorted, 1, IF Len(sorted) < q.limit THEN Len(sorted) ELSE q.limit)

\* The gauges' views run with their owner's rights: every tenant, no team.
CountDisputesByState(db) ==
  {[tenant |-> d.tenant, state |-> d.state,
    n |-> Cardinality({o \in db.disputes : o.tenant = d.tenant /\ o.state = d.state})] :
     d \in db.disputes}

-----------------------------------------------------------------------------
(* Idempotency keys *)

GetIdempotencyKey(db, s, scope, key) ==
  {k \in InTenant(s, db.keys) : k.scope = scope /\ k.key = key}

InsertIdempotencyKey(db, s, scope, key, hash, now) ==
  IF GetIdempotencyKey(db, s, scope, key) # {} THEN Refused(UniqueViolation, db)
  ELSE Done([db EXCEPT !.keys = @ \cup
         {[tenant |-> s.tenant, scope |-> scope, key |-> key, hash |-> hash, at |-> now]}], 1)

PurgeIdempotencyKeys(db, before) ==
  LET old == {k \in db.keys : k.at < before}
  IN Done([db EXCEPT !.keys = @ \ old], Cardinality(old))

-----------------------------------------------------------------------------
(* Clocks, ledger, risk *)

InsertDeadline(db, s, id, c) ==
  IF ~Sees(db, s, id) THEN Refused(PolicyViolation, db)
  ELSE IF \E r \in db.deadlines : r.dispute = id /\ r.kind = c.kind /\ r.cycle = c.cycle
       THEN Refused(UniqueViolation, db)
  ELSE Done([db EXCEPT !.deadlines = @ \cup
         {[dispute |-> id, kind |-> c.kind, cycle |-> c.cycle, due |-> c.due, end |-> "open"]}], 1)

\* ORDER BY cycle, started_at, kind: no caller depends on it, and the fake has its own.
ListDeadlines(db, s, id) == Of(db, s, db.deadlines, id)

SettleDeadline(db, s, id, kind, cycle, met) ==
  LET rows == {c \in Of(db, s, db.deadlines, id) : c.kind = kind /\ c.cycle = cycle /\ Open(c)}
  IN Done([db EXCEPT !.deadlines = (@ \ rows) \cup
            {[c EXCEPT !.end = IF met THEN "met" ELSE "void"] : c \in rows}], Cardinality(rows))

\* The due time of the first open clock of each dispute that has one.
NextDeadlines(db, s, ids) ==
  LET open(id) == {c \in Of(db, s, db.deadlines, id) : Open(c)}
  IN [id \in {i \in ids : open(i) # {}} |->
        Min({c.due : c \in open(id)})]

CountDeadlinesOverdue(db, now) ==
  LET late == {c \in db.deadlines : Open(c) /\ c.due < now}
      tenant(c) == (CHOOSE d \in db.disputes : d.id = c.dispute).tenant
  IN {[tenant |-> tenant(c), kind |-> c.kind,
       n |-> Cardinality({o \in late : tenant(o) = tenant(c) /\ o.kind = c.kind})] : c \in late}

InsertLedgerEntry(db, s, id, e) ==
  IF ~Sees(db, s, id) THEN Refused(PolicyViolation, db)
  ELSE IF \E r \in Range(db.ledger) :
            \/ (r.dispute = id /\ r.seq = e.seq /\ r.kind = e.kind)
            \/ (r.tenant = s.tenant /\ r.reference = e.reference)
       THEN Refused(UniqueViolation, db)
  ELSE Done([db EXCEPT !.ledger = Append(@,
         [dispute |-> id, tenant |-> s.tenant, seq |-> e.seq, kind |-> e.kind, reference |-> e.reference])], 1)

ListLedgerEntries(db, s, id) == OfSeq(db, s, db.ledger, id)

\* Per tenant: debits to suspense less credits to it, every amount being one.
SuspenseByRegime(db) ==
  LET of(t, kind) == Cardinality({i \in DOMAIN db.ledger : db.ledger[i].tenant = t /\ db.ledger[i].kind = kind})
  IN [t \in {e.tenant : e \in Range(db.ledger)} |-> of(t, "advance") - of(t, "clear")]

InsertRiskAssessment(db, s, id, r) ==
  IF ~Sees(db, s, id) THEN Refused(PolicyViolation, db)
  ELSE IF \E o \in Range(db.risk) : o.dispute = id /\ o.seq = r.seq THEN Refused(UniqueViolation, db)
  ELSE Done([db EXCEPT !.risk = Append(@, [dispute |-> id, seq |-> r.seq, tier |-> r.tier])], 1)

ListRiskAssessments(db, s, id) == OfSeq(db, s, db.risk, id)

LatestRiskTiers(db, s, ids) ==
  [id \in {i \in ids : ListRiskAssessments(db, s, i) # <<>>} |->
     Last(ListRiskAssessments(db, s, id)).tier]

-----------------------------------------------------------------------------
(* Questionnaires, notices, attachments *)

UpsertQuestionnaire(db, s, id, q) ==
  IF ~Sees(db, s, id) THEN Refused(PolicyViolation, db)
  ELSE Done([db EXCEPT !.questionnaires =
         {r \in @ : r.dispute # id} \cup {[dispute |-> id, asked |-> q, answers |-> {}]}], 1)

GetQuestionnaire(db, s, id) == Of(db, s, db.questionnaires, id)

AnswerQuestionnaire(db, s, id, answer) ==
  LET rows == {r \in GetQuestionnaire(db, s, id) : r.answers = {}}
  IN Done([db EXCEPT !.questionnaires =
       (@ \ rows) \cup {[r EXCEPT !.answers = {answer}] : r \in rows}], Cardinality(rows))

Automatic == ""  \* no actor

\* An automatic notice goes once per event, kind and channel; a composed one has an actor.
\* The identity column has moved on even when the insert is refused.
InsertNotice(db, s, n) ==
  LET next == [db EXCEPT !.noticeId = @ + 1]
      row == [id |-> db.noticeId + 1, tenant |-> s.tenant, dispute |-> n.dispute, seq |-> n.seq,
              channel |-> n.channel, actor |-> n.actor, sent |-> n.sent, resend_of |-> n.resendOf]
  IN IF ~Sees(db, s, n.dispute) THEN Refused(PolicyViolation, next)
     ELSE IF n.actor = Automatic /\ \E r \in Range(db.notices) :
               r.actor = Automatic /\ <<r.dispute, r.seq, r.channel>> = <<n.dispute, n.seq, n.channel>>
          THEN Refused(UniqueViolation, next)
     ELSE Done([next EXCEPT !.notices = Append(@, row)], 1)

ListNotices(db, s, id) == OfSeq(db, s, db.notices, id)

GetNotice(db, s, id, notice) == {n \in Range(ListNotices(db, s, id)) : n.id = notice}

Unsent(db) == {i \in DOMAIN db.notices : ~db.notices[i].sent /\ db.notices[i].channel = "EMAIL"}

\* claim_notices: of the unsent emails those whose back-off has passed, at most a batch;
\* actor and resend_of are not among the columns it is asked for.
ClaimNotices(db, batch) ==
  LET due == Numbered(db.notices, {i \in Unsent(db) : db.notices[i].id \notin db.leased})
      taken == SubSeq(due, 1, IF Len(due) < batch THEN Len(due) ELSE batch)
      ids == {n.id : n \in Range(taken)}
      columns(n) == [id |-> n.id, tenant |-> n.tenant, dispute |-> n.dispute, seq |-> n.seq, channel |-> n.channel]
  IN [rows |-> {columns(n) : n \in Range(taken)}, db |-> [db EXCEPT !.leased = @ \cup ids]]

OutboxBacklog(db) == Cardinality(Unsent(db))

FinishNotice(db, id, failed) ==
  Done([db EXCEPT !.notices =
    [i \in DOMAIN @ |-> IF @[i].id = id /\ ~failed THEN [@[i] EXCEPT !.sent = TRUE] ELSE @[i]]], 1)

InsertAttachment(db, s, id, f, now) ==
  IF ~Sees(db, s, id) THEN Refused(PolicyViolation, db)
  ELSE IF \E r \in db.files : r.id = f THEN Refused(UniqueViolation, db)
  ELSE Done([db EXCEPT !.files = @ \cup {[id |-> f, dispute |-> id, notice |-> 0, at |-> now]}], 1)

ClaimAttachments(db, s, id, notice, ids) ==
  LET rows == {f \in Of(db, s, db.files, id) : f.notice = 0 /\ f.id \in ids}
  IN Done([db EXCEPT !.files = (@ \ rows) \cup {[f EXCEPT !.notice = notice] : f \in rows}],
          Cardinality(rows))

ListAttachmentMeta(db, s, id, notices) ==
  {f \in Of(db, s, db.files, id) : f.notice \in notices \cup {0}}

GetAttachment(db, s, id, f) == {r \in Of(db, s, db.files, id) : r.id = f}

NoticeAttachments(db, notice) == {f \in db.files : f.notice = notice}

PurgeDraftAttachments(db, before) ==
  LET old == {f \in db.files : f.notice = 0 /\ f.at < before}
  IN Done([db EXCEPT !.files = @ \ old], Cardinality(old))

-----------------------------------------------------------------------------
(* What a tenant keeps of its own: wording, images, settings *)

ListTenantTemplates(db, s) == InTenant(s, db.templates)

UpsertTenantTemplate(db, s, kind, text) ==
  Done([db EXCEPT !.templates = {t \in @ : ~(t.tenant = s.tenant /\ t.kind = kind)} \cup
          {[tenant |-> s.tenant, kind |-> kind, text |-> text]}], 1)

DeleteTenantTemplate(db, s, kind) ==
  LET rows == {t \in InTenant(s, db.templates) : t.kind = kind}
  IN Done([db EXCEPT !.templates = @ \ rows], Cardinality(rows))

GetTenantLogo(db, s) == InTenant(s, db.logos)

GetTenantMetadata(db, s) == {[at |-> l.at] : l \in InTenant(s, db.logos)}

PutTenantLogo(db, s, image, now) ==
  Done([db EXCEPT !.logos = (@ \ InTenant(s, @)) \cup
          {[tenant |-> s.tenant, image |-> image, at |-> now]}], 1)

GetAnalystAvatar(db, s, subject) == {a \in InTenant(s, db.avatars) : a.subject = subject}

PutAnalystAvatar(db, s, subject, image) ==
  Done([db EXCEPT !.avatars = (@ \ GetAnalystAvatar(db, s, subject)) \cup
          {[tenant |-> s.tenant, subject |-> subject, image |-> image]}], 1)

GetTenantCalendar(db, s) == db.settings[s.tenant].calendar

GetTenantCore(db, s) == db.settings[s.tenant].core

GetTenantName(s) == s.tenant
=============================================================================
