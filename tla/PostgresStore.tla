--------------------------- MODULE PostgresStore ---------------------------
(***************************************************************************)
(* The application's store on PostgreSQL: what the service gets back from  *)
(* each call, as a function of the database and the session.  Every call   *)
(* returns [err, val, db]; val means something only when err is "ok".      *)
(* Conversions between rows and records that lose nothing are left out;    *)
(* the ones that change an answer (no rows, no rows touched, an SQLSTATE)  *)
(* are what this module is about.                                          *)
(***************************************************************************)
EXTENDS Integers, Sequences, FiniteSets

Q == INSTANCE SqlQueries

mapErr(code) ==
  CASE code = "00000" -> "ok"
    [] code \in {"23505", "40001", "40P01"} -> "conflict"
    [] code \in {"08006", "53300", "57P01"} -> "unavailable"
    [] OTHER -> "internal"

Answer(db, v) == [err |-> "ok", val |-> v, db |-> db]
Failure(db, e) == [err |-> e, val |-> 0, db |-> db]

\* A :one query: no row is not found.
One(db, rows) == IF rows = {} THEN Failure(db, "notfound") ELSE Answer(db, CHOOSE r \in rows : TRUE)

\* An :exec statement; an :execrows one whose caller returns the count; one whose caller
\* takes no row for an error.
Exec(w) == [err |-> mapErr(w.code), val |-> 0, db |-> w.db]
Counted(w) == [Exec(w) EXCEPT !.val = w.n]
Touched(w, none) == IF w.code = "00000" /\ w.n = 0 THEN Failure(w.db, none) ELSE Exec(w)

\* A loop of inserts that stops at the first error.
Each(db, rows, Insert(_, _)) ==
  LET after[n \in 0 .. Len(rows)] ==
        IF n = 0 THEN Answer(db, 0)
        ELSE IF after[n - 1].err = "ok" THEN Exec(Insert(after[n - 1].db, rows[n])) ELSE after[n - 1]
  IN after[Len(rows)]

-----------------------------------------------------------------------------
(* Within a transaction *)

GetTransaction(db, s, id) == One(db, Q!GetTransaction(db, s, id))

InsertDispute(db, s, d) == Exec(Q!InsertDispute(db, s, d))

GetDispute(db, s, id) == One(db, Q!GetDispute(db, s, id))

UpdateDisputeState(db, s, id, expected, state) ==
  Touched(Q!UpdateDisputeState(db, s, id, expected, state), "conflict")

UpdateDisputeTeam(db, s, id, expected, team) ==
  Touched(Q!UpdateDisputeTeam(db, s, id, expected, team), "conflict")

AppendEvent(db, s, id, e) == Exec(Q!InsertDisputeEvent(db, s, id, e))

EventOf(e) == [seq |-> e.seq, to |-> e.to]

ListEvents(db, s, id) ==
  LET rows == Q!ListDisputeEvents(db, s, id) IN Answer(db, [i \in DOMAIN rows |-> EventOf(rows[i])])

GetIdempotent(db, s, scope, key) == 
  One(db, {[hash |-> k.hash, at |-> k.at] : k \in Q!GetIdempotencyKey(db, s, scope, key)})

PutIdempotent(db, s, scope, key, hash, now) ==
  Exec(Q!InsertIdempotencyKey(db, s, scope, key, hash, now))

\* A summary has neither version nor account.
Summary(d) == [id |-> d.id, state |-> d.state, team |-> d.team, opened |-> d.opened]

ListDisputes(db, s, q) ==
  LET rows == Q!ListDisputes(db, s, q) IN Answer(db, [i \in DOMAIN rows |-> Summary(rows[i])])

TenantCalendar(db, s) == Answer(db, Q!GetTenantCalendar(db, s))

InsertDeadlines(db, s, id, cs) == Each(db, cs, LAMBDA d, c : Q!InsertDeadline(d, s, id, c))

deadlineOf(c) == [kind |-> c.kind, cycle |-> c.cycle, due |-> c.due, end |-> c.end]

ListDeadlines(db, s, id) == Answer(db, {deadlineOf(c) : c \in Q!ListDeadlines(db, s, id)})

\* How many rows were settled is not looked at.
SettleDeadline(db, s, id, kind, cycle, met) ==
  Exec(Q!SettleDeadline(db, s, id, kind, cycle, met))

NextDeadlines(db, s, ids) == Answer(db, Q!NextDeadlines(db, s, ids))

AppendLedger(db, s, id, entries) == Each(db, entries, LAMBDA d, e : Q!InsertLedgerEntry(d, s, id, e))

EntryOf(r) == [seq |-> r.seq, kind |-> r.kind, reference |-> r.reference]

ListLedger(db, s, id) ==
  LET rows == Q!ListLedgerEntries(db, s, id) IN Answer(db, [i \in DOMAIN rows |-> EntryOf(rows[i])])

TenantCore(db, s) == Answer(db, Q!GetTenantCore(db, s))

SendQuestionnaire(db, s, id, q) == Exec(Q!UpsertQuestionnaire(db, s, id, q))

AnswerQuestionnaire(db, s, id, answer) ==
  Touched(Q!AnswerQuestionnaire(db, s, id, answer), "notfound")

GetQuestionnaire(db, s, id) == One(db, Q!GetQuestionnaire(db, s, id))

GetAccount(db, s, id) == One(db, Q!GetAccount(db, s, id))

TenantName(db, s) == Answer(db, Q!GetTenantName(s))

InsertNotice(db, s, n) ==
  LET w == Q!InsertNotice(db, s, n) IN [Exec(w) EXCEPT !.val = w.db.noticeId]

noticeOf(n) == [id |-> n.id, dispute |-> n.dispute, seq |-> n.seq, channel |-> n.channel,
                actor |-> n.actor, sent |-> n.sent, resendOf |-> n.resend_of]

ListNotices(db, s, id) ==
  LET rows == Q!ListNotices(db, s, id) IN Answer(db, [i \in DOMAIN rows |-> noticeOf(rows[i])])

GetNotice(db, s, id, notice) == One(db, {noticeOf(n) : n \in Q!GetNotice(db, s, id, notice)})

AccountHistory(db, s, account, exclude, since) ==
  Answer(db, <<Q!CountAccountDisputesSince(db, s, account, since, exclude),
               Q!CountAccountLostChargebacks(db, s, account, exclude)>>)

InsertRisk(db, s, id, r) == Exec(Q!InsertRiskAssessment(db, s, id, r))

ListRisk(db, s, id) ==
  LET rows == Q!ListRiskAssessments(db, s, id)
  IN Answer(db, [i \in DOMAIN rows |-> [seq |-> rows[i].seq, tier |-> rows[i].tier]])

LatestRisk(db, s, ids) == Answer(db, Q!LatestRiskTiers(db, s, ids))

InsertAttachment(db, s, id, f, now) == Exec(Q!InsertAttachment(db, s, id, f, now))

ClaimAttachments(db, s, id, notice, ids) == Counted(Q!ClaimAttachments(db, s, id, notice, ids))

ListAttachmentMeta(db, s, id, notices) == Answer(db, Q!ListAttachmentMeta(db, s, id, notices))

GetAttachment(db, s, id, f) == One(db, Q!GetAttachment(db, s, id, f))

TenantTemplates(db, s) == Answer(db, Q!ListTenantTemplates(db, s))

PutTenantTemplate(db, s, kind, text) == Exec(Q!UpsertTenantTemplate(db, s, kind, text))

DeleteTenantTemplate(db, s, kind) ==
  LET w == Q!DeleteTenantTemplate(db, s, kind) IN Answer(w.db, w.n > 0)

\* No row is a tenant without a logo, not an error.
GetTenantMetadata(db, s) == Answer(db, Q!GetTenantMetadata(db, s))

GetTenantLogo(db, s) == One(db, {l.image : l \in Q!GetTenantLogo(db, s)})

PutTenantLogo(db, s, image, now) == Exec(Q!PutTenantLogo(db, s, image, now))

GetAnalystAvatar(db, s, subject) == One(db, {a.image : a \in Q!GetAnalystAvatar(db, s, subject)})

PutAnalystAvatar(db, s, subject, image) == Exec(Q!PutAnalystAvatar(db, s, subject, image))

-----------------------------------------------------------------------------
(* Outside a transaction: gauges, outbox, sweeps.  They run for every tenant *)

CountByState(db) == Answer(db, Q!CountDisputesByState(db))

CountOverdue(db, now) == Answer(db, Q!CountDeadlinesOverdue(db, now))

SuspenseBalances(db) == Answer(db, Q!SuspenseByRegime(db))

\* The record of a claimed row: what the query leaves out stays empty.
claimedOf(r) == [id |-> r.id, dispute |-> r.dispute, seq |-> r.seq, channel |-> r.channel,
                 actor |-> Q!Automatic, sent |-> FALSE, resendOf |-> 0]

ClaimNotices(db, batch) ==
  LET c == Q!ClaimNotices(db, batch) IN Answer(c.db, {claimedOf(r) : r \in c.rows})

FinishNotice(db, id, failed) == Exec(Q!FinishNotice(db, id, failed))

OutboxBacklog(db) == Answer(db, Q!OutboxBacklog(db))

NoticeAttachments(db, notice) == Answer(db, {f.id : f \in Q!NoticeAttachments(db, notice)})

PurgeDraftAttachments(db, before) == Counted(Q!PurgeDraftAttachments(db, before))

\* Only one replica sweeps at a time; the others skip, which is a sweep that never was.
PurgeIdempotencyKeys(db, before) == Counted(Q!PurgeIdempotencyKeys(db, before))
=============================================================================
