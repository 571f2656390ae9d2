------------------------------ MODULE MemStore ------------------------------
(***************************************************************************)
(* The in-memory store the unit tests run the service on.  A Go map of     *)
(* records is a function on the ids present; a map of slices is a function *)
(* on all ids, nil being the empty sequence.  Calls answer [err, val, db]  *)
(* as in PostgresStore.                                                    *)
(***************************************************************************)
EXTENDS Integers, Sequences, FiniteSets, FiniteSetsExt

Answer(db, v) == [err |-> "ok", val |-> v, db |-> db]
Failure(db, e) == [err |-> e, val |-> 0, db |-> db]

\* m[k] = v on a Go map.
Put(m, k, v) == [x \in DOMAIN m \cup {k} |-> IF x = k THEN v ELSE m[x]]
Without(m, ks) == [x \in DOMAIN m \ ks |-> m[x]]
Lookup(db, m, k) == IF k \in DOMAIN m THEN Answer(db, m[k]) ELSE Failure(db, "notfound")
Elements(f) == {f[i] : i \in DOMAIN f}

\* The elements of a slice at these places, appended one after the other.
Kept(slice, places) ==
  LET at == CHOOSE list \in [1 .. Cardinality(places) -> places] : \A i, j \in DOMAIN list : i < j => list[i] < list[j]
  IN [k \in DOMAIN at |-> slice[at[k]]]

NewMemStore(ids, tenants) ==
  [transactions |-> <<>>, accounts |-> <<>>, disputes |-> <<>>, questions |-> <<>>,
   files |-> <<>>, idempotent |-> <<>>, logos |-> <<>>, logoAt |-> <<>>, avatars |-> <<>>,
   calendars |-> <<>>, cores |-> <<>>, names |-> <<>>,
   events |-> [i \in ids |-> <<>>], deadlines |-> [i \in ids |-> <<>>],
   ledger |-> [i \in ids |-> <<>>], risk |-> [i \in ids |-> <<>>],
   templates |-> [t \in tenants |-> <<>>], notices |-> <<>>, nextNotice |-> 0]

AddTransactionFor(db, t, id, account) ==
  [db EXCEPT !.accounts = Put(@, account, [id |-> account, tenant |-> t]),
             !.transactions = Put(@, id, [id |-> id, tenant |-> t, account |-> account])]

\* What WithTx copies before the function runs and puts back when it fails.
snapshot(db) ==
  [disputes |-> db.disputes, events |-> db.events, idempotent |-> db.idempotent,
   deadlines |-> db.deadlines, ledger |-> db.ledger, questions |-> db.questions,
   notices |-> db.notices, risk |-> db.risk, files |-> db.files]

restore(db, snap) == [f \in DOMAIN db |-> IF f \in DOMAIN snap THEN snap[f] ELSE db[f]]

-----------------------------------------------------------------------------
(* Disputes and their log *)

visible(s, d) == s.kind = "key" \/ d.team \in s.teams

GetTransaction(db, s, id) ==
  IF id \in DOMAIN db.transactions /\ db.transactions[id].tenant = s.tenant
  THEN Answer(db, db.transactions[id]) ELSE Failure(db, "notfound")

InsertDispute(db, s, d) ==
  Answer([db EXCEPT !.disputes = Put(@, d.id, [d EXCEPT !.tenant = s.tenant])], 0)

GetDispute(db, s, id) ==
  IF id \in DOMAIN db.disputes /\ db.disputes[id].tenant = s.tenant /\ visible(s, db.disputes[id])
  THEN Answer(db, db.disputes[id]) ELSE Failure(db, "notfound")

\* Most child tables first look the dispute up, and answer like that lookup when it fails.
Within(db, s, id, answer) == LET g == GetDispute(db, s, id) IN IF g.err = "ok" THEN answer ELSE g

\* The row at the expected version; the team is not looked at.
Current(db, s, id, expected) ==
  id \in DOMAIN db.disputes /\ db.disputes[id].tenant = s.tenant /\ db.disputes[id].version = expected

UpdateDisputeState(db, s, id, expected, state) ==
  IF Current(db, s, id, expected)
  THEN Answer([db EXCEPT !.disputes[id].state = state, !.disputes[id].version = expected + 1], 0)
  ELSE Failure(db, "conflict")

UpdateDisputeTeam(db, s, id, expected, team) ==
  IF Current(db, s, id, expected)
  THEN Answer([db EXCEPT !.disputes[id].team = team, !.disputes[id].version = expected + 1], 0)
  ELSE Failure(db, "conflict")

AppendEvent(db, s, id, e) ==
  IF \E i \in DOMAIN db.events[id] : db.events[id][i].seq = e.seq THEN Failure(db, "conflict")
  ELSE Answer([db EXCEPT !.events[id] = Append(@, e)], 0)

ListEvents(db, s, id) == Answer(db, db.events[id])

AccountHistory(db, s, account, exclude, since) ==
  LET others == {d \in Elements(db.disputes) :
                   d.tenant = s.tenant /\ d.account = account /\ d.id # exclude}
      lost(d) == \E i \in DOMAIN db.events[d.id] : db.events[d.id][i].to = "CHARGEBACK_LOST"
  IN Answer(db, <<Cardinality({d \in others : d.opened >= since}),
                  Cardinality({d \in others : lost(d)})>>)

-----------------------------------------------------------------------------
(* Idempotency keys, one map for all tenants *)

GetIdempotent(db, s, scope, key) == Lookup(db, db.idempotent, <<s.tenant, scope, key>>)

PutIdempotent(db, s, scope, key, hash, now) ==
  Answer([db EXCEPT !.idempotent = Put(@, <<s.tenant, scope, key>>, [hash |-> hash, at |-> now])], 0)

PurgeIdempotencyKeys(db, before) ==
  LET old == {k \in DOMAIN db.idempotent : db.idempotent[k].at < before}
  IN Answer([db EXCEPT !.idempotent = Without(@, old)], Cardinality(old))

-----------------------------------------------------------------------------
(* Clocks and lists *)

Open(c) == c.end = "open"

overdue(db, id, now) == \E i \in DOMAIN db.deadlines[id] :
  Open(db.deadlines[id][i]) /\ now > db.deadlines[id][i].due

Newer(a, b) == a.opened > b.opened \/ (a.opened = b.opened /\ a.id > b.id)

\* sort.Slice
NewestFirst(S) ==
  CHOOSE list \in [1 .. Cardinality(S) -> S] : \A i, j \in DOMAIN list : i < j => Newer(list[i], list[j])

ListDisputes(db, s, q) ==
  LET all == {d \in Elements(db.disputes) :
                /\ d.tenant = s.tenant /\ visible(s, d)
                /\ q.state \in {"any", d.state}
                /\ q.overdue => overdue(db, d.id, q.now)
                /\ \A c \in q.after : d.opened <= c.opened /\ (d.opened = c.opened => d.id < c.id)}
      summary(d) == [id |-> d.id, state |-> d.state, team |-> d.team, opened |-> d.opened]
      sorted == NewestFirst({summary(d) : d \in all})
  IN Answer(db, IF Len(sorted) > q.limit THEN SubSeq(sorted, 1, q.limit) ELSE sorted)

InsertDeadlines(db, s, id, cs) ==
  Within(db, s, id, Answer([db EXCEPT !.deadlines[id] = @ \o
    [i \in DOMAIN cs |-> [kind |-> cs[i].kind, cycle |-> cs[i].cycle, due |-> cs[i].due, end |-> "open"]]], 0))

\* In the order they were inserted; no caller depends on it.
ListDeadlines(db, s, id) == Within(db, s, id, Answer(db, Elements(db.deadlines[id])))

SettleDeadline(db, s, id, kind, cycle, met) ==
  Within(db, s, id, Answer([db EXCEPT !.deadlines[id] = [i \in DOMAIN db.deadlines[id] |->
    LET c == db.deadlines[id][i]
    IN IF c.kind = kind /\ c.cycle = cycle /\ Open(c)
       THEN [c EXCEPT !.end = IF met THEN "met" ELSE "void"] ELSE c]], 0))

\* The tenant is looked at, the team is not.
InTenant(db, s, id) == id \in DOMAIN db.disputes /\ db.disputes[id].tenant = s.tenant

NextDeadlines(db, s, ids) ==
  LET open(id) == {c \in Elements(db.deadlines[id]) : Open(c)}
  IN Answer(db, [id \in {i \in ids : InTenant(db, s, i) /\ open(i) # {}} |->
       Min({c.due : c \in open(id)})])

CountByState(db) ==
  LET all == Elements(db.disputes)
  IN Answer(db, {[tenant |-> d.tenant, state |-> d.state,
       n |-> Cardinality({o \in all : o.tenant = d.tenant /\ o.state = d.state})] : d \in all})

CountOverdue(db, now) ==
  LET late == UNION {{<<id, i>> : i \in {j \in DOMAIN db.deadlines[id] :
                 Open(db.deadlines[id][j]) /\ db.deadlines[id][j].due < now}} : id \in DOMAIN db.disputes}
      group(l) == <<db.disputes[l[1]].tenant, db.deadlines[l[1]][l[2]].kind>>
  IN Answer(db, {[tenant |-> group(l)[1], kind |-> group(l)[2],
       n |-> Cardinality({o \in late : group(o) = group(l)})] : l \in late})

-----------------------------------------------------------------------------
(* Settings, ledger, risk, questionnaires *)

TenantCalendar(db, s) == Answer(db, IF s.tenant \in DOMAIN db.calendars THEN db.calendars[s.tenant] ELSE "default")

TenantCore(db, s) == Answer(db, IF s.tenant \in DOMAIN db.cores THEN db.cores[s.tenant] ELSE "none")

TenantName(db, s) == Answer(db, IF s.tenant \in DOMAIN db.names THEN db.names[s.tenant] ELSE "Test Bank")

\* The entries before a known reference stay: only the rollback takes them away.
Book(db, id, e) ==
  IF \E r \in Elements(db.ledger[id]) : r.reference = e.reference THEN Failure(db, "conflict")
  ELSE Answer([db EXCEPT !.ledger[id] = Append(@, e)], 0)
AppendLedger(db, s, id, entries) ==
  LET after[n \in 0 .. Len(entries)] ==
        IF n = 0 THEN Answer(db, 0)
        ELSE IF after[n - 1].err = "ok" THEN Book(after[n - 1].db, id, entries[n]) ELSE after[n - 1]
  IN Within(db, s, id, after[Len(entries)])

ListLedger(db, s, id) == Within(db, s, id, Answer(db, db.ledger[id]))

SuspenseBalances(db) ==
  LET tenants == {db.disputes[i].tenant : i \in {j \in DOMAIN db.disputes : db.ledger[j] # <<>>}}
      of(t, kind) == Cardinality(UNION {{<<i, k>> : k \in {j \in DOMAIN db.ledger[i] : db.ledger[i][j].kind = kind}} :
                                          i \in {j \in DOMAIN db.disputes : db.disputes[j].tenant = t}})
  IN Answer(db, [t \in tenants |-> of(t, "advance") - of(t, "clear")])

InsertRisk(db, s, id, r) == Within(db, s, id, Answer([db EXCEPT !.risk[id] = Append(@, r)], 0))

ListRisk(db, s, id) == Within(db, s, id, Answer(db, db.risk[id]))

LatestRisk(db, s, ids) ==
  Answer(db, [id \in {i \in ids : InTenant(db, s, i) /\ db.risk[i] # <<>>} |->
                db.risk[id][Len(db.risk[id])].tier])

SendQuestionnaire(db, s, id, q) ==
  Within(db, s, id, Answer([db EXCEPT !.questions = Put(@, id, [dispute |-> id, asked |-> q, answers |-> {}])], 0))

GetQuestionnaire(db, s, id) == Within(db, s, id, Lookup(db, db.questions, id))

AnswerQuestionnaire_Fault(db, s, id, answer) ==
  LET q == GetQuestionnaire(db, s, id)
  IN IF q.err # "ok" THEN q ELSE Answer([db EXCEPT !.questions[id].answers = {answer}], 0)
AnswerQuestionnaire(db, s, id, answer) ==
  LET q == GetQuestionnaire(db, s, id)
  IN IF q.err # "ok" THEN q
     ELSE IF q.val.answers # {} THEN Failure(db, "notfound")
     ELSE Answer([db EXCEPT !.questions[id].answers = {answer}], 0)

GetAccount(db, s, id) == Lookup(db, db.accounts, id)

-----------------------------------------------------------------------------
(* Notices and attachments *)

InsertNotice(db, s, n) ==
  LET id == db.nextNotice + 1
      row == [id |-> id, dispute |-> n.dispute, seq |-> n.seq, channel |-> n.channel,
              actor |-> n.actor, sent |-> n.sent, resendOf |-> n.resendOf]
  IN Within(db, s, n.dispute, Answer([db EXCEPT !.nextNotice = id, !.notices = Append(@, row)], id))

ListNotices(db, s, id) ==
  Within(db, s, id, Answer(db, Kept(db.notices, {i \in DOMAIN db.notices : db.notices[i].dispute = id})))

GetNotice(db, s, id, notice) ==
  LET list == ListNotices(db, s, id)
      found == {n \in Elements(list.val) : n.id = notice}
  IN IF list.err # "ok" THEN list
     ELSE IF found = {} THEN Failure(db, "notfound") ELSE Answer(db, CHOOSE n \in found : TRUE)

Unsent(db) ==
  Kept(db.notices, {i \in DOMAIN db.notices : ~db.notices[i].sent /\ db.notices[i].channel = "EMAIL"})

\* No back-off: every unsent email is offered each time, with all that is known of it.
ClaimNotices(db, batch) ==
  LET due == Unsent(db)
  IN Answer(db, {due[i] : i \in {j \in DOMAIN due : j <= batch}})

OutboxBacklog(db) == Answer(db, Len(Unsent(db)))

FinishNotice(db, id, failed) ==
  Answer([db EXCEPT !.notices = [i \in DOMAIN db.notices |->
    IF db.notices[i].id = id /\ ~failed THEN [db.notices[i] EXCEPT !.sent = TRUE] ELSE db.notices[i]]], 0)

InsertAttachment(db, s, id, f, now) ==
  Within(db, s, id, Answer([db EXCEPT !.files =
    Put(@, f, [id |-> f, dispute |-> id, notice |-> 0, at |-> now])], 0))

ClaimAttachments(db, s, id, notice, ids) ==
  LET mine == {f \in ids \cap DOMAIN db.files : db.files[f].notice = 0 /\ db.files[f].dispute = id}
  IN Answer([db EXCEPT !.files = [f \in DOMAIN @ |->
              IF f \in mine THEN [@[f] EXCEPT !.notice = notice] ELSE @[f]]], Cardinality(mine))

ListAttachmentMeta(db, s, id, notices) ==
  Answer(db, {f \in Elements(db.files) : f.dispute = id /\ f.notice \in notices \cup {0}})

GetAttachment(db, s, id, f) ==
  IF f \in DOMAIN db.files /\ db.files[f].dispute = id THEN Answer(db, db.files[f]) ELSE Failure(db, "notfound")

NoticeAttachments(db, notice) ==
  Answer(db, {f.id : f \in {g \in Elements(db.files) : g.notice = notice /\ g.notice # 0}})

PurgeDraftAttachments(db, before) ==
  LET old == {f \in DOMAIN db.files : db.files[f].notice = 0 /\ db.files[f].at < before}
  IN Answer([db EXCEPT !.files = Without(@, old)], Cardinality(old))

-----------------------------------------------------------------------------
(* What a tenant keeps of its own *)

TenantTemplates(db, s) ==
  LET mine == db.templates[s.tenant]
  IN Answer(db, {[tenant |-> s.tenant, kind |-> k, text |-> mine[k]] : k \in DOMAIN mine})

PutTenantTemplate(db, s, kind, text) == Answer([db EXCEPT !.templates[s.tenant] = Put(@, kind, text)], 0)

DeleteTenantTemplate(db, s, kind) ==
  Answer([db EXCEPT !.templates[s.tenant] = Without(@, {kind})], kind \in DOMAIN db.templates[s.tenant])

GetTenantMetadata(db, s) ==
  Answer(db, IF s.tenant \in DOMAIN db.logos THEN {[at |-> db.logoAt[s.tenant]]} ELSE {})

GetTenantLogo(db, s) == Lookup(db, db.logos, s.tenant)

PutTenantLogo(db, s, image, now) ==
  Answer([db EXCEPT !.logos = Put(@, s.tenant, image), !.logoAt = Put(@, s.tenant, now)], 0)

GetAnalystAvatar(db, s, subject) == Lookup(db, db.avatars, <<s.tenant, subject>>)

PutAnalystAvatar(db, s, subject, image) == Answer([db EXCEPT !.avatars = Put(@, <<s.tenant, subject>>, image)], 0)
=============================================================================
