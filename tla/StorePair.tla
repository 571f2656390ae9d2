----------------------------- MODULE StorePair -----------------------------
(***************************************************************************)
(* The Postgres store and the in-memory store the tests use in its place,  *)
(* side by side: every transaction runs its calls on both.  What the unit  *)
(* tests show of the service holds of the deployed one only as far as the  *)
(* two give the same answers.                                              *)
(*                                                                         *)
(* Transactions run one at a time, as the in-memory store serialises them; *)
(* what they do to each other when they overlap is in DisputeService.      *)
(* The calls a transaction may make are the ones the service makes: it     *)
(* finds a dispute before it touches it or its rows, opens disputes with   *)
(* new ids in a team it may create them in, stores a response only under a *)
(* key it has just looked up in vain, and writes a template, a logo or an  *)
(* avatar last.                                                            *)
(*                                                                         *)
(* Each behaviour exercises one part of the port (focus).                  *)
(***************************************************************************)
EXTENDS Integers, Sequences, FiniteSets

CONSTANTS
  Ids,        \* disputes, as numbers: lists order them
  Seeds,      \* the rows of disputes present at the start
  Clocks,     \* deadlines present at the start
  Sessions,   \* who calls: [tenant, kind, subject, teams]
  Teams, Focuses,
  Retention,  \* how long a stored response is kept
  PageLimit,  \* what a reader asks for per page
  MaxTx, MaxCalls, MaxTime   \* bounds

VARIABLES
  pg,      \* the database, as the open transaction sees it
  mem,     \* the in-memory store
  tx,      \* the open transaction
  ans,     \* the last call's answers from both
  now, focus,
  walk,    \* a reader paging through a list
  applied  \* when each key's request was carried out

vars == <<pg, mem, tx, ans, now, focus, walk, applied>>

Pg == INSTANCE PostgresStore
Fake == INSTANCE MemStore

Tenants == {s.tenant : s \in Sessions}

ASSUME StoreAssumption ==
  /\ Retention \in Nat /\ PageLimit \in Int /\ Ids \subseteq Int \ {0}
  /\ IsFiniteSet(Seeds) /\ IsFiniteSet(Clocks)
  /\ \A d \in Seeds :
       /\ DOMAIN d = {"id", "tenant", "team", "state", "version", "account", "opened"}
       /\ d.id \in Ids /\ d.opened \in Int
       /\ \A e \in Seeds : e.id = d.id => e = d
  /\ \A c \in Clocks :
       /\ DOMAIN c = {"dispute", "kind", "cycle", "due", "end"}
       /\ c.due \in Int /\ \E d \in Seeds : d.id = c.dispute
       /\ \A o \in Clocks : o.dispute = c.dispute => o = c

Keys == {"k1"}
Scope == "apply"
Kinds == {"OUTCOME", "REFUND"}
Files == {"f1", "f2"}
Automatic == Pg!Q!Automatic  \* the actor of an event's own notices

NoTx(n) == [open |-> FALSE, n |-> n]
NoWalk == [open |-> FALSE]
Silence == [asked |-> <<>>, p |-> [err |-> "ok", val |-> 0], m |-> [err |-> "ok", val |-> 0]]
Answers(asked, p, m) ==
  [asked |-> asked, p |-> [err |-> p.err, val |-> p.val], m |-> [err |-> m.err, val |-> m.val]]

-----------------------------------------------------------------------------
(* The stores at the start: transaction and account t belong to tenant t *)

EmptyPg ==
  [transactions |-> {[id |-> t, tenant |-> t, account |-> t] : t \in Tenants},
   accounts |-> {[id |-> t, tenant |-> t] : t \in Tenants},
   disputes |-> Seeds, events |-> {}, keys |-> {}, deadlines |-> Clocks, ledger |-> <<>>, risk |-> <<>>,
   questionnaires |-> {}, notices |-> <<>>, noticeId |-> 0, leased |-> {}, files |-> {},
   templates |-> {}, logos |-> {}, avatars |-> {},
   settings |-> [t \in Tenants |-> [calendar |-> "default", core |-> "none"]]]

SeededMem ==
  [Fake!NewMemStore(Ids, Tenants) EXCEPT
     !.transactions = [t \in Tenants |-> [id |-> t, tenant |-> t, account |-> t]],
     !.accounts = [t \in Tenants |-> [id |-> t, tenant |-> t]],
     !.names = [t \in Tenants |-> t],
     !.disputes = [i \in {d.id : d \in Seeds} |-> CHOOSE d \in Seeds : d.id = i],
     !.deadlines = [i \in Ids |-> [j \in {k \in {1} : \E c \in Clocks : c.dispute = i} |->
        LET c == CHOOSE c \in Clocks : c.dispute = i
        IN [kind |-> c.kind, cycle |-> c.cycle, due |-> c.due, end |-> c.end]]]]

Init ==
  /\ pg = EmptyPg /\ mem = SeededMem
  /\ tx = NoTx(0) /\ ans = Silence /\ now = 2
  /\ focus \in Focuses
  /\ walk = NoWalk /\ applied = [k \in Tenants \X Keys |-> {}]

-----------------------------------------------------------------------------
(* Transactions *)

Begin(s) ==
  /\ ~tx.open /\ tx.n < MaxTx
  /\ tx' = [open |-> TRUE, n |-> tx.n + 1, s |-> s, old |-> pg, snap |-> Fake!snapshot(mem),
            calls |-> 0, seen |-> {}, missed |-> {}, put |-> {}, failed |-> FALSE, last |-> FALSE]
  /\ UNCHANGED <<pg, mem, ans, now, focus, walk, applied>>

\* BeginFunc and WithTx put back what was there; numbers drawn for notices stay drawn.
Rollback ==
  /\ tx.open /\ ~tx.last
  /\ pg' = [tx.old EXCEPT !.noticeId = pg.noticeId]
  /\ mem' = Fake!restore(mem, tx.snap)
  /\ tx' = NoTx(tx.n) /\ ans' = Silence
  /\ UNCHANGED <<now, focus, walk, applied>>

\* The disputes a reader's list matches, and the ones it has matched all along.
Matches(db, s, q) == {d.id : d \in {e \in Pg!Q!Scoped(db, s) : q.state \in {"any", e.state}}}
StillMatching(db) ==
  IF walk.open THEN [walk EXCEPT !.must = @ \cap Matches(db, walk.s, walk.q)] ELSE walk

Commit ==
  /\ tx.open /\ ~tx.failed
  /\ applied' = [k \in DOMAIN applied |-> IF k \in tx.put THEN applied[k] \cup {now} ELSE applied[k]]
  /\ walk' = StillMatching(pg)
  /\ tx' = NoTx(tx.n) /\ ans' = Silence
  /\ UNCHANGED <<pg, mem, now, focus>>

Tick ==
  /\ ~tx.open /\ now < MaxTime /\ now' = now + 1
  /\ UNCHANGED <<pg, mem, tx, ans, focus, walk, applied>>

\* Both stores are asked; whatever is not a miss ends the transaction when it is an error.
Both(asked, p, m, t) ==
  /\ pg' = p.db /\ mem' = m.db
  /\ ans' = Answers(asked, p, m)
  /\ tx' = t
  /\ UNCHANGED <<now, focus, walk, applied>>

Calling(part) == focus = part /\ tx.open /\ ~tx.failed /\ tx.calls < MaxCalls

CallThen(p, m, t) ==
  Both(<<>>, p, m, [t EXCEPT !.calls = @ + 1, !.failed = p.err \notin {"ok", "notfound"}])
Call(p, m) == CallThen(p, m, tx)

\* Calls outside a transaction, by the gauges, the dispatcher and the sweeps.
Aside(part, p, m) == focus = part /\ ~tx.open /\ Both(<<>>, p, m, tx)

-----------------------------------------------------------------------------
(* Disputes and their log *)

GetDispute(id) ==
  /\ tx.open /\ ~tx.failed /\ tx.calls < MaxCalls /\ id \notin tx.seen
  /\ LET p == Pg!GetDispute(pg, tx.s, id)
     IN CallThen(p, Fake!GetDispute(mem, tx.s, id),
                 IF p.err = "ok" THEN [tx EXCEPT !.seen = @ \cup {id}] ELSE tx)

GetTransaction(t) ==
  Calling("disputes") /\ Call(Pg!GetTransaction(pg, tx.s, t), Fake!GetTransaction(mem, tx.s, t))

\* The account of a transaction or a dispute the caller has found.
GetAccount ==
  /\ Calling("disputes")
  /\ Call(Pg!GetAccount(pg, tx.s, tx.s.tenant), Fake!GetAccount(mem, tx.s, tx.s.tenant))

TenantName == Calling("tenant") /\ Call(Pg!TenantName(pg, tx.s), Fake!TenantName(mem, tx.s))

InsertDispute(id, team) ==
  /\ \/ Calling("disputes") \/ Calling("listing")
  /\ id \notin {d.id : d \in pg.disputes} /\ (tx.s.kind = "key" \/ team \in tx.s.teams)
  /\ LET d == [id |-> id, tenant |-> tx.s.tenant, team |-> team, state |-> "INITIATED", version |-> 1,
               account |-> tx.s.tenant, opened |-> now]
     IN CallThen(Pg!InsertDispute(pg, tx.s, d), Fake!InsertDispute(mem, tx.s, d),
                 [tx EXCEPT !.seen = @ \cup {id}])

UpdateDisputeState(id, expected, state) ==
  /\ \/ Calling("disputes") \/ Calling("listing")
  /\ id \in tx.seen
  /\ Call(Pg!UpdateDisputeState(pg, tx.s, id, expected, state),
          Fake!UpdateDisputeState(mem, tx.s, id, expected, state))

\* Reassign does nothing more once the dispute has moved: it may be out of sight.
UpdateDisputeTeam(id, expected, team) ==
  /\ \/ Calling("disputes") \/ Calling("listing")
  /\ id \in tx.seen
  /\ CallThen(Pg!UpdateDisputeTeam(pg, tx.s, id, expected, team),
              Fake!UpdateDisputeTeam(mem, tx.s, id, expected, team), [tx EXCEPT !.seen = @ \ {id}])

\* The number is the version read plus one: the next, or one that is taken.
AppendEvent(id, seq, to) ==
  /\ Calling("disputes") /\ id \in tx.seen
  /\ seq <= Cardinality({e \in pg.events : e.dispute = id}) + 1
  /\ LET e == [seq |-> seq, to |-> to]
     IN Call(Pg!AppendEvent(pg, tx.s, id, e), Fake!AppendEvent(mem, tx.s, id, e))

ListEvents(id) ==
  /\ Calling("disputes") /\ id \in tx.seen
  /\ Call(Pg!ListEvents(pg, tx.s, id), Fake!ListEvents(mem, tx.s, id))

AccountHistory(id, since) ==
  /\ Calling("disputes") /\ id \in tx.seen
  /\ Both(<<id, since>>, Pg!AccountHistory(pg, tx.s, tx.s.tenant, id, since),
          Fake!AccountHistory(mem, tx.s, tx.s.tenant, id, since), [tx EXCEPT !.calls = @ + 1])

CountByState == Aside("disputes", Pg!CountByState(pg), Fake!CountByState(mem))

-----------------------------------------------------------------------------
(* Lists: a reader pages through one, each page a transaction of its own *)

Query(q, after, limit) == [state |-> q.state, overdue |-> q.overdue, after |-> after, limit |-> limit, now |-> now]

\* A page and where the next one starts; one row more than the page tells whether there is one.
Page_Fault(rows, limit) ==
  IF Len(rows) > limit
  THEN [items |-> SubSeq(rows, 1, limit), next |-> {[opened |-> rows[limit + 1].opened, id |-> rows[limit + 1].id]}]
  ELSE [items |-> rows, next |-> {}]
Page(rows, limit) ==
  IF Len(rows) > limit
  THEN [items |-> SubSeq(rows, 1, limit), next |-> {[opened |-> rows[limit].opened, id |-> rows[limit].id]}]
  ELSE [items |-> rows, next |-> {}]

Limit(asked) == IF asked <= 0 \/ asked > 100 THEN 25 ELSE asked

Show(s, q, after, got, must) ==
  LET limit == Limit(PageLimit)
      p == Pg!ListDisputes(pg, s, Query(q, after, limit + 1))
      m == Fake!ListDisputes(mem, s, Query(q, after, limit + 1))
      page == Page(p.val, limit)
  IN /\ pg' = p.db /\ mem' = m.db
     /\ ans' = Answers(<<>>, p, m)
     /\ walk' = [open |-> TRUE, s |-> s, q |-> q, after |-> page.next, got |-> got \o page.items, must |-> must]
     /\ UNCHANGED <<tx, now, focus, applied>>

FirstPage(s, q) ==
  focus = "listing" /\ ~tx.open /\ ~walk.open /\ Show(s, q, {}, <<>>, Matches(pg, s, q))

NextPage ==
  focus = "listing" /\ ~tx.open /\ walk.open /\ walk.after # {}
  /\ Show(walk.s, walk.q, walk.after, walk.got, walk.must)

-----------------------------------------------------------------------------
(* Idempotency keys *)

GetIdempotent(k) ==
  /\ Calling("keys")
  /\ LET p == Pg!GetIdempotent(pg, tx.s, Scope, k)
     IN CallThen(p, Fake!GetIdempotent(mem, tx.s, Scope, k),
                 IF p.err = "ok" THEN tx ELSE [tx EXCEPT !.missed = @ \cup {k}])

PutIdempotent(k, hash) ==
  /\ Calling("keys") /\ k \in tx.missed
  /\ CallThen(Pg!PutIdempotent(pg, tx.s, Scope, k, hash, now), Fake!PutIdempotent(mem, tx.s, Scope, k, hash, now),
              [tx EXCEPT !.put = @ \cup {<<tx.s.tenant, k>>}, !.missed = @ \ {k}])

PurgeIdempotencyKeys_Fault ==
  Aside("keys", Pg!PurgeIdempotencyKeys(pg, now), Fake!PurgeIdempotencyKeys(mem, now))
PurgeIdempotencyKeys ==
  Aside("keys", Pg!PurgeIdempotencyKeys(pg, now - Retention), Fake!PurgeIdempotencyKeys(mem, now - Retention))

-----------------------------------------------------------------------------
(* Clocks *)

\* OpeningDeadlines and AppealDeadlines: a kind once per cycle.
InsertDeadlines(id, cycle, dues) ==
  /\ Calling("clocks") /\ id \in tx.seen
  /\ ~\E c \in pg.deadlines : c.dispute = id /\ c.cycle = cycle
  /\ LET cs == [i \in DOMAIN dues |-> [kind |-> IF i = 1 THEN "RESOLUTION" ELSE "REFUND", cycle |-> cycle, due |-> dues[i]]]
     IN Call(Pg!InsertDeadlines(pg, tx.s, id, cs), Fake!InsertDeadlines(mem, tx.s, id, cs))

ListDeadlines(id) ==
  /\ Calling("clocks") /\ id \in tx.seen
  /\ Call(Pg!ListDeadlines(pg, tx.s, id), Fake!ListDeadlines(mem, tx.s, id))

SettleDeadline(id, kind, cycle, met) ==
  /\ Calling("clocks") /\ id \in tx.seen
  /\ Call(Pg!SettleDeadline(pg, tx.s, id, kind, cycle, met), Fake!SettleDeadline(mem, tx.s, id, kind, cycle, met))

\* Over the disputes of a page, which the caller sees.
NextDeadlines ==
  /\ Calling("clocks")
  /\ Call(Pg!NextDeadlines(pg, tx.s, tx.seen), Fake!NextDeadlines(mem, tx.s, tx.seen))

ListOverdue ==
  /\ Calling("clocks")
  /\ LET q == [state |-> "any", overdue |-> TRUE, after |-> {}, limit |-> 25, now |-> now]
     IN Call(Pg!ListDisputes(pg, tx.s, q), Fake!ListDisputes(mem, tx.s, q))

CountOverdue == Aside("clocks", Pg!CountOverdue(pg, now), Fake!CountOverdue(mem, now))

TenantCalendar == Calling("clocks") /\ Call(Pg!TenantCalendar(pg, tx.s), Fake!TenantCalendar(mem, tx.s))

-----------------------------------------------------------------------------
(* Ledger, risk, questionnaires *)

\* The reference of an entry is made of the dispute, the event's number and the kind.
AppendLedger(id, seq, kinds) ==
  /\ Calling("books") /\ id \in tx.seen
  /\ LET es == [i \in DOMAIN kinds |-> [seq |-> seq, kind |-> kinds[i], reference |-> <<id, seq, kinds[i]>>]]
     IN Call(Pg!AppendLedger(pg, tx.s, id, es), Fake!AppendLedger(mem, tx.s, id, es))

ListLedger(id) ==
  /\ Calling("books") /\ id \in tx.seen
  /\ Call(Pg!ListLedger(pg, tx.s, id), Fake!ListLedger(mem, tx.s, id))

SuspenseBalances == Aside("books", Pg!SuspenseBalances(pg), Fake!SuspenseBalances(mem))

TenantCore == Calling("books") /\ Call(Pg!TenantCore(pg, tx.s), Fake!TenantCore(mem, tx.s))

\* One assessment per event of the dispute.
InsertRisk(id, seq, tier) ==
  /\ Calling("risk") /\ id \in tx.seen
  /\ \A i \in DOMAIN pg.risk : ~(pg.risk[i].dispute = id /\ pg.risk[i].seq = seq)
  /\ LET r == [seq |-> seq, tier |-> tier]
     IN Call(Pg!InsertRisk(pg, tx.s, id, r), Fake!InsertRisk(mem, tx.s, id, r))

ListRisk(id) ==
  Calling("risk") /\ id \in tx.seen /\ Call(Pg!ListRisk(pg, tx.s, id), Fake!ListRisk(mem, tx.s, id))

LatestRisk == Calling("risk") /\ Call(Pg!LatestRisk(pg, tx.s, tx.seen), Fake!LatestRisk(mem, tx.s, tx.seen))

SendQuestionnaire(id, q) ==
  /\ Calling("risk") /\ id \in tx.seen
  /\ Call(Pg!SendQuestionnaire(pg, tx.s, id, q), Fake!SendQuestionnaire(mem, tx.s, id, q))

AnswerQuestionnaire(id, a) ==
  /\ Calling("risk") /\ id \in tx.seen
  /\ Call(Pg!AnswerQuestionnaire(pg, tx.s, id, a), Fake!AnswerQuestionnaire(mem, tx.s, id, a))

GetQuestionnaire(id) ==
  /\ Calling("risk") /\ id \in tx.seen
  /\ Call(Pg!GetQuestionnaire(pg, tx.s, id), Fake!GetQuestionnaire(mem, tx.s, id))

-----------------------------------------------------------------------------
(* Notices and attachments *)

\* An event's own notices go once per channel; a composed one has an actor.  Letters are
\* never sent by the system, so they are born sent.
InsertNotice(id, channel, actor) ==
  /\ Calling("letters") /\ id \in tx.seen
  /\ actor = Automatic => \A i \in DOMAIN pg.notices : ~(pg.notices[i].dispute = id /\ pg.notices[i].channel = channel)
  /\ LET n == [dispute |-> id, seq |-> 1, channel |-> channel, actor |-> actor, sent |-> channel = "LETTER", resendOf |-> 0]
     IN Call(Pg!InsertNotice(pg, tx.s, n), Fake!InsertNotice(mem, tx.s, n))

\* Resend: a sent email once more, chained to the first of its chain.
ResendNotice(id, orig) ==
  /\ Calling("letters") /\ id \in tx.seen
  /\ orig.dispute = id /\ orig.channel = "EMAIL" /\ orig.sent
  /\ LET n == [dispute |-> id, seq |-> 1, channel |-> "EMAIL", actor |-> "ann", sent |-> FALSE,
               resendOf |-> IF orig.resend_of = 0 THEN orig.id ELSE orig.resend_of]
     IN Call(Pg!InsertNotice(pg, tx.s, n), Fake!InsertNotice(mem, tx.s, n))

ListNotices(id) ==
  Calling("letters") /\ id \in tx.seen /\ Call(Pg!ListNotices(pg, tx.s, id), Fake!ListNotices(mem, tx.s, id))

GetNotice(id, n) ==
  Calling("letters") /\ id \in tx.seen /\ Call(Pg!GetNotice(pg, tx.s, id, n), Fake!GetNotice(mem, tx.s, id, n))

\* The in-memory store has no back-off: what is compared is that Postgres hands out nothing
\* it would not offer.  Nor does it leave out who wrote a notice and which one it repeats,
\* as Postgres does: only what both hand out is compared.
Claimed(notices) == {[id |-> n.id, dispute |-> n.dispute, seq |-> n.seq, channel |-> n.channel, sent |-> n.sent] : n \in notices}

ClaimNotices ==
  LET p == Pg!ClaimNotices(pg, 1)
      m == Fake!ClaimNotices(mem, Len(mem.notices))
  IN Aside("letters", [p EXCEPT !.val = Claimed(@) \ Claimed(m.val)], [m EXCEPT !.val = {}])

OutboxBacklog == Aside("letters", Pg!OutboxBacklog(pg), Fake!OutboxBacklog(mem))

FinishNotice(id, failed) == id \in pg.leased /\ Aside("letters", Pg!FinishNotice(pg, id, failed), Fake!FinishNotice(mem, id, failed))

InsertAttachment(id, f) ==
  /\ Calling("files") /\ id \in tx.seen /\ f \notin {r.id : r \in pg.files}
  /\ Call(Pg!InsertAttachment(pg, tx.s, id, f, now), Fake!InsertAttachment(mem, tx.s, id, f, now))

\* ComposeEmail claims the named drafts for the notice it has just inserted.
ClaimAttachments(id, fs) ==
  /\ Calling("files") /\ id \in tx.seen
  /\ Call(Pg!ClaimAttachments(pg, tx.s, id, id, fs), Fake!ClaimAttachments(mem, tx.s, id, id, fs))

ListAttachmentMeta(id) ==
  /\ Calling("files") /\ id \in tx.seen
  /\ Call(Pg!ListAttachmentMeta(pg, tx.s, id, {id}), Fake!ListAttachmentMeta(mem, tx.s, id, {id}))

GetAttachment(id, f) ==
  Calling("files") /\ id \in tx.seen /\ Call(Pg!GetAttachment(pg, tx.s, id, f), Fake!GetAttachment(mem, tx.s, id, f))

NoticeAttachments(n) == Aside("files", Pg!NoticeAttachments(pg, n), Fake!NoticeAttachments(mem, n))

PurgeDraftAttachments == Aside("files", Pg!PurgeDraftAttachments(pg, now - 1), Fake!PurgeDraftAttachments(mem, now - 1))

-----------------------------------------------------------------------------
(* What a tenant keeps of its own: each write is the last of its transaction *)

LastCall(p, m) == Calling("tenant") /\ ~tx.last /\ CallThen(p, m, [tx EXCEPT !.last = TRUE])

TenantTemplates == Calling("tenant") /\ Call(Pg!TenantTemplates(pg, tx.s), Fake!TenantTemplates(mem, tx.s))

PutTenantTemplate(kind, text) ==
  LastCall(Pg!PutTenantTemplate(pg, tx.s, kind, text), Fake!PutTenantTemplate(mem, tx.s, kind, text))

DeleteTenantTemplate(kind) ==
  LastCall(Pg!DeleteTenantTemplate(pg, tx.s, kind), Fake!DeleteTenantTemplate(mem, tx.s, kind))

GetTenantMetadata == Calling("tenant") /\ Call(Pg!GetTenantMetadata(pg, tx.s), Fake!GetTenantMetadata(mem, tx.s))

GetTenantLogo == Calling("tenant") /\ Call(Pg!GetTenantLogo(pg, tx.s), Fake!GetTenantLogo(mem, tx.s))

PutTenantLogo(image) ==
  LastCall(Pg!PutTenantLogo(pg, tx.s, image, now), Fake!PutTenantLogo(mem, tx.s, image, now))

GetAnalystAvatar ==
  /\ Calling("tenant")
  /\ Call(Pg!GetAnalystAvatar(pg, tx.s, tx.s.subject), Fake!GetAnalystAvatar(mem, tx.s, tx.s.subject))

PutAnalystAvatar(image) ==
  LastCall(Pg!PutAnalystAvatar(pg, tx.s, tx.s.subject, image), Fake!PutAnalystAvatar(mem, tx.s, tx.s.subject, image))

-----------------------------------------------------------------------------
Next ==
  \/ \E s \in Sessions : Begin(s)
  \/ Rollback \/ Commit \/ Tick
  \/ \E id \in Ids :
       \/ GetDispute(id) \/ ListEvents(id) \/ ListDeadlines(id) \/ ListLedger(id) \/ ListRisk(id)
       \/ GetQuestionnaire(id) \/ ListNotices(id) \/ ListAttachmentMeta(id)
       \/ \E team \in Teams : InsertDispute(id, team) \/ \E v \in 1..2 : UpdateDisputeTeam(id, v, team)
       \/ \E v \in 1..2, st \in {"INITIATED", "CLOSED"} : UpdateDisputeState(id, v, st)
       \/ \E seq \in 1..2, to \in {"INITIATED", "CHARGEBACK_LOST"} : AppendEvent(id, seq, to)
       \/ \E since \in 1..2 : AccountHistory(id, since)
       \/ \E cycle \in 0..1, dues \in {<<2, 3>>, <<3, 1>>} : InsertDeadlines(id, cycle, dues)
       \/ \E kind \in {"RESOLUTION", "REFUND"}, cycle \in 0..1, met \in BOOLEAN : SettleDeadline(id, kind, cycle, met)
       \/ \E seq \in 1..2, kinds \in {<<"advance">>, <<"clear">>, <<"clear", "advance">>} : AppendLedger(id, seq, kinds)
       \/ \E seq \in 1..2, tier \in {"LOW", "HIGH"} : InsertRisk(id, seq, tier)
       \/ \E q \in {"q1", "q2"} : SendQuestionnaire(id, q) \/ AnswerQuestionnaire(id, q)
       \/ \E channel \in {"EMAIL", "LETTER"}, actor \in {Automatic, "ann"} : InsertNotice(id, channel, actor)
       \/ \E i \in DOMAIN pg.notices : ResendNotice(id, pg.notices[i])
       \/ \E n \in 1..2 : GetNotice(id, n)
       \/ \E f \in Files : InsertAttachment(id, f) \/ GetAttachment(id, f)
       \/ \E fs \in {{"f1"}, Files} : ClaimAttachments(id, fs)
       \/ NoticeAttachments(id)
  \/ \E t \in Tenants : GetTransaction(t)
  \/ GetAccount \/ TenantName \/ CountByState
  \/ \E s \in Sessions, st \in {"any", "INITIATED"} : FirstPage(s, [state |-> st, overdue |-> FALSE])
  \/ NextPage
  \/ \E k \in Keys : GetIdempotent(k) \/ \E h \in {"h1", "h2"} : PutIdempotent(k, h)
  \/ PurgeIdempotencyKeys
  \/ NextDeadlines \/ ListOverdue \/ CountOverdue \/ TenantCalendar
  \/ SuspenseBalances \/ TenantCore \/ LatestRisk
  \/ ClaimNotices \/ OutboxBacklog
  \/ \E n \in 1..2, failed \in BOOLEAN : FinishNotice(n, failed)
  \/ PurgeDraftAttachments
  \/ TenantTemplates \/ GetTenantMetadata \/ GetTenantLogo \/ GetAnalystAvatar
  \/ \E kind \in Kinds : DeleteTenantTemplate(kind) \/ \E text \in {"a", "b"} : PutTenantTemplate(kind, text)
  \/ \E image \in {"p", "q"} : PutTenantLogo(image) \/ PutAnalystAvatar(image)

Spec == Init /\ [][Next]_vars

-----------------------------------------------------------------------------
(* Whatever the service may ask, the store of the unit tests and the deployed one answer with  *)
(* the same error or with the same value, at any point of any history of transactions,         *)
(* rollbacks, sweeps and ticks.  There are two exceptions.  The counts behind the risk score   *)
(* are only bounded by the fake's, as the row policies hide the disputes of other teams from   *)
(* them; and a claimed notice is compared without its author and the notice it repeats, which  *)
(* only the fake hands out.                                                                    *)
AnswerAlike ==
  /\ ans.p.err = ans.m.err
  /\ ans.p.err = "ok" =>
       IF ans.asked = <<>> THEN ans.p.val = ans.m.val
       ELSE \A i \in 1..2 :
              IF tx.s.kind = "key" THEN ans.p.val[i] = ans.m.val[i] ELSE ans.p.val[i] <= ans.m.val[i]

(* Between transactions the two hold the same: a rollback leaves no trace in either, however   *)
(* many of the calls before it had been carried out.                                           *)
HoldAlike ==
  ~tx.open =>
    /\ pg.disputes = Fake!Elements(mem.disputes)
    /\ \A id \in Ids :
         /\ {Pg!EventOf(e) : e \in {r \in pg.events : r.dispute = id}} = Fake!Elements(mem.events[id])
         /\ {Pg!deadlineOf(c) : c \in {r \in pg.deadlines : r.dispute = id}} = Fake!Elements(mem.deadlines[id])
         /\ {Pg!EntryOf(e) : e \in {r \in Fake!Elements(pg.ledger) : r.dispute = id}} = Fake!Elements(mem.ledger[id])
         /\ Cardinality({i \in DOMAIN pg.risk : pg.risk[i].dispute = id}) = Len(mem.risk[id])
    /\ pg.questionnaires = Fake!Elements(mem.questions)
    /\ {Pg!noticeOf(n) : n \in Fake!Elements(pg.notices)} = Fake!Elements(mem.notices)
    /\ pg.files = Fake!Elements(mem.files)
    /\ {<<k.tenant, k.scope, k.key>> : k \in pg.keys} = DOMAIN mem.idempotent
    /\ pg.noticeId = mem.nextNotice

(* The store the unit tests run on stands in for the deployed one: memstore.go mirrors the     *)
(* Postgres store's answers and what its transactions and rollbacks leave behind.  Of a claim  *)
(* it is that Postgres hands out nothing the fake would not, the same but for who wrote the    *)
(* notice and which one it repeats: these only the fake hands out.                             *)
FakeIsLikePostgres == AnswerAlike /\ HoldAlike

(* No call of a session changes a row of another tenant, or a row that belongs to a dispute    *)
(* the session cannot see: what a transaction does stays within its tenant and its teams.      *)
Placed(rows, id) == {<<i, rows[i]>> : i \in {j \in DOMAIN rows : rows[j].dispute = id}}
RowsOf(db, id) ==
  <<{d \in db.disputes : d.id = id}, {r \in db.events : r.dispute = id}, {r \in db.deadlines : r.dispute = id},
    Placed(db.ledger, id), Placed(db.risk, id), {r \in db.questionnaires : r.dispute = id},
    Placed(db.notices, id), {r \in db.files : r.dispute = id}>>
OtherTenants(db, t) == {r \in db.keys \cup db.templates \cup db.logos \cup db.avatars : r.tenant # t}
StaysInScope ==
  [][tx.open /\ tx'.open =>
       /\ OtherTenants(pg', tx.s.tenant) = OtherTenants(pg, tx.s.tenant)
       /\ \A d \in pg.disputes : ~Pg!Q!Sees(pg, tx.s, d.id) => RowsOf(pg', d.id) = RowsOf(pg, d.id)]_vars

(* Paging through a list while others open, close and move disputes: no dispute is shown       *)
(* twice, the order holds across pages, and one that matched from the first page to the last   *)
(* is shown.                                                                                   *)
WalkMissesNothing ==
  walk.open =>
    /\ \A i, j \in DOMAIN walk.got : i < j => Fake!Newer(walk.got[i], walk.got[j])
    /\ walk.after = {} => walk.must \subseteq {d.id : d \in Fake!Elements(walk.got)}

(* A request is carried out again under the same key only after the retention has passed since *)
(* it was carried out before, however the sweeps fall.                                         *)
RepeatsOnlyAfterRetention ==
  \A k \in DOMAIN applied : \A t, u \in applied[k] : t < u => u - t > Retention

(* The counts behind a risk score are those of the account.  This is what ports.go and         *)
(* ADR 0018 say; an analyst's row policies make it the counts of the analyst's teams.          *)
HistoryIsTheAccounts ==
  ans.asked # <<>> =>
    ans.p.val[1] = Cardinality({d \in pg.disputes : /\ d.account = tx.s.tenant /\ d.id # ans.asked[1]
                                                    /\ d.opened >= ans.asked[2]})
=============================================================================
