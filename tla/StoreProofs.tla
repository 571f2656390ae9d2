---------------------------- MODULE StoreProofs ----------------------------
(***************************************************************************)
(* Theorems about the stores, for any sessions, seeds, retention and       *)
(* bounds.                                                                 *)
(***************************************************************************)
EXTENDS StorePair, FiniteSetTheorems, WellFoundedInduction, TLAPS

-----------------------------------------------------------------------------
(* What a step does to the transaction and the keys *)

TxFields == {"open", "n", "s", "old", "snap", "calls", "seen", "missed", "put", "failed", "last"}

TxOK ==
  /\ tx.open \in BOOLEAN
  /\ tx.open => DOMAIN tx = TxFields /\ tx.failed \in BOOLEAN /\ tx.s \in Sessions

\* The open transaction, if any, goes on and no key was asked for or stored.
Goes ==
  /\ UNCHANGED <<now, focus, applied>>
  /\ tx'.open = tx.open
  /\ tx.open => /\ DOMAIN tx' = TxFields /\ tx'.failed \in BOOLEAN
                /\ tx'.s = tx.s /\ tx'.old = tx.old /\ tx'.put = tx.put /\ tx'.missed = tx.missed
                /\ ~tx'.failed => ~tx.failed
  /\ ~tx.open => tx' = tx

\* A call on both stores.
LEMMA CallGoes ==
  ASSUME TxOK, tx.open, ~tx.failed, NEW p, NEW m, NEW t,
         DOMAIN t = TxFields, t.open = tx.open, t.s = tx.s, t.old = tx.old, t.put = tx.put, t.missed = tx.missed,
         CallThen(p, m, t)
  PROVE  Goes
BY DEF CallThen, Both, Goes, TxFields

LEMMA SeenGoes ==
  ASSUME TxOK, tx.open, NEW S
  PROVE  LET t == [tx EXCEPT !.seen = S]
         IN /\ DOMAIN t = TxFields /\ t.open = tx.open /\ t.s = tx.s /\ t.old = tx.old
            /\ t.put = tx.put /\ t.missed = tx.missed
BY DEF TxOK, TxFields

LEMMA GetDisputeGoes ==
  ASSUME TxOK, NEW id, GetDispute(id)
  PROVE  Goes /\ pg' = pg
<1>1. tx.open /\ ~tx.failed
  BY DEF GetDispute
<1>2. PICK p : p = Pg!GetDispute(pg, tx.s, id)
  OBVIOUS
<1>3. p.db = pg
  BY <1>2 DEF Pg!GetDispute, Pg!One, Pg!Failure, Pg!Answer
<1>4. PICK m, t : CallThen(p, m, t) /\ t = IF p.err = "ok" THEN [tx EXCEPT !.seen = @ \cup {id}] ELSE tx
  BY <1>2 DEF GetDispute
<1>5. /\ DOMAIN t = TxFields /\ t.open = tx.open /\ t.s = tx.s /\ t.old = tx.old
      /\ t.put = tx.put /\ t.missed = tx.missed
  BY <1>1, <1>4, SeenGoes DEF TxOK
<1>6. Goes
  BY <1>1, <1>4, <1>5, CallGoes
<1>. QED  BY <1>3, <1>4, <1>6 DEF CallThen, Both

-----------------------------------------------------------------------------
(* Steps of the other parts of the port.  Each is a call, or a sweep.      *)

Elsewhere == focus # "keys" /\ Goes

LEMMA CallElsewhere ==
  ASSUME TxOK, NEW part, part # "keys", Calling(part), NEW p, NEW m, Call(p, m)
  PROVE  Elsewhere
BY CallGoes DEF Calling, Call, Elsewhere, TxOK

LEMMA SeenElsewhere ==
  ASSUME TxOK, NEW part, part # "keys", Calling(part), NEW p, NEW m, NEW S,
         CallThen(p, m, [tx EXCEPT !.seen = S])
  PROVE  Elsewhere
<1>1. PICK t : t = [tx EXCEPT !.seen = S]
  OBVIOUS
<1>2. /\ DOMAIN t = TxFields /\ t.open = tx.open /\ t.s = tx.s /\ t.old = tx.old
      /\ t.put = tx.put /\ t.missed = tx.missed
  BY <1>1, SeenGoes DEF Calling
<1>. QED  BY <1>1, <1>2, CallGoes DEF Calling, Elsewhere

LEMMA LastElsewhere ==
  ASSUME TxOK, NEW p, NEW m, LastCall(p, m)
  PROVE  Elsewhere
<1>1. PICK t : t = [tx EXCEPT !.last = TRUE]
  OBVIOUS
<1>2. /\ DOMAIN t = TxFields /\ t.open = tx.open /\ t.s = tx.s /\ t.old = tx.old
      /\ t.put = tx.put /\ t.missed = tx.missed
  BY <1>1 DEF LastCall, Calling, TxOK, TxFields
<1>. QED  BY <1>1, <1>2, CallGoes DEF LastCall, Calling, Elsewhere

LEMMA AsideElsewhere ==
  ASSUME TxOK, NEW part, part # "keys", NEW p, NEW m, Aside(part, p, m)
  PROVE  Elsewhere
BY DEF Aside, Both, Elsewhere, Goes, TxOK

LEMMA Disputes ==
  ASSUME TxOK, NEW id
  PROVE  /\ \A t : GetTransaction(t) => Elsewhere
         /\ GetAccount => Elsewhere
         /\ TenantName => Elsewhere
         /\ CountByState => Elsewhere
         /\ \A v, st : UpdateDisputeState(id, v, st) => Elsewhere
         /\ \A seq, to : AppendEvent(id, seq, to) => Elsewhere
         /\ ListEvents(id) => Elsewhere
<1>1. /\ \A t : GetTransaction(t) => Elsewhere
      /\ GetAccount => Elsewhere
      /\ TenantName => Elsewhere
      /\ ListEvents(id) => Elsewhere
  BY CallElsewhere DEF GetTransaction, GetAccount, TenantName, ListEvents
<1>2. CountByState => Elsewhere
  BY AsideElsewhere DEF CountByState
<1>3. \A v, st : UpdateDisputeState(id, v, st) => Elsewhere
  BY CallElsewhere DEF UpdateDisputeState
<1>4. \A seq, to : AppendEvent(id, seq, to) => Elsewhere
  BY CallElsewhere DEF AppendEvent
<1>. QED  BY <1>1, <1>2, <1>3, <1>4


LEMMA DisputeWrites ==
  ASSUME TxOK, NEW id
  PROVE  /\ \A team : InsertDispute(id, team) => Elsewhere
         /\ \A v, team : UpdateDisputeTeam(id, v, team) => Elsewhere
         /\ \A since : AccountHistory(id, since) => Elsewhere
<1>1. ASSUME NEW team, InsertDispute(id, team) PROVE Elsewhere
  <2>1. PICK part, p, m : part # "keys" /\ Calling(part) /\ CallThen(p, m, [tx EXCEPT !.seen = tx.seen \cup {id}])
    BY <1>1 DEF InsertDispute
  <2>. QED  BY <2>1, SeenElsewhere
<1>2. ASSUME NEW v, NEW team, UpdateDisputeTeam(id, v, team) PROVE Elsewhere
  <2>1. PICK part, p, m : part # "keys" /\ Calling(part) /\ CallThen(p, m, [tx EXCEPT !.seen = tx.seen \ {id}])
    BY <1>2 DEF UpdateDisputeTeam
  <2>. QED  BY <2>1, SeenElsewhere
<1>3. ASSUME NEW since, AccountHistory(id, since) PROVE Elsewhere
  BY <1>3 DEF AccountHistory, Calling, Both, Elsewhere, Goes, TxOK, TxFields
<1>. QED  BY <1>1, <1>2, <1>3

LEMMA Lists ==
  ASSUME TxOK
  PROVE  /\ \A s, q : FirstPage(s, q) => Elsewhere
         /\ NextPage => Elsewhere
BY DEF FirstPage, NextPage, Show, Elsewhere, Goes, TxOK

LEMMA ClocksAndBooks ==
  ASSUME TxOK, NEW id
  PROVE  /\ \A cycle, dues : InsertDeadlines(id, cycle, dues) => Elsewhere
         /\ ListDeadlines(id) => Elsewhere
         /\ \A kind, cycle, met : SettleDeadline(id, kind, cycle, met) => Elsewhere
         /\ NextDeadlines \/ ListOverdue \/ CountOverdue \/ TenantCalendar => Elsewhere
         /\ \A seq, kinds : AppendLedger(id, seq, kinds) => Elsewhere
         /\ ListLedger(id) => Elsewhere
         /\ SuspenseBalances \/ TenantCore => Elsewhere
<1>1. \A cycle, dues : InsertDeadlines(id, cycle, dues) => Elsewhere
  BY CallElsewhere DEF InsertDeadlines
<1>2. \A kind, cycle, met : SettleDeadline(id, kind, cycle, met) => Elsewhere
  BY CallElsewhere DEF SettleDeadline
<1>3. NextDeadlines \/ ListOverdue \/ TenantCalendar \/ ListDeadlines(id) => Elsewhere
  BY CallElsewhere DEF NextDeadlines, ListOverdue, TenantCalendar, ListDeadlines
<1>4. CountOverdue \/ SuspenseBalances => Elsewhere
  BY AsideElsewhere DEF CountOverdue, SuspenseBalances
<1>5. \A seq, kinds : AppendLedger(id, seq, kinds) => Elsewhere
  BY CallElsewhere DEF AppendLedger
<1>6. ListLedger(id) \/ TenantCore => Elsewhere
  BY CallElsewhere DEF ListLedger, TenantCore
<1>. QED  BY <1>1, <1>2, <1>3, <1>4, <1>5, <1>6

LEMMA RiskAndQuestions ==
  ASSUME TxOK, NEW id
  PROVE  /\ \A seq, tier : InsertRisk(id, seq, tier) => Elsewhere
         /\ ListRisk(id) \/ LatestRisk \/ GetQuestionnaire(id) => Elsewhere
         /\ \A q : SendQuestionnaire(id, q) \/ AnswerQuestionnaire(id, q) => Elsewhere
<1>1. \A seq, tier : InsertRisk(id, seq, tier) => Elsewhere
  BY CallElsewhere DEF InsertRisk
<1>2. ListRisk(id) \/ LatestRisk \/ GetQuestionnaire(id) => Elsewhere
  BY CallElsewhere DEF ListRisk, LatestRisk, GetQuestionnaire
<1>3. \A q : SendQuestionnaire(id, q) \/ AnswerQuestionnaire(id, q) => Elsewhere
  BY CallElsewhere DEF SendQuestionnaire, AnswerQuestionnaire
<1>. QED  BY <1>1, <1>2, <1>3

LEMMA LettersAndFiles ==
  ASSUME TxOK, NEW id
  PROVE  /\ \A channel, actor : InsertNotice(id, channel, actor) => Elsewhere
         /\ \A orig : ResendNotice(id, orig) => Elsewhere
         /\ ListNotices(id) => Elsewhere
         /\ \A n : GetNotice(id, n) => Elsewhere
         /\ ClaimNotices \/ OutboxBacklog => Elsewhere
         /\ \A n, failed : FinishNotice(n, failed) => Elsewhere
         /\ \A f : InsertAttachment(id, f) \/ GetAttachment(id, f) => Elsewhere
         /\ \A fs : ClaimAttachments(id, fs) => Elsewhere
         /\ ListAttachmentMeta(id) \/ NoticeAttachments(id) \/ PurgeDraftAttachments => Elsewhere
<1>1. /\ \A channel, actor : InsertNotice(id, channel, actor) => Elsewhere
      /\ \A orig : ResendNotice(id, orig) => Elsewhere
  BY CallElsewhere DEF InsertNotice, ResendNotice
<1>2. ListNotices(id) \/ ListAttachmentMeta(id) => Elsewhere
  BY CallElsewhere DEF ListNotices, ListAttachmentMeta
<1>3. \A n : GetNotice(id, n) => Elsewhere
  BY CallElsewhere DEF GetNotice
<1>4. ClaimNotices => Elsewhere
  BY AsideElsewhere DEF ClaimNotices
<1>5. OutboxBacklog \/ NoticeAttachments(id) \/ PurgeDraftAttachments => Elsewhere
  BY AsideElsewhere DEF OutboxBacklog, NoticeAttachments, PurgeDraftAttachments
<1>6. \A n, failed : FinishNotice(n, failed) => Elsewhere
  BY AsideElsewhere DEF FinishNotice
<1>7. \A f : InsertAttachment(id, f) \/ GetAttachment(id, f) => Elsewhere
  BY CallElsewhere DEF InsertAttachment, GetAttachment
<1>8. \A fs : ClaimAttachments(id, fs) => Elsewhere
  BY CallElsewhere DEF ClaimAttachments
<1>. QED  BY <1>1, <1>2, <1>3, <1>4, <1>5, <1>6, <1>7, <1>8

LEMMA TenantsOwn ==
  ASSUME TxOK
  PROVE  /\ TenantTemplates \/ GetTenantMetadata \/ GetTenantLogo \/ GetAnalystAvatar => Elsewhere
         /\ \A kind, text : PutTenantTemplate(kind, text) => Elsewhere
         /\ \A kind : DeleteTenantTemplate(kind) => Elsewhere
         /\ \A image : PutTenantLogo(image) \/ PutAnalystAvatar(image) => Elsewhere
<1>1. TenantTemplates \/ GetTenantMetadata \/ GetTenantLogo \/ GetAnalystAvatar => Elsewhere
  BY CallElsewhere DEF TenantTemplates, GetTenantMetadata, GetTenantLogo, GetAnalystAvatar
<1>2. \A kind, text : PutTenantTemplate(kind, text) => Elsewhere
  BY LastElsewhere DEF PutTenantTemplate
<1>3. \A kind : DeleteTenantTemplate(kind) => Elsewhere
  BY LastElsewhere DEF DeleteTenantTemplate
<1>4. \A image : PutTenantLogo(image) \/ PutAnalystAvatar(image) => Elsewhere
  BY LastElsewhere DEF PutTenantLogo, PutAnalystAvatar
<1>. QED  BY <1>1, <1>2, <1>3, <1>4

\* The steps that matter to the keys, and the rest.
LEMMA StoreSteps ==
  ASSUME TxOK, [Next]_vars
  PROVE  \/ \E s \in Sessions : Begin(s)
         \/ Rollback \/ Commit \/ Tick
         \/ \E k \in Keys : GetIdempotent(k) \/ \E h : PutIdempotent(k, h)
         \/ PurgeIdempotencyKeys
         \/ \E id \in Ids : GetDispute(id)
         \/ Elsewhere
         \/ UNCHANGED vars
BY Disputes, DisputeWrites, Lists, ClocksAndBooks, RiskAndQuestions, LettersAndFiles, TenantsOwn, Zenon DEF Next


-----------------------------------------------------------------------------
(* Keys.  A request that was carried out is remembered by its row until    *)
(* the retention has passed, in the database as in the image a rollback    *)
(* puts back; a transaction stores a key only after it looked it up in     *)
(* vain.                                                                   *)

Row(rows, k) == {r \in rows : r.tenant = k[1] /\ r.scope = Scope /\ r.key = k[2]}

Old(t) == now - t > Retention

Remembered(rows) ==
  \A k \in Tenants \X Keys : \A t \in applied[k] : Old(t) \/ \E r \in Row(rows, k) : r.at = t

TimesOK ==
  /\ now \in Int
  /\ DOMAIN applied = Tenants \X Keys
  /\ \A k \in Tenants \X Keys : \A t \in applied[k] : t \in Int /\ t <= now

ImagesOK ==
  focus = "keys" =>
    /\ "keys" \in DOMAIN pg /\ Remembered(pg.keys)
    /\ tx.open => "keys" \in DOMAIN tx.old /\ Remembered(tx.old.keys)

LookedUp ==
  focus = "keys" /\ tx.open /\ ~tx.failed =>
    /\ tx.missed \subseteq Keys
    /\ \A k \in tx.missed : Row(pg.keys, <<tx.s.tenant, k>>) = {}
    /\ \A k \in tx.put : /\ k \in Tenants \X Keys
                         /\ \E r \in Row(pg.keys, k) : r.at = now
                         /\ \A t \in applied[k] : Old(t)

Untouched ==
  focus # "keys" =>
    /\ \A k \in Tenants \X Keys : applied[k] = {}
    /\ tx.open => tx.put = {}

KeysInv == TxOK /\ TimesOK /\ ImagesOK /\ LookedUp /\ Untouched /\ RepeatsOnlyAfterRetention

LEMMA KeysInit == Init => KeysInv
<1>. SUFFICES ASSUME Init PROVE KeysInv
  OBVIOUS
<1>1. TxOK
  BY DEF Init, TxOK, NoTx
<1>2. ~tx.open
  BY DEF Init, NoTx
<1>3. TimesOK /\ \A k \in Tenants \X Keys : applied[k] = {}
  BY DEF Init, TimesOK
<1>4. "keys" \in DOMAIN pg
  BY DEF Init, EmptyPg
<1>. QED  BY <1>1, <1>2, <1>3, <1>4
       DEF KeysInv, ImagesOK, Remembered, LookedUp, Untouched, RepeatsOnlyAfterRetention, TimesOK

\* The transaction goes on and no key was touched.
LEMMA GoesKeeps ==
  ASSUME KeysInv, Goes, focus = "keys" => pg' = pg
  PROVE  KeysInv'
<1>1. TxOK' /\ TimesOK' /\ RepeatsOnlyAfterRetention'
  BY DEF KeysInv, Goes, TxOK, TimesOK, RepeatsOnlyAfterRetention
<1>2. ImagesOK'
  BY DEF KeysInv, Goes, ImagesOK, Remembered, Old
<1>3. LookedUp'
  BY DEF KeysInv, Goes, LookedUp, Old
<1>4. Untouched'
  BY DEF KeysInv, Goes, Untouched
<1>. QED  BY <1>1, <1>2, <1>3, <1>4 DEF KeysInv

LEMMA BeginKeeps ==
  ASSUME KeysInv, NEW s \in Sessions, Begin(s)
  PROVE  KeysInv'
<1>1. /\ DOMAIN tx' = TxFields /\ tx'.open = TRUE /\ tx'.failed = FALSE /\ tx'.s = s
      /\ tx'.old = pg /\ tx'.missed = {} /\ tx'.put = {}
  BY DEF Begin, TxFields
<1>2. UNCHANGED <<pg, now, focus, applied>>
  BY DEF Begin
<1>3. TxOK'
  BY <1>1 DEF TxOK
<1>4. TimesOK' /\ RepeatsOnlyAfterRetention'
  BY <1>2 DEF KeysInv, TimesOK, RepeatsOnlyAfterRetention
<1>5. ImagesOK'
  BY <1>1, <1>2 DEF KeysInv, ImagesOK, Remembered, Old
<1>6. LookedUp' /\ Untouched'
  BY <1>1, <1>2 DEF KeysInv, LookedUp, Untouched
<1>. QED  BY <1>3, <1>4, <1>5, <1>6 DEF KeysInv

LEMMA RollbackKeeps ==
  ASSUME KeysInv, Rollback
  PROVE  KeysInv'
<1>1. tx'.open = FALSE /\ tx.open /\ UNCHANGED <<now, focus, applied>>
  BY DEF Rollback, NoTx
<1>2. "keys" \in DOMAIN tx.old => "keys" \in DOMAIN pg' /\ pg'.keys = tx.old.keys
  BY DEF Rollback
<1>3. TxOK' /\ TimesOK' /\ RepeatsOnlyAfterRetention'
  BY <1>1 DEF KeysInv, TxOK, TimesOK, RepeatsOnlyAfterRetention
<1>4. ImagesOK'
  BY <1>1, <1>2 DEF KeysInv, ImagesOK, Remembered, Old
<1>5. LookedUp' /\ Untouched'
  BY <1>1 DEF KeysInv, LookedUp, Untouched
<1>. QED  BY <1>3, <1>4, <1>5 DEF KeysInv

LEMMA CommitKeeps ==
  ASSUME KeysInv, Commit
  PROVE  KeysInv'
<1>1. tx'.open = FALSE /\ tx.open /\ ~tx.failed /\ UNCHANGED <<pg, now, focus>>
  BY DEF Commit, NoTx
<1>2. /\ DOMAIN applied' = Tenants \X Keys
      /\ \A k \in Tenants \X Keys : applied'[k] = IF k \in tx.put THEN applied[k] \cup {now} ELSE applied[k]
  BY DEF Commit, KeysInv, TimesOK
<1>3. TxOK' /\ LookedUp'
  BY <1>1 DEF TxOK, LookedUp
<1>4. TimesOK'
  BY <1>1, <1>2 DEF KeysInv, TimesOK
<1>5. CASE focus = "keys"
  <2>1. \A k \in tx.put : (\E r \in Row(pg.keys, k) : r.at = now) /\ \A t \in applied[k] : Old(t)
    BY <1>1, <1>5 DEF KeysInv, LookedUp
  <2>2. ImagesOK'
    BY <1>1, <1>2, <1>5, <2>1 DEF KeysInv, ImagesOK, Remembered, Old
  <2>3. RepeatsOnlyAfterRetention'
    <3>. SUFFICES ASSUME NEW k \in Tenants \X Keys, NEW t \in applied'[k], NEW u \in applied'[k], t < u
                  PROVE  u - t > Retention
      BY <1>2 DEF RepeatsOnlyAfterRetention
    <3>1. CASE t \in applied[k] /\ u \in applied[k]
      BY <3>1 DEF KeysInv, RepeatsOnlyAfterRetention, TimesOK
    <3>2. CASE ~(t \in applied[k] /\ u \in applied[k])
      <4>1. k \in tx.put /\ (t = now \/ u = now) /\ (t = now \/ t \in applied[k]) /\ (u = now \/ u \in applied[k])
        BY <1>2, <3>2
      <4>2. t \in Int /\ u \in Int /\ t <= now /\ u <= now /\ now \in Int
        BY <4>1 DEF KeysInv, TimesOK
      <4>3. u = now /\ t \in applied[k]
        BY <4>1, <4>2
      <4>. QED  BY <2>1, <4>1, <4>3 DEF Old
    <3>. QED  BY <3>1, <3>2
  <2>. QED  BY <1>1, <1>3, <1>4, <1>5, <2>2, <2>3 DEF KeysInv, Untouched
<1>6. CASE focus # "keys"
  <2>1. \A k \in Tenants \X Keys : applied'[k] = {}
    BY <1>1, <1>2, <1>6 DEF KeysInv, Untouched
  <2>. QED  BY <1>1, <1>2, <1>3, <1>4, <1>6, <2>1 DEF KeysInv, ImagesOK, Untouched, RepeatsOnlyAfterRetention
<1>. QED  BY <1>5, <1>6

LEMMA TickKeeps ==
  ASSUME KeysInv, Tick
  PROVE  KeysInv'
<1>1. ~tx.open /\ now' = now + 1 /\ UNCHANGED <<pg, tx, focus, applied>>
  BY DEF Tick
<1>2. TxOK' /\ LookedUp' /\ Untouched' /\ RepeatsOnlyAfterRetention'
  BY <1>1 DEF KeysInv, TxOK, LookedUp, Untouched, RepeatsOnlyAfterRetention
<1>3. TimesOK'
  BY <1>1 DEF KeysInv, TimesOK
<1>4. \A k \in Tenants \X Keys : \A t \in applied[k] : Old(t) => Old(t)'
  BY <1>1, StoreAssumption DEF Old, KeysInv, TimesOK
<1>5. ImagesOK'
  BY <1>1, <1>4 DEF KeysInv, ImagesOK, Remembered
<1>. QED  BY <1>2, <1>3, <1>5 DEF KeysInv

LEMMA PurgeKeeps ==
  ASSUME KeysInv, PurgeIdempotencyKeys
  PROVE  KeysInv'
<1>1. focus = "keys" /\ ~tx.open /\ tx' = tx /\ UNCHANGED <<now, focus, applied>>
  BY DEF PurgeIdempotencyKeys, Aside, Both
<1>2. "keys" \in DOMAIN pg' /\ pg'.keys = {r \in pg.keys : ~(r.at < now - Retention)}
  <2>1. "keys" \in DOMAIN pg
    BY <1>1 DEF KeysInv, ImagesOK
  <2>. QED
    BY <2>1 DEF PurgeIdempotencyKeys, Aside, Both, Pg!PurgeIdempotencyKeys, Pg!Counted, Pg!Exec,
                Pg!Q!PurgeIdempotencyKeys, Pg!Q!Done
<1>3. TxOK' /\ TimesOK' /\ LookedUp' /\ Untouched' /\ RepeatsOnlyAfterRetention'
  BY <1>1 DEF KeysInv, TxOK, TimesOK, LookedUp, Untouched, RepeatsOnlyAfterRetention
<1>4. \A t \in Int : t < now - Retention => Old(t)
  BY StoreAssumption DEF Old, KeysInv, TimesOK
<1>5. Remembered(pg'.keys)
  BY <1>1, <1>2, <1>4 DEF KeysInv, ImagesOK, TimesOK, Remembered, Row
<1>6. ImagesOK'
  BY <1>1, <1>2, <1>5 DEF ImagesOK, Remembered, Old
<1>. QED  BY <1>3, <1>6 DEF KeysInv

LEMMA GetKeeps ==
  ASSUME KeysInv, NEW k \in Keys, GetIdempotent(k)
  PROVE  KeysInv'
<1>1. focus = "keys" /\ tx.open /\ ~tx.failed
  BY DEF GetIdempotent, Calling
<1>2. PICK p : p = Pg!GetIdempotent(pg, tx.s, Scope, k)
  OBVIOUS
<1>3. p.db = pg /\ (p.err # "ok" => Row(pg.keys, <<tx.s.tenant, k>>) = {})
  BY <1>2 DEF Pg!GetIdempotent, Pg!One, Pg!Failure, Pg!Answer, Pg!Q!GetIdempotencyKey, Pg!Q!InTenant, Row
<1>4. PICK m, t : CallThen(p, m, t) /\ t = IF p.err = "ok" THEN tx ELSE [tx EXCEPT !.missed = @ \cup {k}]
  BY <1>2 DEF GetIdempotent
<1>5. /\ DOMAIN t = TxFields /\ t.open = TRUE /\ t.s = tx.s /\ t.old = tx.old /\ t.put = tx.put
      /\ t.missed = IF p.err = "ok" THEN tx.missed ELSE tx.missed \cup {k}
  BY <1>1, <1>4 DEF KeysInv, TxOK, TxFields
<1>6. /\ DOMAIN tx' = TxFields /\ tx'.open = TRUE /\ tx'.failed \in BOOLEAN /\ tx'.s = tx.s
      /\ tx'.old = tx.old /\ tx'.put = tx.put /\ tx'.missed = t.missed
      /\ pg' = pg /\ UNCHANGED <<now, focus, applied>>
  BY <1>3, <1>4, <1>5 DEF CallThen, Both, TxFields
<1>7. TxOK' /\ TimesOK' /\ RepeatsOnlyAfterRetention'
  BY <1>1, <1>6 DEF KeysInv, TxOK, TimesOK, RepeatsOnlyAfterRetention
<1>8. ImagesOK' /\ Untouched'
  BY <1>1, <1>6 DEF KeysInv, ImagesOK, Remembered, Old, Untouched
<1>9. LookedUp'
  BY <1>1, <1>3, <1>5, <1>6 DEF KeysInv, LookedUp, Old
<1>. QED  BY <1>7, <1>8, <1>9 DEF KeysInv

LEMMA PutKeeps ==
  ASSUME KeysInv, NEW k \in Keys, NEW h, PutIdempotent(k, h)
  PROVE  KeysInv'
<1>1. focus = "keys" /\ tx.open /\ ~tx.failed /\ k \in tx.missed
  BY DEF PutIdempotent, Calling
<1>2. PICK p, new, at : /\ p = Pg!PutIdempotent(pg, tx.s, Scope, k, h, now)
                        /\ new = [tenant |-> tx.s.tenant, scope |-> Scope, key |-> k, hash |-> h, at |-> now]
                        /\ at = <<tx.s.tenant, k>>
  OBVIOUS
<1>3. at \in Tenants \X Keys
  BY <1>1, <1>2 DEF KeysInv, TxOK, Tenants
<1>4. Row(pg.keys, at) = {} /\ "keys" \in DOMAIN pg
  BY <1>1, <1>2 DEF KeysInv, LookedUp, ImagesOK
<1>5. "keys" \in DOMAIN p.db /\ p.db.keys = pg.keys \cup {new}
  BY <1>2, <1>4 DEF Pg!PutIdempotent, Pg!Exec, Pg!Q!InsertIdempotencyKey, Pg!Q!Done,
                    Pg!Q!GetIdempotencyKey, Pg!Q!InTenant, Row
<1>6. PICK m, t : CallThen(p, m, t) /\ t = [tx EXCEPT !.put = @ \cup {at}, !.missed = @ \ {k}]
  BY <1>2 DEF PutIdempotent
<1>7. /\ DOMAIN t = TxFields /\ t.open = TRUE /\ t.s = tx.s /\ t.old = tx.old
      /\ t.put = tx.put \cup {at} /\ t.missed = tx.missed \ {k}
  BY <1>1, <1>6 DEF KeysInv, TxOK, TxFields
<1>8. /\ DOMAIN tx' = TxFields /\ tx'.open = TRUE /\ tx'.failed \in BOOLEAN /\ tx'.s = tx.s
      /\ tx'.old = tx.old /\ tx'.put = t.put /\ tx'.missed = t.missed
      /\ pg' = p.db /\ UNCHANGED <<now, focus, applied>>
  BY <1>6, <1>7 DEF CallThen, Both, TxFields
<1>9. TxOK' /\ TimesOK' /\ RepeatsOnlyAfterRetention' /\ Untouched'
  BY <1>1, <1>8 DEF KeysInv, TxOK, TimesOK, RepeatsOnlyAfterRetention, Untouched
<1>10. \A j : Row(pg'.keys, j) = Row(pg.keys, j) \cup (IF j[1] = tx.s.tenant /\ j[2] = k THEN {new} ELSE {})
  BY <1>2, <1>5, <1>8 DEF Row
<1>11. ImagesOK'
  BY <1>1, <1>5, <1>8, <1>10 DEF KeysInv, ImagesOK, Remembered, Old
<1>12. \A u \in applied[at] : Old(u)
  BY <1>1, <1>3, <1>4 DEF KeysInv, ImagesOK, Remembered
<1>13. \E r \in Row(pg'.keys, at) : r.at = now
  BY <1>2, <1>10
<1>14. LookedUp'
  <2>1. tx'.missed \subseteq Keys /\ \A j \in tx'.missed : j # k /\ Row(pg'.keys, <<tx.s.tenant, j>>) = {}
    BY <1>1, <1>7, <1>8, <1>10 DEF KeysInv, LookedUp
  <2>2. \A j \in tx.put : /\ j \in Tenants \X Keys
                          /\ \E r \in Row(pg'.keys, j) : r.at = now
                          /\ \A u \in applied[j] : Old(u)
    BY <1>1, <1>10 DEF KeysInv, LookedUp
  <2>. QED  BY <1>3, <1>7, <1>8, <1>12, <1>13, <2>1, <2>2 DEF LookedUp, Old
<1>. QED  BY <1>9, <1>11, <1>14 DEF KeysInv

LEMMA KeysNext == KeysInv /\ [Next]_vars => KeysInv'
<1>. SUFFICES ASSUME KeysInv, [Next]_vars PROVE KeysInv'
  OBVIOUS
<1>0. TxOK
  BY DEF KeysInv
<1>1. ASSUME NEW id \in Ids, GetDispute(id) PROVE KeysInv'
  BY <1>0, <1>1, GetDisputeGoes, GoesKeeps
<1>2. CASE Elsewhere
  BY <1>2, GoesKeeps DEF Elsewhere
<1>3. CASE UNCHANGED vars
  <2>1. Goes /\ pg' = pg
    BY <1>0, <1>3 DEF vars, Goes, TxOK
  <2>. QED  BY <2>1, GoesKeeps
<1>. QED  BY <1>0, <1>1, <1>2, <1>3, StoreSteps, BeginKeeps, RollbackKeeps, CommitKeeps, TickKeeps,
             PurgeKeeps, GetKeeps, PutKeeps

\* A request is carried out again under the same key only after the retention has passed
\* since it was carried out before: whatever transactions look the key up, store it and
\* roll back, and however the sweeps fall (PurgeIdempotencyKeys, GetIdempotent).
THEOREM RepeatsWaitForTheRetention == Spec => []RepeatsOnlyAfterRetention
<1>1. KeysInv => RepeatsOnlyAfterRetention
  BY DEF KeysInv
<1>. QED  BY <1>1, KeysInit, KeysNext, PTL DEF Spec


-----------------------------------------------------------------------------
(* Scope.  What a statement does to the database, for any database: the    *)
(* rows of other tenants and of the disputes a session does not see stay.  *)

DisputeTables == {"events", "deadlines", "questionnaires", "files"}
NumberedTables == {"ledger", "risk", "notices"}
TenantTables == {"keys", "templates", "logos", "avatars"}
PgFields == DisputeTables \cup NumberedTables \cup TenantTables
            \cup {"transactions", "accounts", "disputes", "noticeId", "leased", "settings"}

PgOK(db) ==
  /\ DOMAIN db = PgFields
  /\ \A d \in db.disputes : "id" \in DOMAIN d
  /\ \A f \in DisputeTables : \A r \in db[f] : "dispute" \in DOMAIN r
  /\ \A f \in NumberedTables : \E S : db[f] \in Seq(S)

Hidden(db, s) == {d.id : d \in {x \in db.disputes : ~Pg!Q!Sees(db, s, x.id)}}

InScope(db, new, s) ==
  /\ OtherTenants(new, s.tenant) = OtherTenants(db, s.tenant)
  /\ \A id \in Hidden(db, s) : RowsOf(new, id) = RowsOf(db, id)

Keeps(db, new, s) == PgOK(new) /\ InScope(db, new, s)

LEMMA Nothing == ASSUME NEW db, PgOK(db), NEW s PROVE Keeps(db, db, s)
BY DEF Keeps, InScope

\* What is enough, table by table.
LEMMA TablesKeep ==
  ASSUME NEW db, NEW new, PgOK(new), NEW s,
         \A f \in TenantTables : {r \in new[f] : r.tenant # s.tenant} = {r \in db[f] : r.tenant # s.tenant},
         \A id \in Hidden(db, s) : {d \in new.disputes : d.id = id} = {d \in db.disputes : d.id = id},
         \A id \in Hidden(db, s) : \A f \in DisputeTables : {r \in new[f] : r.dispute = id} = {r \in db[f] : r.dispute = id},
         \A id \in Hidden(db, s) : \A f \in NumberedTables : Placed(new[f], id) = Placed(db[f], id)
  PROVE  Keeps(db, new, s)
<1>1. OtherTenants(new, s.tenant) = OtherTenants(db, s.tenant)
  <2>1. /\ {r \in new.keys : r.tenant # s.tenant} = {r \in db.keys : r.tenant # s.tenant}
        /\ {r \in new.templates : r.tenant # s.tenant} = {r \in db.templates : r.tenant # s.tenant}
        /\ {r \in new.logos : r.tenant # s.tenant} = {r \in db.logos : r.tenant # s.tenant}
        /\ {r \in new.avatars : r.tenant # s.tenant} = {r \in db.avatars : r.tenant # s.tenant}
    BY DEF TenantTables
  <2>. QED  BY <2>1 DEF OtherTenants
<1>2. ASSUME NEW id \in Hidden(db, s) PROVE RowsOf(new, id) = RowsOf(db, id)
  <2>2. /\ {r \in new.events : r.dispute = id} = {r \in db.events : r.dispute = id}
        /\ {r \in new.deadlines : r.dispute = id} = {r \in db.deadlines : r.dispute = id}
        /\ {r \in new.questionnaires : r.dispute = id} = {r \in db.questionnaires : r.dispute = id}
        /\ {r \in new.files : r.dispute = id} = {r \in db.files : r.dispute = id}
    BY <1>2 DEF DisputeTables
  <2>3. /\ Placed(new.ledger, id) = Placed(db.ledger, id)
        /\ Placed(new.risk, id) = Placed(db.risk, id)
        /\ Placed(new.notices, id) = Placed(db.notices, id)
    BY <1>2 DEF NumberedTables
  <2>4. {d \in new.disputes : d.id = id} = {d \in db.disputes : d.id = id}
    BY <1>2
  <2>. QED  BY <2>2, <2>3, <2>4 DEF RowsOf
<1>. QED  BY <1>1, <1>2 DEF Keeps, InScope

\* A statement writes one table.
LEMMA DisputesOnly ==
  ASSUME NEW db, PgOK(db), NEW s, NEW X, \A d \in X : "id" \in DOMAIN d,
         \A id \in Hidden(db, s) : {d \in X : d.id = id} = {d \in db.disputes : d.id = id}
  PROVE  Keeps(db, [db EXCEPT !.disputes = X], s)
<1>1. PICK new : new = [db EXCEPT !.disputes = X]
  OBVIOUS
<1>2. DOMAIN new = PgFields /\ new.disputes = X /\ \A f \in PgFields \ {"disputes"} : new[f] = db[f]
  BY <1>1 DEF PgOK, PgFields
<1>3. "disputes" \notin DisputeTables \cup NumberedTables \cup TenantTables
  BY DEF DisputeTables, NumberedTables, TenantTables
<1>4. \A f \in DisputeTables \cup NumberedTables \cup TenantTables : new[f] = db[f]
  BY <1>2, <1>3 DEF PgFields
<1>5. PgOK(new)
  BY <1>2, <1>4 DEF PgOK
<1>6. \A id \in Hidden(db, s) : {d \in new.disputes : d.id = id} = {d \in db.disputes : d.id = id}
  BY <1>2
<1>7. \A g \in TenantTables : {r \in new[g] : r.tenant # s.tenant} = {r \in db[g] : r.tenant # s.tenant}
  BY <1>4
<1>8. \A id \in Hidden(db, s) : \A g \in DisputeTables : {r \in new[g] : r.dispute = id} = {r \in db[g] : r.dispute = id}
  BY <1>4
<1>9. \A id \in Hidden(db, s) : \A g \in NumberedTables : Placed(new[g], id) = Placed(db[g], id)
  BY <1>4
<1>10. Keeps(db, new, s)
  BY <1>5, <1>6, <1>7, <1>8, <1>9, TablesKeep
<1>. QED  BY <1>1, <1>10

LEMMA RowsOnly ==
  ASSUME NEW db, PgOK(db), NEW s, NEW f \in DisputeTables, NEW X, \A r \in X : "dispute" \in DOMAIN r,
         \A id \in Hidden(db, s) : {r \in X : r.dispute = id} = {r \in db[f] : r.dispute = id}
  PROVE  Keeps(db, [db EXCEPT ![f] = X], s)
<1>1. PICK new : new = [db EXCEPT ![f] = X]
  OBVIOUS
<1>2. DOMAIN new = PgFields /\ new[f] = X /\ \A g \in PgFields \ {f} : new[g] = db[g]
  BY <1>1 DEF PgOK, PgFields
<1>3. f \notin {"disputes"} \cup NumberedTables \cup TenantTables
  BY DEF DisputeTables, NumberedTables, TenantTables
<1>4. \A g \in {"disputes"} \cup NumberedTables \cup TenantTables : new[g] = db[g]
  BY <1>2, <1>3 DEF PgFields
<1>5. \A g \in DisputeTables \ {f} : new[g] = db[g]
  BY <1>2 DEF PgFields
<1>6. PgOK(new)
  BY <1>2, <1>4, <1>5 DEF PgOK
<1>7. \A id \in Hidden(db, s) : \A g \in DisputeTables : {r \in new[g] : r.dispute = id} = {r \in db[g] : r.dispute = id}
  BY <1>2, <1>5
<1>8. new.disputes = db.disputes
  BY <1>4
<1>9. \A id \in Hidden(db, s) : {d \in new.disputes : d.id = id} = {d \in db.disputes : d.id = id}
  BY <1>8
<1>10. \A g \in TenantTables : {r \in new[g] : r.tenant # s.tenant} = {r \in db[g] : r.tenant # s.tenant}
  BY <1>4
<1>11. \A id \in Hidden(db, s) : \A g \in NumberedTables : Placed(new[g], id) = Placed(db[g], id)
  BY <1>4
<1>12. Keeps(db, new, s)
  BY <1>6, <1>7, <1>9, <1>10, <1>11, TablesKeep
<1>. QED  BY <1>1, <1>12

LEMMA AppendOnly ==
  ASSUME NEW db, PgOK(db), NEW s, NEW f \in NumberedTables, NEW row, row.dispute \notin Hidden(db, s)
  PROVE  Keeps(db, [db EXCEPT ![f] = Append(@, row)], s)
<1>1. PICK new : new = [db EXCEPT ![f] = Append(@, row)]
  OBVIOUS
<1>2. DOMAIN new = PgFields /\ new[f] = Append(db[f], row) /\ \A g \in PgFields \ {f} : new[g] = db[g]
  BY <1>1 DEF PgOK, PgFields
<1>3. f \notin {"disputes"} \cup DisputeTables \cup TenantTables
  BY DEF DisputeTables, NumberedTables, TenantTables
<1>4. \A g \in {"disputes"} \cup DisputeTables \cup TenantTables : new[g] = db[g]
  BY <1>2, <1>3 DEF PgFields
<1>5. \A g \in NumberedTables \ {f} : new[g] = db[g]
  BY <1>2 DEF PgFields
<1>6. PICK S : db[f] \in Seq(S)
  BY DEF PgOK
<1>7. PICK T : T = S \cup {row}
  OBVIOUS
<1>8. db[f] \in Seq(T)
  BY <1>6, <1>7
<1>9. new[f] \in Seq(T)
  BY <1>2, <1>7, <1>8
<1>10. PgOK(new)
  BY <1>2, <1>4, <1>5, <1>9 DEF PgOK
<1>11. DOMAIN new[f] = DOMAIN db[f] \cup {Len(db[f]) + 1} /\ new[f][Len(db[f]) + 1] = row
  BY <1>2, <1>8
<1>12. \A i \in DOMAIN db[f] : new[f][i] = db[f][i]
  BY <1>2, <1>8
<1>13. \A id \in Hidden(db, s) : Placed(new[f], id) = Placed(db[f], id)
  BY <1>11, <1>12 DEF Placed
<1>14. \A id \in Hidden(db, s) : \A g \in NumberedTables : Placed(new[g], id) = Placed(db[g], id)
  BY <1>5, <1>13
<1>15. new.disputes = db.disputes
  BY <1>4
<1>16. \A id \in Hidden(db, s) : {d \in new.disputes : d.id = id} = {d \in db.disputes : d.id = id}
  BY <1>15
<1>17. \A g \in TenantTables : {r \in new[g] : r.tenant # s.tenant} = {r \in db[g] : r.tenant # s.tenant}
  BY <1>4
<1>18. \A id \in Hidden(db, s) : \A g \in DisputeTables : {r \in new[g] : r.dispute = id} = {r \in db[g] : r.dispute = id}
  BY <1>4
<1>19. Keeps(db, new, s)
  BY <1>10, <1>14, <1>16, <1>17, <1>18, TablesKeep
<1>. QED  BY <1>1, <1>19

LEMMA TenantOnly ==
  ASSUME NEW db, PgOK(db), NEW s, NEW f \in TenantTables, NEW X,
         {r \in X : r.tenant # s.tenant} = {r \in db[f] : r.tenant # s.tenant}
  PROVE  Keeps(db, [db EXCEPT ![f] = X], s)
<1>1. PICK new : new = [db EXCEPT ![f] = X]
  OBVIOUS
<1>2. DOMAIN new = PgFields /\ new[f] = X /\ \A g \in PgFields \ {f} : new[g] = db[g]
  BY <1>1 DEF PgOK, PgFields
<1>3. f \notin {"disputes"} \cup DisputeTables \cup NumberedTables
  BY DEF DisputeTables, NumberedTables, TenantTables
<1>4. \A g \in {"disputes"} \cup DisputeTables \cup NumberedTables : new[g] = db[g]
  BY <1>2, <1>3 DEF PgFields
<1>5. \A g \in TenantTables \ {f} : new[g] = db[g]
  BY <1>2 DEF PgFields
<1>6. PgOK(new)
  BY <1>2, <1>4 DEF PgOK
<1>7. \A g \in TenantTables : {r \in new[g] : r.tenant # s.tenant} = {r \in db[g] : r.tenant # s.tenant}
  BY <1>2, <1>5
<1>8. new.disputes = db.disputes
  BY <1>4
<1>9. \A id \in Hidden(db, s) : {d \in new.disputes : d.id = id} = {d \in db.disputes : d.id = id}
  BY <1>8
<1>10. \A id \in Hidden(db, s) : \A g \in DisputeTables : {r \in new[g] : r.dispute = id} = {r \in db[g] : r.dispute = id}
  BY <1>4
<1>11. \A id \in Hidden(db, s) : \A g \in NumberedTables : Placed(new[g], id) = Placed(db[g], id)
  BY <1>4
<1>12. Keeps(db, new, s)
  BY <1>6, <1>7, <1>9, <1>10, <1>11, TablesKeep
<1>. QED  BY <1>1, <1>12

\* A dispute a session sees is not hidden from it.
LEMMA SeenNotHidden ==
  ASSUME NEW db, NEW s, NEW id, Pg!Q!Sees(db, s, id)
  PROVE  id \notin Hidden(db, s)
BY DEF Hidden

\* Two statements that leave the disputes alone.
LEMMA KeepsTwice ==
  ASSUME NEW db, NEW mid, NEW new, NEW s, Keeps(db, mid, s), mid.disputes = db.disputes, Keeps(mid, new, s)
  PROVE  Keeps(db, new, s)
<1>1. Hidden(mid, s) = Hidden(db, s)
  BY DEF Hidden, Pg!Q!Sees, Pg!Q!Scoped, Pg!Q!InTenant
<1>. QED  BY <1>1 DEF Keeps, InScope


-----------------------------------------------------------------------------
(* The store's writes stay in scope *)

LEMMA InsertDisputeKeeps ==
  ASSUME NEW db, PgOK(db), NEW s, NEW d, "id" \in DOMAIN d, "tenant" \in DOMAIN d
  PROVE  Keeps(db, Pg!InsertDispute(db, s, d).db, s)
<1>1. CASE Pg!InsertDispute(db, s, d).db = db
  BY <1>1, Nothing
<1>2. CASE Pg!InsertDispute(db, s, d).db # db
  <2>1. PICK X : X = db.disputes \cup {[d EXCEPT !.tenant = s.tenant]}
    OBVIOUS
  <2>2. /\ Pg!InsertDispute(db, s, d).db = [db EXCEPT !.disputes = X]
        /\ \A r \in db.disputes : r.id # d.id
    BY <1>2, <2>1 DEF Pg!InsertDispute, Pg!Exec, Pg!Q!InsertDispute, Pg!Q!Refused, Pg!Q!Done
  <2>3. \A r \in X : "id" \in DOMAIN r
    BY <2>1 DEF PgOK
  <2>4. [d EXCEPT !.tenant = s.tenant].id = d.id
    OBVIOUS
  <2>5. \A id \in Hidden(db, s) : {r \in X : r.id = id} = {r \in db.disputes : r.id = id}
    BY <2>1, <2>2, <2>4 DEF Hidden
  <2>. QED  BY <2>2, <2>3, <2>5, DisputesOnly
<1>. QED  BY <1>1, <1>2

LEMMA ReplaceKeeps ==
  ASSUME NEW db, PgOK(db), NEW s, NEW id, NEW rows, rows \subseteq Pg!Q!GetDispute(db, s, id),
         NEW changed, \A d \in changed : "id" \in DOMAIN d /\ d.id = id, rows = {} => changed = {}
  PROVE  Keeps(db, [db EXCEPT !.disputes = (@ \ rows) \cup changed], s)
<1>1. PICK X : X = (db.disputes \ rows) \cup changed
  OBVIOUS
<1>2. \A d \in X : "id" \in DOMAIN d
  BY <1>1 DEF PgOK
<1>3. \A i \in Hidden(db, s) : {d \in X : d.id = i} = {d \in db.disputes : d.id = i}
  BY <1>1 DEF Hidden, Pg!Q!Sees, Pg!Q!GetDispute
<1>4. Keeps(db, [db EXCEPT !.disputes = X], s)
  BY <1>2, <1>3, DisputesOnly
<1>. QED  BY <1>1, <1>4

LEMMA UpdateDisputeKeeps ==
  ASSUME NEW db, PgOK(db), NEW s, NEW id, NEW expected, NEW x
  PROVE  /\ Keeps(db, Pg!UpdateDisputeState(db, s, id, expected, x).db, s)
         /\ Keeps(db, Pg!UpdateDisputeTeam(db, s, id, expected, x).db, s)
<1>1. PICK rows : rows = {d \in Pg!Q!GetDispute(db, s, id) : d.version = expected}
  OBVIOUS
<1>2. \A d \in rows : d.id = id /\ "id" \in DOMAIN d
  BY <1>1 DEF PgOK, Pg!Q!GetDispute, Pg!Q!Scoped, Pg!Q!InTenant
<1>3. rows \subseteq Pg!Q!GetDispute(db, s, id)
  BY <1>1
<1>4. Keeps(db, Pg!UpdateDisputeState(db, s, id, expected, x).db, s)
  <2>1. PICK changed : changed = {[d EXCEPT !.state = x, !.version = @ + 1] : d \in rows}
    OBVIOUS
  <2>2. (\A d \in changed : "id" \in DOMAIN d /\ d.id = id) /\ (rows = {} => changed = {})
    BY <1>2, <2>1
  <2>3. Pg!UpdateDisputeState(db, s, id, expected, x).db = [db EXCEPT !.disputes = (@ \ rows) \cup changed]
    BY <1>1, <2>1 DEF Pg!UpdateDisputeState, Pg!Touched, Pg!Failure, Pg!Exec, Pg!Q!UpdateDisputeState,
                      Pg!Q!Replace, Pg!Q!Done
  <2>4. Keeps(db, [db EXCEPT !.disputes = (@ \ rows) \cup changed], s)
    BY <1>3, <2>2, ReplaceKeeps
  <2>. QED  BY <2>3, <2>4
<1>5. Keeps(db, Pg!UpdateDisputeTeam(db, s, id, expected, x).db, s)
  <2>1. PICK changed : changed = {[d EXCEPT !.team = x, !.version = @ + 1] : d \in rows}
    OBVIOUS
  <2>2. (\A d \in changed : "id" \in DOMAIN d /\ d.id = id) /\ (rows = {} => changed = {})
    BY <1>2, <2>1
  <2>3. Pg!UpdateDisputeTeam(db, s, id, expected, x).db = [db EXCEPT !.disputes = (@ \ rows) \cup changed]
    BY <1>1, <2>1 DEF Pg!UpdateDisputeTeam, Pg!Touched, Pg!Failure, Pg!Exec, Pg!Q!UpdateDisputeTeam,
                      Pg!Q!Replace, Pg!Q!Done
  <2>4. Keeps(db, [db EXCEPT !.disputes = (@ \ rows) \cup changed], s)
    BY <1>3, <2>2, ReplaceKeeps
  <2>. QED  BY <2>3, <2>4
<1>. QED  BY <1>4, <1>5

\* A row is added for a dispute, or the rows of one are replaced.
LEMMA AddRowKeeps ==
  ASSUME NEW db, PgOK(db), NEW s, NEW f \in DisputeTables, NEW row, "dispute" \in DOMAIN row,
         row.dispute \notin Hidden(db, s)
  PROVE  Keeps(db, [db EXCEPT ![f] = @ \cup {row}], s)
<1>1. PICK X : X = db[f] \cup {row}
  OBVIOUS
<1>2. \A r \in X : "dispute" \in DOMAIN r
  BY <1>1 DEF PgOK
<1>3. \A i \in Hidden(db, s) : {r \in X : r.dispute = i} = {r \in db[f] : r.dispute = i}
  BY <1>1
<1>4. Keeps(db, [db EXCEPT ![f] = X], s)
  BY <1>2, <1>3, RowsOnly
<1>. QED  BY <1>1, <1>4

LEMMA ReplaceRowsKeeps ==
  ASSUME NEW db, PgOK(db), NEW s, NEW f \in DisputeTables, NEW id, NEW rows, rows \subseteq Pg!Q!Of(db, s, db[f], id),
         NEW changed, \A r \in changed : "dispute" \in DOMAIN r /\ r.dispute = id, rows = {} => changed = {}
  PROVE  Keeps(db, [db EXCEPT ![f] = (@ \ rows) \cup changed], s)
<1>1. PICK X : X = (db[f] \ rows) \cup changed
  OBVIOUS
<1>2. \A r \in X : "dispute" \in DOMAIN r
  BY <1>1 DEF PgOK
<1>3. rows # {} => id \notin Hidden(db, s)
  BY SeenNotHidden DEF Pg!Q!Of
<1>4. \A r \in rows : r.dispute = id
  BY DEF Pg!Q!Of
<1>5. \A i \in Hidden(db, s) : {r \in X : r.dispute = i} = {r \in db[f] : r.dispute = i}
  BY <1>1, <1>3, <1>4
<1>6. Keeps(db, [db EXCEPT ![f] = X], s)
  BY <1>2, <1>5, RowsOnly
<1>. QED  BY <1>1, <1>6

LEMMA AppendEventKeeps ==
  ASSUME NEW db, PgOK(db), NEW s, NEW id, NEW e
  PROVE  Keeps(db, Pg!AppendEvent(db, s, id, e).db, s)
<1>1. CASE Pg!AppendEvent(db, s, id, e).db = db
  BY <1>1, Nothing
<1>2. CASE Pg!AppendEvent(db, s, id, e).db # db
  <2>1. PICK row : row = [dispute |-> id, seq |-> e.seq, to |-> e.to]
    OBVIOUS
  <2>2. Pg!AppendEvent(db, s, id, e).db = [db EXCEPT !.events = @ \cup {row}] /\ Pg!Q!Sees(db, s, id)
    BY <1>2, <2>1 DEF Pg!AppendEvent, Pg!Exec, Pg!Q!InsertDisputeEvent, Pg!Q!Refused, Pg!Q!Done
  <2>3. "dispute" \in DOMAIN row /\ row.dispute \notin Hidden(db, s)
    BY <2>1, <2>2, SeenNotHidden
  <2>4. Keeps(db, [db EXCEPT !["events"] = @ \cup {row}], s)
    BY <2>3, AddRowKeeps DEF DisputeTables
  <2>. QED  BY <2>2, <2>4
<1>. QED  BY <1>1, <1>2


LEMMA SettleDeadlineKeeps ==
  ASSUME NEW db, PgOK(db), NEW s, NEW id, NEW kind, NEW cycle, NEW met
  PROVE  Keeps(db, Pg!SettleDeadline(db, s, id, kind, cycle, met).db, s)
<1>1. PICK rows : rows = {c \in Pg!Q!Of(db, s, db.deadlines, id) : c.kind = kind /\ c.cycle = cycle /\ Pg!Q!Open(c)}
  OBVIOUS
<1>2. PICK changed : changed = {[c EXCEPT !.end = IF met THEN "met" ELSE "void"] : c \in rows}
  OBVIOUS
<1>3. \A r \in rows : "dispute" \in DOMAIN r /\ r.dispute = id
  BY <1>1 DEF Pg!Q!Of, PgOK, DisputeTables
<1>4. (\A r \in changed : "dispute" \in DOMAIN r /\ r.dispute = id) /\ (rows = {} => changed = {})
  BY <1>2, <1>3
<1>5. Pg!SettleDeadline(db, s, id, kind, cycle, met).db = [db EXCEPT !.deadlines = (@ \ rows) \cup changed]
  BY <1>1, <1>2 DEF Pg!SettleDeadline, Pg!Exec, Pg!Q!SettleDeadline, Pg!Q!Done
<1>6. Keeps(db, [db EXCEPT !["deadlines"] = (@ \ rows) \cup changed], s)
  BY <1>1, <1>4, ReplaceRowsKeeps DEF DisputeTables
<1>. QED  BY <1>5, <1>6

LEMMA AnswerQuestionnaireKeeps ==
  ASSUME NEW db, PgOK(db), NEW s, NEW id, NEW answer
  PROVE  Keeps(db, Pg!AnswerQuestionnaire(db, s, id, answer).db, s)
<1>1. PICK rows : rows = {r \in Pg!Q!Of(db, s, db.questionnaires, id) : r.answers = {}}
  OBVIOUS
<1>2. PICK changed : changed = {[r EXCEPT !.answers = {answer}] : r \in rows}
  OBVIOUS
<1>3. \A r \in rows : "dispute" \in DOMAIN r /\ r.dispute = id
  BY <1>1 DEF Pg!Q!Of, PgOK, DisputeTables
<1>4. (\A r \in changed : "dispute" \in DOMAIN r /\ r.dispute = id) /\ (rows = {} => changed = {})
  BY <1>2, <1>3
<1>5. Pg!AnswerQuestionnaire(db, s, id, answer).db = [db EXCEPT !.questionnaires = (@ \ rows) \cup changed]
  BY <1>1, <1>2 DEF Pg!AnswerQuestionnaire, Pg!Touched, Pg!Failure, Pg!Exec, Pg!Q!AnswerQuestionnaire,
                    Pg!Q!GetQuestionnaire, Pg!Q!Done
<1>6. Keeps(db, [db EXCEPT !["questionnaires"] = (@ \ rows) \cup changed], s)
  BY <1>1, <1>4, ReplaceRowsKeeps DEF DisputeTables
<1>. QED  BY <1>5, <1>6

LEMMA ClaimAttachmentsKeeps ==
  ASSUME NEW db, PgOK(db), NEW s, NEW id, NEW notice, NEW ids
  PROVE  Keeps(db, Pg!ClaimAttachments(db, s, id, notice, ids).db, s)
<1>1. PICK rows : rows = {f \in Pg!Q!Of(db, s, db.files, id) : f.notice = 0 /\ f.id \in ids}
  OBVIOUS
<1>2. PICK changed : changed = {[f EXCEPT !.notice = notice] : f \in rows}
  OBVIOUS
<1>3. \A r \in rows : "dispute" \in DOMAIN r /\ r.dispute = id
  BY <1>1 DEF Pg!Q!Of, PgOK, DisputeTables
<1>4. (\A r \in changed : "dispute" \in DOMAIN r /\ r.dispute = id) /\ (rows = {} => changed = {})
  BY <1>2, <1>3
<1>5. Pg!ClaimAttachments(db, s, id, notice, ids).db = [db EXCEPT !.files = (@ \ rows) \cup changed]
  BY <1>1, <1>2 DEF Pg!ClaimAttachments, Pg!Counted, Pg!Exec, Pg!Q!ClaimAttachments, Pg!Q!Done
<1>6. Keeps(db, [db EXCEPT !["files"] = (@ \ rows) \cup changed], s)
  BY <1>1, <1>4, ReplaceRowsKeeps DEF DisputeTables
<1>. QED  BY <1>5, <1>6

LEMMA InsertAttachmentKeeps ==
  ASSUME NEW db, PgOK(db), NEW s, NEW id, NEW f, NEW t
  PROVE  Keeps(db, Pg!InsertAttachment(db, s, id, f, t).db, s)
<1>1. CASE Pg!InsertAttachment(db, s, id, f, t).db = db
  BY <1>1, Nothing
<1>2. CASE Pg!InsertAttachment(db, s, id, f, t).db # db
  <2>1. PICK row : row = [id |-> f, dispute |-> id, notice |-> 0, at |-> t]
    OBVIOUS
  <2>2. Pg!InsertAttachment(db, s, id, f, t).db = [db EXCEPT !.files = @ \cup {row}] /\ Pg!Q!Sees(db, s, id)
    BY <1>2, <2>1 DEF Pg!InsertAttachment, Pg!Exec, Pg!Q!InsertAttachment, Pg!Q!Refused, Pg!Q!Done
  <2>3. "dispute" \in DOMAIN row /\ row.dispute \notin Hidden(db, s)
    BY <2>1, <2>2, SeenNotHidden
  <2>4. Keeps(db, [db EXCEPT !["files"] = @ \cup {row}], s)
    BY <2>3, AddRowKeeps DEF DisputeTables
  <2>. QED  BY <2>2, <2>4
<1>. QED  BY <1>1, <1>2

LEMMA SendQuestionnaireKeeps ==
  ASSUME NEW db, PgOK(db), NEW s, NEW id, NEW q
  PROVE  Keeps(db, Pg!SendQuestionnaire(db, s, id, q).db, s)
<1>1. CASE ~Pg!Q!Sees(db, s, id)
  <2>1. Pg!SendQuestionnaire(db, s, id, q).db = db
    BY <1>1 DEF Pg!SendQuestionnaire, Pg!Exec, Pg!Q!UpsertQuestionnaire, Pg!Q!Refused
  <2>. QED  BY <2>1, Nothing
<1>2. CASE Pg!Q!Sees(db, s, id)
  <2>1. PICK row : row = [dispute |-> id, asked |-> q, answers |-> {}]
    OBVIOUS
  <2>2. PICK X : X = {r \in db.questionnaires : r.dispute # id} \cup {row}
    OBVIOUS
  <2>3. Pg!SendQuestionnaire(db, s, id, q).db = [db EXCEPT !.questionnaires = X]
    BY <1>2, <2>1, <2>2 DEF Pg!SendQuestionnaire, Pg!Exec, Pg!Q!UpsertQuestionnaire, Pg!Q!Done
  <2>4. "dispute" \in DOMAIN row /\ row.dispute = id /\ id \notin Hidden(db, s)
    BY <1>2, <2>1, SeenNotHidden
  <2>5. \A r \in X : "dispute" \in DOMAIN r
    BY <2>2, <2>4 DEF PgOK, DisputeTables
  <2>6. \A i \in Hidden(db, s) : {r \in X : r.dispute = i} = {r \in db["questionnaires"] : r.dispute = i}
    BY <2>2, <2>4
  <2>7. Keeps(db, [db EXCEPT !["questionnaires"] = X], s)
    BY <2>5, <2>6, RowsOnly DEF DisputeTables
  <2>. QED  BY <2>3, <2>7
<1>. QED  BY <1>1, <1>2

LEMMA InsertRiskKeeps ==
  ASSUME NEW db, PgOK(db), NEW s, NEW id, NEW r
  PROVE  Keeps(db, Pg!InsertRisk(db, s, id, r).db, s)
<1>1. CASE Pg!InsertRisk(db, s, id, r).db = db
  BY <1>1, Nothing
<1>2. CASE Pg!InsertRisk(db, s, id, r).db # db
  <2>1. PICK row : row = [dispute |-> id, seq |-> r.seq, tier |-> r.tier]
    OBVIOUS
  <2>2. Pg!InsertRisk(db, s, id, r).db = [db EXCEPT !.risk = Append(@, row)] /\ Pg!Q!Sees(db, s, id)
    BY <1>2, <2>1 DEF Pg!InsertRisk, Pg!Exec, Pg!Q!InsertRiskAssessment, Pg!Q!Refused, Pg!Q!Done
  <2>3. row.dispute \notin Hidden(db, s)
    BY <2>1, <2>2, SeenNotHidden
  <2>4. Keeps(db, [db EXCEPT !["risk"] = Append(@, row)], s)
    BY <2>3, AppendOnly DEF NumberedTables
  <2>. QED  BY <2>2, <2>4
<1>. QED  BY <1>1, <1>2

\* The identity column of the notices is no row of anyone's.
LEMMA DrawKeeps ==
  ASSUME NEW db, PgOK(db), NEW s, NEW x
  PROVE  Keeps(db, [db EXCEPT !.noticeId = x], s) /\ [db EXCEPT !.noticeId = x].disputes = db.disputes
<1>1. PICK new : new = [db EXCEPT !.noticeId = x]
  OBVIOUS
<1>2. DOMAIN new = PgFields /\ \A f \in PgFields \ {"noticeId"} : new[f] = db[f]
  BY <1>1 DEF PgOK, PgFields
<1>3. "noticeId" \notin {"disputes"} \cup DisputeTables \cup NumberedTables \cup TenantTables
  BY DEF DisputeTables, NumberedTables, TenantTables
<1>4. \A f \in {"disputes"} \cup DisputeTables \cup NumberedTables \cup TenantTables : new[f] = db[f]
  BY <1>2, <1>3 DEF PgFields
<1>5. new.disputes = db.disputes
  BY <1>4
<1>6. PgOK(new)
  BY <1>2, <1>4, <1>5 DEF PgOK
<1>7. Keeps(db, new, s)
  BY <1>4, <1>5, <1>6, TablesKeep
<1>. QED  BY <1>1, <1>5, <1>7

LEMMA InsertNoticeKeeps ==
  ASSUME NEW db, PgOK(db), NEW s, NEW n
  PROVE  Keeps(db, Pg!InsertNotice(db, s, n).db, s)
<1>1. PICK next : next = [db EXCEPT !.noticeId = @ + 1]
  OBVIOUS
<1>2. Keeps(db, next, s) /\ next.disputes = db.disputes
  BY <1>1, DrawKeeps
<1>3. CASE Pg!InsertNotice(db, s, n).db = next
  BY <1>2, <1>3
<1>4. CASE Pg!InsertNotice(db, s, n).db # next
  <2>1. PICK row : row = [id |-> db.noticeId + 1, tenant |-> s.tenant, dispute |-> n.dispute, seq |-> n.seq,
                          channel |-> n.channel, actor |-> n.actor, sent |-> n.sent, resend_of |-> n.resendOf]
    OBVIOUS
  <2>2. Pg!InsertNotice(db, s, n).db = [next EXCEPT !.notices = Append(@, row)] /\ Pg!Q!Sees(db, s, n.dispute)
    BY <1>1, <1>4, <2>1 DEF Pg!InsertNotice, Pg!Exec, Pg!Q!InsertNotice, Pg!Q!Refused, Pg!Q!Done
  <2>3. Pg!Q!Sees(next, s, n.dispute)
    BY <1>2, <2>2 DEF Pg!Q!Sees, Pg!Q!Scoped, Pg!Q!InTenant
  <2>4. row.dispute \notin Hidden(next, s)
    BY <2>1, <2>3, SeenNotHidden
  <2>5. PgOK(next)
    BY <1>2 DEF Keeps
  <2>6. Keeps(next, [next EXCEPT !["notices"] = Append(@, row)], s)
    BY <2>4, <2>5, AppendOnly DEF NumberedTables
  <2>7. Keeps(db, [next EXCEPT !["notices"] = Append(@, row)], s)
    BY <1>2, <2>6, KeepsTwice
  <2>. QED  BY <2>2, <2>7
<1>. QED  BY <1>3, <1>4


LEMMA TenantWritesKeep ==
  ASSUME NEW db, PgOK(db), NEW s, NEW kind, NEW text, NEW t
  PROVE  /\ Keeps(db, Pg!PutTenantTemplate(db, s, kind, text).db, s)
         /\ Keeps(db, Pg!DeleteTenantTemplate(db, s, kind).db, s)
         /\ Keeps(db, Pg!PutTenantLogo(db, s, text, t).db, s)
         /\ Keeps(db, Pg!PutAnalystAvatar(db, s, kind, text).db, s)
<1>1. Keeps(db, Pg!PutTenantTemplate(db, s, kind, text).db, s)
  <2>1. PICK X : X = {r \in db.templates : ~(r.tenant = s.tenant /\ r.kind = kind)}
                     \cup {[tenant |-> s.tenant, kind |-> kind, text |-> text]}
    OBVIOUS
  <2>2. Pg!PutTenantTemplate(db, s, kind, text).db = [db EXCEPT !.templates = X]
    BY <2>1 DEF Pg!PutTenantTemplate, Pg!Exec, Pg!Q!UpsertTenantTemplate, Pg!Q!Done
  <2>3. {r \in X : r.tenant # s.tenant} = {r \in db["templates"] : r.tenant # s.tenant}
    BY <2>1
  <2>4. Keeps(db, [db EXCEPT !["templates"] = X], s)
    BY <2>3, TenantOnly DEF TenantTables
  <2>. QED  BY <2>2, <2>4
<1>2. Keeps(db, Pg!DeleteTenantTemplate(db, s, kind).db, s)
  <2>1. PICK X : X = db.templates \ {r \in Pg!Q!InTenant(s, db.templates) : r.kind = kind}
    OBVIOUS
  <2>2. Pg!DeleteTenantTemplate(db, s, kind).db = [db EXCEPT !.templates = X]
    BY <2>1 DEF Pg!DeleteTenantTemplate, Pg!Answer, Pg!Q!DeleteTenantTemplate, Pg!Q!Done
  <2>3. {r \in X : r.tenant # s.tenant} = {r \in db["templates"] : r.tenant # s.tenant}
    BY <2>1 DEF Pg!Q!InTenant
  <2>4. Keeps(db, [db EXCEPT !["templates"] = X], s)
    BY <2>3, TenantOnly DEF TenantTables
  <2>. QED  BY <2>2, <2>4
<1>3. Keeps(db, Pg!PutTenantLogo(db, s, text, t).db, s)
  <2>1. PICK X : X = (db.logos \ Pg!Q!InTenant(s, db.logos)) \cup {[tenant |-> s.tenant, image |-> text, at |-> t]}
    OBVIOUS
  <2>2. Pg!PutTenantLogo(db, s, text, t).db = [db EXCEPT !.logos = X]
    BY <2>1 DEF Pg!PutTenantLogo, Pg!Exec, Pg!Q!PutTenantLogo, Pg!Q!Done
  <2>3. {r \in X : r.tenant # s.tenant} = {r \in db["logos"] : r.tenant # s.tenant}
    BY <2>1 DEF Pg!Q!InTenant
  <2>4. Keeps(db, [db EXCEPT !["logos"] = X], s)
    BY <2>3, TenantOnly DEF TenantTables
  <2>. QED  BY <2>2, <2>4
<1>4. Keeps(db, Pg!PutAnalystAvatar(db, s, kind, text).db, s)
  <2>1. PICK X : X = (db.avatars \ Pg!Q!GetAnalystAvatar(db, s, kind))
                     \cup {[tenant |-> s.tenant, subject |-> kind, image |-> text]}
    OBVIOUS
  <2>2. Pg!PutAnalystAvatar(db, s, kind, text).db = [db EXCEPT !.avatars = X]
    BY <2>1 DEF Pg!PutAnalystAvatar, Pg!Exec, Pg!Q!PutAnalystAvatar, Pg!Q!Done
  <2>3. {r \in X : r.tenant # s.tenant} = {r \in db["avatars"] : r.tenant # s.tenant}
    BY <2>1 DEF Pg!Q!GetAnalystAvatar, Pg!Q!InTenant
  <2>4. Keeps(db, [db EXCEPT !["avatars"] = X], s)
    BY <2>3, TenantOnly DEF TenantTables
  <2>. QED  BY <2>2, <2>4
<1>. QED  BY <1>1, <1>2, <1>3, <1>4

LEMMA PutIdempotentKeeps ==
  ASSUME NEW db, PgOK(db), NEW s, NEW scope, NEW key, NEW hash, NEW t
  PROVE  Keeps(db, Pg!PutIdempotent(db, s, scope, key, hash, t).db, s)
<1>1. CASE Pg!PutIdempotent(db, s, scope, key, hash, t).db = db
  BY <1>1, Nothing
<1>2. CASE Pg!PutIdempotent(db, s, scope, key, hash, t).db # db
  <2>1. PICK X : X = db.keys \cup {[tenant |-> s.tenant, scope |-> scope, key |-> key, hash |-> hash, at |-> t]}
    OBVIOUS
  <2>2. Pg!PutIdempotent(db, s, scope, key, hash, t).db = [db EXCEPT !.keys = X]
    BY <1>2, <2>1 DEF Pg!PutIdempotent, Pg!Exec, Pg!Q!InsertIdempotencyKey, Pg!Q!Refused, Pg!Q!Done
  <2>3. {r \in X : r.tenant # s.tenant} = {r \in db["keys"] : r.tenant # s.tenant}
    BY <2>1
  <2>4. Keeps(db, [db EXCEPT !["keys"] = X], s)
    BY <2>3, TenantOnly DEF TenantTables
  <2>. QED  BY <2>2, <2>4
<1>. QED  BY <1>1, <1>2

\* One insert of a loop.
LEMMA OneDeadlineKeeps ==
  ASSUME NEW db, PgOK(db), NEW s, NEW id, NEW c
  PROVE  /\ Keeps(db, Pg!Exec(Pg!Q!InsertDeadline(db, s, id, c)).db, s)
         /\ Pg!Exec(Pg!Q!InsertDeadline(db, s, id, c)).db.disputes = db.disputes
<1>1. CASE Pg!Exec(Pg!Q!InsertDeadline(db, s, id, c)).db = db
  BY <1>1, Nothing
<1>2. CASE Pg!Exec(Pg!Q!InsertDeadline(db, s, id, c)).db # db
  <2>1. PICK row : row = [dispute |-> id, kind |-> c.kind, cycle |-> c.cycle, due |-> c.due, end |-> "open"]
    OBVIOUS
  <2>2. /\ Pg!Exec(Pg!Q!InsertDeadline(db, s, id, c)).db = [db EXCEPT !.deadlines = @ \cup {row}]
        /\ Pg!Q!Sees(db, s, id)
    BY <1>2, <2>1 DEF Pg!Exec, Pg!Q!InsertDeadline, Pg!Q!Refused, Pg!Q!Done
  <2>3. "dispute" \in DOMAIN row /\ row.dispute \notin Hidden(db, s)
    BY <2>1, <2>2, SeenNotHidden
  <2>4. Keeps(db, [db EXCEPT !["deadlines"] = @ \cup {row}], s)
    BY <2>3, AddRowKeeps DEF DisputeTables
  <2>5. [db EXCEPT !.deadlines = @ \cup {row}].disputes = db.disputes
    BY DEF PgOK, PgFields
  <2>. QED  BY <2>2, <2>4, <2>5
<1>. QED  BY <1>1, <1>2

LEMMA OneEntryKeeps ==
  ASSUME NEW db, PgOK(db), NEW s, NEW id, NEW e
  PROVE  /\ Keeps(db, Pg!Exec(Pg!Q!InsertLedgerEntry(db, s, id, e)).db, s)
         /\ Pg!Exec(Pg!Q!InsertLedgerEntry(db, s, id, e)).db.disputes = db.disputes
<1>1. CASE Pg!Exec(Pg!Q!InsertLedgerEntry(db, s, id, e)).db = db
  BY <1>1, Nothing
<1>2. CASE Pg!Exec(Pg!Q!InsertLedgerEntry(db, s, id, e)).db # db
  <2>1. PICK row : row = [dispute |-> id, tenant |-> s.tenant, seq |-> e.seq, kind |-> e.kind,
                          reference |-> e.reference]
    OBVIOUS
  <2>2. /\ Pg!Exec(Pg!Q!InsertLedgerEntry(db, s, id, e)).db = [db EXCEPT !.ledger = Append(@, row)]
        /\ Pg!Q!Sees(db, s, id)
    BY <1>2, <2>1 DEF Pg!Exec, Pg!Q!InsertLedgerEntry, Pg!Q!Refused, Pg!Q!Done
  <2>3. row.dispute \notin Hidden(db, s)
    BY <2>1, <2>2, SeenNotHidden
  <2>4. Keeps(db, [db EXCEPT !["ledger"] = Append(@, row)], s)
    BY <2>3, AppendOnly DEF NumberedTables
  <2>5. [db EXCEPT !.ledger = Append(@, row)].disputes = db.disputes
    BY DEF PgOK, PgFields
  <2>. QED  BY <2>2, <2>4, <2>5
<1>. QED  BY <1>1, <1>2


\* The loops of inserts the service runs are of one or two rows.
LEMMA InsertDeadlinesKeeps ==
  ASSUME NEW db, PgOK(db), NEW s, NEW id, NEW cs, Len(cs) \in 1..2
  PROVE  Keeps(db, Pg!InsertDeadlines(db, s, id, cs).db, s)
<1>0. \A n \in 0 .. Len(cs) : n = 0 \/ n = 1 \/ n = 2
  <2>. SUFFICES ASSUME NEW L \in 1..2, NEW n \in 0 .. L PROVE n = 0 \/ n = 1 \/ n = 2
    OBVIOUS
  <2>. QED  OBVIOUS
<1>. DEFINE Loop(g) == [n \in 0 .. Len(cs) |->
                          IF n = 0 THEN Pg!Answer(db, 0)
                          ELSE IF g[n - 1].err = "ok" THEN Pg!Exec(Pg!Q!InsertDeadline(g[n - 1].db, s, id, cs[n]))
                          ELSE g[n - 1]]
<1>1. \E g : g = Loop(g)
  <2>1. PICK a0 : a0 = Pg!Answer(db, 0)
    OBVIOUS
  <2>2. PICK a1 : a1 = IF a0.err = "ok" THEN Pg!Exec(Pg!Q!InsertDeadline(a0.db, s, id, cs[1])) ELSE a0
    OBVIOUS
  <2>3. PICK a2 : a2 = IF a1.err = "ok" THEN Pg!Exec(Pg!Q!InsertDeadline(a1.db, s, id, cs[2])) ELSE a1
    OBVIOUS
  <2>4. PICK g : g = [n \in 0 .. Len(cs) |-> IF n = 0 THEN a0 ELSE IF n = 1 THEN a1 ELSE a2]
    OBVIOUS
  <2>5. g[0] = a0 /\ g[1] = a1 /\ (Len(cs) = 2 => g[2] = a2)
    BY <2>4
  <2>6. ASSUME NEW n \in 0 .. Len(cs) PROVE g[n] = Loop(g)[n]
    <3>1. CASE n = 0
      BY <2>1, <2>5, <3>1
    <3>2. CASE n = 1
      BY <2>2, <2>5, <3>2
    <3>3. CASE n = 2
      BY <2>3, <2>5, <3>3
    <3>4. n = 0 \/ n = 1 \/ n = 2
      BY <1>0
    <3>. QED  BY <3>1, <3>2, <3>3, <3>4
  <2>7. g = Loop(g)
    BY <2>4, <2>6
  <2>. QED  BY <2>7
<1>2. PICK f : f = Loop(f) /\ Pg!InsertDeadlines(db, s, id, cs) = f[Len(cs)]
  BY <1>1 DEF Pg!InsertDeadlines, Pg!Each
<1>3. f[0].db = db
  BY <1>2 DEF Pg!Answer
<1>4. Keeps(db, f[1].db, s) /\ f[1].db.disputes = db.disputes
  <2>1. f[1] = IF f[0].err = "ok" THEN Pg!Exec(Pg!Q!InsertDeadline(f[0].db, s, id, cs[1])) ELSE f[0]
    BY <1>2
  <2>. QED  BY <1>3, <2>1, Nothing, OneDeadlineKeeps
<1>5. CASE Len(cs) = 1
  BY <1>2, <1>4, <1>5
<1>6. CASE Len(cs) = 2
  <2>1. f[2] = IF f[1].err = "ok" THEN Pg!Exec(Pg!Q!InsertDeadline(f[1].db, s, id, cs[2])) ELSE f[1]
    BY <1>2, <1>6
  <2>2. PgOK(f[1].db)
    BY <1>4 DEF Keeps
  <2>3. Keeps(f[1].db, f[2].db, s)
    BY <2>1, <2>2, Nothing, OneDeadlineKeeps
  <2>4. Keeps(db, f[2].db, s)
    BY <1>4, <2>3, KeepsTwice
  <2>. QED  BY <1>2, <1>6, <2>4
<1>. QED  BY <1>5, <1>6

LEMMA AppendLedgerKeeps ==
  ASSUME NEW db, PgOK(db), NEW s, NEW id, NEW es, Len(es) \in 1..2
  PROVE  Keeps(db, Pg!AppendLedger(db, s, id, es).db, s)
<1>0. \A n \in 0 .. Len(es) : n = 0 \/ n = 1 \/ n = 2
  <2>. SUFFICES ASSUME NEW L \in 1..2, NEW n \in 0 .. L PROVE n = 0 \/ n = 1 \/ n = 2
    OBVIOUS
  <2>. QED  OBVIOUS
<1>. DEFINE Loop(g) == [n \in 0 .. Len(es) |->
                          IF n = 0 THEN Pg!Answer(db, 0)
                          ELSE IF g[n - 1].err = "ok" THEN Pg!Exec(Pg!Q!InsertLedgerEntry(g[n - 1].db, s, id, es[n]))
                          ELSE g[n - 1]]
<1>1. \E g : g = Loop(g)
  <2>1. PICK a0 : a0 = Pg!Answer(db, 0)
    OBVIOUS
  <2>2. PICK a1 : a1 = IF a0.err = "ok" THEN Pg!Exec(Pg!Q!InsertLedgerEntry(a0.db, s, id, es[1])) ELSE a0
    OBVIOUS
  <2>3. PICK a2 : a2 = IF a1.err = "ok" THEN Pg!Exec(Pg!Q!InsertLedgerEntry(a1.db, s, id, es[2])) ELSE a1
    OBVIOUS
  <2>4. PICK g : g = [n \in 0 .. Len(es) |-> IF n = 0 THEN a0 ELSE IF n = 1 THEN a1 ELSE a2]
    OBVIOUS
  <2>5. g[0] = a0 /\ g[1] = a1 /\ (Len(es) = 2 => g[2] = a2)
    BY <2>4
  <2>6. ASSUME NEW n \in 0 .. Len(es) PROVE g[n] = Loop(g)[n]
    <3>1. CASE n = 0
      BY <2>1, <2>5, <3>1
    <3>2. CASE n = 1
      BY <2>2, <2>5, <3>2
    <3>3. CASE n = 2
      BY <2>3, <2>5, <3>3
    <3>4. n = 0 \/ n = 1 \/ n = 2
      BY <1>0
    <3>. QED  BY <3>1, <3>2, <3>3, <3>4
  <2>7. g = Loop(g)
    BY <2>4, <2>6
  <2>. QED  BY <2>7
<1>2. PICK f : f = Loop(f) /\ Pg!AppendLedger(db, s, id, es) = f[Len(es)]
  BY <1>1 DEF Pg!AppendLedger, Pg!Each
<1>3. f[0].db = db
  BY <1>2 DEF Pg!Answer
<1>4. Keeps(db, f[1].db, s) /\ f[1].db.disputes = db.disputes
  <2>1. f[1] = IF f[0].err = "ok" THEN Pg!Exec(Pg!Q!InsertLedgerEntry(f[0].db, s, id, es[1])) ELSE f[0]
    BY <1>2
  <2>. QED  BY <1>3, <2>1, Nothing, OneEntryKeeps
<1>5. CASE Len(es) = 1
  BY <1>2, <1>4, <1>5
<1>6. CASE Len(es) = 2
  <2>1. f[2] = IF f[1].err = "ok" THEN Pg!Exec(Pg!Q!InsertLedgerEntry(f[1].db, s, id, es[2])) ELSE f[1]
    BY <1>2, <1>6
  <2>2. PgOK(f[1].db)
    BY <1>4 DEF Keeps
  <2>3. Keeps(f[1].db, f[2].db, s)
    BY <2>1, <2>2, Nothing, OneEntryKeeps
  <2>4. Keeps(db, f[2].db, s)
    BY <1>4, <2>3, KeepsTwice
  <2>. QED  BY <1>2, <1>6, <2>4
<1>. QED  BY <1>5, <1>6


-----------------------------------------------------------------------------
(* Every step stays in scope *)

Within == PgOK(pg') /\ (tx.open => InScope(pg, pg', tx.s))

LEMMA ReadWithin == ASSUME PgOK(pg), pg' = pg PROVE Within
BY DEF Within, InScope

LEMMA CallWithin ==
  ASSUME PgOK(pg), NEW p, NEW m, NEW t, CallThen(p, m, t), Keeps(pg, p.db, tx.s)
  PROVE  Within
BY DEF CallThen, Both, Within, Keeps

LEMMA ReadsWithin ==
  ASSUME PgOK(pg), NEW id
  PROVE  /\ GetDispute(id) => Within
         /\ \A t : GetTransaction(t) => Within
         /\ GetAccount \/ TenantName \/ CountByState => Within
         /\ ListEvents(id) => Within
         /\ \A since : AccountHistory(id, since) => Within
         /\ \A s, q : FirstPage(s, q) => Within
         /\ NextPage => Within
         /\ \A k : GetIdempotent(k) => Within
<1>1. GetDispute(id) => pg' = pg
  BY DEF GetDispute, CallThen, Both, Pg!GetDispute, Pg!One, Pg!Failure, Pg!Answer
<1>2. \A t : GetTransaction(t) => pg' = pg
  BY DEF GetTransaction, Call, CallThen, Both, Pg!GetTransaction, Pg!One, Pg!Failure, Pg!Answer
<1>3. GetAccount => pg' = pg
  BY DEF GetAccount, Call, CallThen, Both, Pg!GetAccount, Pg!One, Pg!Failure, Pg!Answer
<1>4. TenantName \/ CountByState \/ ListEvents(id) => pg' = pg
  BY DEF TenantName, CountByState, ListEvents, Aside, Call, CallThen, Both,
         Pg!TenantName, Pg!CountByState, Pg!ListEvents, Pg!Answer
<1>5. \A since : AccountHistory(id, since) => pg' = pg
  BY DEF AccountHistory, Both, Pg!AccountHistory, Pg!Answer
<1>6. (\A s, q : FirstPage(s, q) => pg' = pg) /\ (NextPage => pg' = pg)
  BY DEF FirstPage, NextPage, Show, Pg!ListDisputes, Pg!Answer
<1>7. \A k : GetIdempotent(k) => pg' = pg
  BY DEF GetIdempotent, CallThen, Both, Pg!GetIdempotent, Pg!One, Pg!Failure, Pg!Answer
<1>. QED  BY <1>1, <1>2, <1>3, <1>4, <1>5, <1>6, <1>7, ReadWithin

LEMMA MoreReadsWithin ==
  ASSUME PgOK(pg), NEW id
  PROVE  /\ ListDeadlines(id) \/ NextDeadlines \/ ListOverdue \/ CountOverdue \/ TenantCalendar => Within
         /\ ListLedger(id) \/ SuspenseBalances \/ TenantCore => Within
         /\ ListRisk(id) \/ LatestRisk \/ GetQuestionnaire(id) => Within
         /\ ListNotices(id) \/ OutboxBacklog => Within
         /\ \A n : GetNotice(id, n) => Within
         /\ ListAttachmentMeta(id) \/ NoticeAttachments(id) => Within
         /\ \A f : GetAttachment(id, f) => Within
         /\ TenantTemplates \/ GetTenantMetadata \/ GetTenantLogo \/ GetAnalystAvatar => Within
<1>1. ListDeadlines(id) \/ NextDeadlines \/ ListOverdue \/ CountOverdue \/ TenantCalendar => pg' = pg
  BY DEF ListDeadlines, NextDeadlines, ListOverdue, CountOverdue, TenantCalendar, Aside, Call, CallThen, Both,
         Pg!ListDeadlines, Pg!NextDeadlines, Pg!ListDisputes, Pg!CountOverdue, Pg!TenantCalendar, Pg!Answer
<1>2. ListLedger(id) \/ SuspenseBalances \/ TenantCore => pg' = pg
  BY DEF ListLedger, SuspenseBalances, TenantCore, Aside, Call, CallThen, Both,
         Pg!ListLedger, Pg!SuspenseBalances, Pg!TenantCore, Pg!Answer
<1>3. ListRisk(id) \/ LatestRisk \/ GetQuestionnaire(id) => pg' = pg
  BY DEF ListRisk, LatestRisk, GetQuestionnaire, Call, CallThen, Both,
         Pg!ListRisk, Pg!LatestRisk, Pg!GetQuestionnaire, Pg!One, Pg!Failure, Pg!Answer
<1>4. ListNotices(id) \/ OutboxBacklog => pg' = pg
  BY DEF ListNotices, OutboxBacklog, Aside, Call, CallThen, Both, Pg!ListNotices, Pg!OutboxBacklog, Pg!Answer
<1>5. \A n : GetNotice(id, n) => pg' = pg
  BY DEF GetNotice, Call, CallThen, Both, Pg!GetNotice, Pg!One, Pg!Failure, Pg!Answer
<1>6. ListAttachmentMeta(id) \/ NoticeAttachments(id) => pg' = pg
  BY DEF ListAttachmentMeta, NoticeAttachments, Aside, Call, CallThen, Both,
         Pg!ListAttachmentMeta, Pg!NoticeAttachments, Pg!Answer
<1>7. \A f : GetAttachment(id, f) => pg' = pg
  BY DEF GetAttachment, Call, CallThen, Both, Pg!GetAttachment, Pg!One, Pg!Failure, Pg!Answer
<1>8. TenantTemplates \/ GetTenantMetadata \/ GetTenantLogo \/ GetAnalystAvatar => pg' = pg
  BY DEF TenantTemplates, GetTenantMetadata, GetTenantLogo, GetAnalystAvatar, Call, CallThen, Both,
         Pg!TenantTemplates, Pg!GetTenantMetadata, Pg!GetTenantLogo, Pg!GetAnalystAvatar,
         Pg!One, Pg!Failure, Pg!Answer
<1>. QED  BY <1>1, <1>2, <1>3, <1>4, <1>5, <1>6, <1>7, <1>8, ReadWithin

LEMMA WritesWithin ==
  ASSUME PgOK(pg), NEW id
  PROVE  /\ \A team : InsertDispute(id, team) => Within
         /\ \A v, st : UpdateDisputeState(id, v, st) => Within
         /\ \A v, team : UpdateDisputeTeam(id, v, team) => Within
         /\ \A seq, to : AppendEvent(id, seq, to) => Within
         /\ \A kind, cycle, met : SettleDeadline(id, kind, cycle, met) => Within
         /\ \A seq, tier : InsertRisk(id, seq, tier) => Within
         /\ \A q : SendQuestionnaire(id, q) \/ AnswerQuestionnaire(id, q) => Within
<1>1. ASSUME NEW team, InsertDispute(id, team) PROVE Within
  <2>1. PICK d : d = [id |-> id, tenant |-> tx.s.tenant, team |-> team, state |-> "INITIATED", version |-> 1,
                      account |-> tx.s.tenant, opened |-> now]
    OBVIOUS
  <2>2. PICK m, t : CallThen(Pg!InsertDispute(pg, tx.s, d), m, t)
    BY <1>1, <2>1 DEF InsertDispute
  <2>3. "id" \in DOMAIN d /\ "tenant" \in DOMAIN d
    BY <2>1
  <2>. QED  BY <2>2, <2>3, CallWithin, InsertDisputeKeeps
<1>2. \A v, st : UpdateDisputeState(id, v, st) => Within
  BY CallWithin, UpdateDisputeKeeps DEF UpdateDisputeState, Call
<1>3. \A v, team : UpdateDisputeTeam(id, v, team) => Within
  BY CallWithin, UpdateDisputeKeeps DEF UpdateDisputeTeam
<1>4. \A seq, to : AppendEvent(id, seq, to) => Within
  BY CallWithin, AppendEventKeeps DEF AppendEvent, Call
<1>5. \A kind, cycle, met : SettleDeadline(id, kind, cycle, met) => Within
  BY CallWithin, SettleDeadlineKeeps DEF SettleDeadline, Call
<1>6. \A seq, tier : InsertRisk(id, seq, tier) => Within
  BY CallWithin, InsertRiskKeeps DEF InsertRisk, Call
<1>7. \A q : SendQuestionnaire(id, q) \/ AnswerQuestionnaire(id, q) => Within
  BY CallWithin, SendQuestionnaireKeeps, AnswerQuestionnaireKeeps DEF SendQuestionnaire, AnswerQuestionnaire, Call
<1>. QED  BY <1>1, <1>2, <1>3, <1>4, <1>5, <1>6, <1>7

LEMMA MoreWritesWithin ==
  ASSUME PgOK(pg), NEW id
  PROVE  /\ \A channel, actor : InsertNotice(id, channel, actor) => Within
         /\ \A orig : ResendNotice(id, orig) => Within
         /\ \A f : InsertAttachment(id, f) => Within
         /\ \A fs : ClaimAttachments(id, fs) => Within
         /\ \A kind, text : PutTenantTemplate(kind, text) => Within
         /\ \A kind : DeleteTenantTemplate(kind) => Within
         /\ \A image : PutTenantLogo(image) \/ PutAnalystAvatar(image) => Within
         /\ \A k, h : PutIdempotent(k, h) => Within
<1>1. /\ \A channel, actor : InsertNotice(id, channel, actor) => Within
      /\ \A orig : ResendNotice(id, orig) => Within
  BY CallWithin, InsertNoticeKeeps DEF InsertNotice, ResendNotice, Call
<1>2. \A f : InsertAttachment(id, f) => Within
  BY CallWithin, InsertAttachmentKeeps DEF InsertAttachment, Call
<1>3. \A fs : ClaimAttachments(id, fs) => Within
  BY CallWithin, ClaimAttachmentsKeeps DEF ClaimAttachments, Call
<1>4. \A kind, text : PutTenantTemplate(kind, text) => Within
  BY CallWithin, TenantWritesKeep DEF PutTenantTemplate, LastCall
<1>5. \A kind : DeleteTenantTemplate(kind) => Within
  BY CallWithin, TenantWritesKeep DEF DeleteTenantTemplate, LastCall
<1>6. \A image : PutTenantLogo(image) => Within
  BY CallWithin, TenantWritesKeep DEF PutTenantLogo, LastCall
<1>7. \A image : PutAnalystAvatar(image) => Within
  BY CallWithin, TenantWritesKeep DEF PutAnalystAvatar, LastCall
<1>8. \A k, h : PutIdempotent(k, h) => Within
  BY CallWithin, PutIdempotentKeeps DEF PutIdempotent
<1>. QED  BY <1>1, <1>2, <1>3, <1>4, <1>5, <1>6, <1>7, <1>8


LEMMA LoopsWithin ==
  ASSUME PgOK(pg), NEW id
  PROVE  /\ \A cycle, dues : Len(dues) \in 1..2 /\ DOMAIN dues = 1 .. Len(dues) /\ InsertDeadlines(id, cycle, dues) => Within
         /\ \A seq, kinds : Len(kinds) \in 1..2 /\ DOMAIN kinds = 1 .. Len(kinds) /\ AppendLedger(id, seq, kinds) => Within
<1>1. ASSUME NEW cycle, NEW dues, Len(dues) \in 1..2, DOMAIN dues = 1 .. Len(dues), InsertDeadlines(id, cycle, dues)
      PROVE  Within
  <2>1. PICK cs : cs = [i \in DOMAIN dues |-> [kind |-> IF i = 1 THEN "RESOLUTION" ELSE "REFUND", cycle |-> cycle,
                                               due |-> dues[i]]]
    OBVIOUS
  <2>2. PICK m, t : CallThen(Pg!InsertDeadlines(pg, tx.s, id, cs), m, t)
    BY <1>1, <2>1 DEF InsertDeadlines, Call
  <2>3. PICK L : L = Len(dues) /\ L \in 1..2
    BY <1>1
  <2>4. Len(cs) = L
    BY <1>1, <2>1, <2>3
  <2>5. Len(cs) \in 1..2
    BY <2>3, <2>4
  <2>. QED  BY <2>2, <2>5, CallWithin, InsertDeadlinesKeeps
<1>2. ASSUME NEW seq, NEW kinds, Len(kinds) \in 1..2, DOMAIN kinds = 1 .. Len(kinds), AppendLedger(id, seq, kinds)
      PROVE  Within
  <2>1. PICK es : es = [i \in DOMAIN kinds |-> [seq |-> seq, kind |-> kinds[i], reference |-> <<id, seq, kinds[i]>>]]
    OBVIOUS
  <2>2. PICK m, t : CallThen(Pg!AppendLedger(pg, tx.s, id, es), m, t)
    BY <1>2, <2>1 DEF AppendLedger, Call
  <2>3. PICK L : L = Len(kinds) /\ L \in 1..2
    BY <1>2
  <2>4. Len(es) = L
    BY <1>2, <2>1, <2>3
  <2>5. Len(es) \in 1..2
    BY <2>3, <2>4
  <2>. QED  BY <2>2, <2>5, CallWithin, AppendLedgerKeeps
<1>. QED  BY <1>1, <1>2

\* The sweeps and the dispatcher, between transactions.
LEMMA FieldOK ==
  ASSUME NEW db, PgOK(db), NEW f \in PgFields \ ({"disputes"} \cup DisputeTables \cup NumberedTables), NEW X
  PROVE  PgOK([db EXCEPT ![f] = X])
<1>1. PICK new : new = [db EXCEPT ![f] = X]
  OBVIOUS
<1>2. DOMAIN new = PgFields /\ \A g \in PgFields \ {f} : new[g] = db[g]
  BY <1>1 DEF PgOK
<1>3. \A g \in {"disputes"} \cup DisputeTables \cup NumberedTables : new[g] = db[g]
  BY <1>2 DEF PgFields
<1>4. PgOK(new)
  BY <1>2, <1>3 DEF PgOK
<1>. QED  BY <1>1, <1>4

LEMMA AsideWithin ==
  ASSUME NEW part, NEW p, NEW m, Aside(part, p, m), PgOK(p.db)
  PROVE  Within
BY DEF Aside, Both, Within

LEMMA AsidesWithin ==
  ASSUME PgOK(pg)
  PROVE  /\ PurgeIdempotencyKeys => Within
         /\ PurgeDraftAttachments => Within
         /\ ClaimNotices => Within
         /\ \A n, failed : FinishNotice(n, failed) => Within
<1>1. ASSUME PurgeIdempotencyKeys PROVE Within
  <2>1. PICK p, m : p = Pg!PurgeIdempotencyKeys(pg, now - Retention) /\ Aside("keys", p, m)
    BY <1>1 DEF PurgeIdempotencyKeys
  <2>2. \E X : p.db = [pg EXCEPT !["keys"] = X]
    BY <2>1 DEF Pg!PurgeIdempotencyKeys, Pg!Counted, Pg!Exec, Pg!Q!PurgeIdempotencyKeys, Pg!Q!Done
  <2>3. "keys" \in PgFields \ ({"disputes"} \cup DisputeTables \cup NumberedTables)
    BY DEF PgFields, DisputeTables, NumberedTables, TenantTables
  <2>4. PgOK(p.db)
    BY <2>2, <2>3, FieldOK
  <2>. QED  BY <2>1, <2>4, AsideWithin
<1>2. ASSUME PurgeDraftAttachments PROVE Within
  <2>1. PICK p, m : p = Pg!PurgeDraftAttachments(pg, now - 1) /\ Aside("files", p, m)
    BY <1>2 DEF PurgeDraftAttachments
  <2>2. PICK old : p.db = [pg EXCEPT !.files = @ \ old]
    BY <2>1 DEF Pg!PurgeDraftAttachments, Pg!Counted, Pg!Exec, Pg!Q!PurgeDraftAttachments, Pg!Q!Done
  <2>3. PICK X : X = pg.files \ old
    OBVIOUS
  <2>4. DOMAIN p.db = PgFields /\ p.db.files = X /\ \A f \in PgFields \ {"files"} : p.db[f] = pg[f]
    BY <2>2, <2>3 DEF PgOK, PgFields, DisputeTables
  <2>5. \A f \in {"disputes"} \cup NumberedTables \cup (DisputeTables \ {"files"}) : p.db[f] = pg[f]
    BY <2>4 DEF PgFields, DisputeTables, NumberedTables
  <2>6. \A r \in p.db.files : r \in pg.files
    BY <2>3, <2>4
  <2>7. PgOK(p.db)
    BY <2>4, <2>5, <2>6 DEF PgOK
  <2>. QED  BY <2>1, <2>7, AsideWithin
<1>3. ASSUME ClaimNotices PROVE Within
  <2>1. PICK p, q, m, v : p = Pg!ClaimNotices(pg, 1) /\ q = [p EXCEPT !.val = v] /\ Aside("letters", q, m)
    BY <1>3 DEF ClaimNotices
  <2>2. PICK X : p.db = [pg EXCEPT !["leased"] = X] /\ q.db = p.db
    BY <2>1 DEF Pg!ClaimNotices, Pg!Answer, Pg!Q!ClaimNotices
  <2>3. "leased" \in PgFields \ ({"disputes"} \cup DisputeTables \cup NumberedTables)
    BY DEF PgFields, DisputeTables, NumberedTables, TenantTables
  <2>4. PgOK(q.db)
    BY <2>2, <2>3, FieldOK
  <2>. QED  BY <2>1, <2>4, AsideWithin
<1>4. ASSUME NEW n, NEW failed, FinishNotice(n, failed) PROVE Within
  <2>1. PICK p, m : p = Pg!FinishNotice(pg, n, failed) /\ Aside("letters", p, m)
    BY <1>4 DEF FinishNotice
  <2>2. PICK X : /\ p.db = [pg EXCEPT !.notices = X]
                 /\ X = [i \in DOMAIN pg.notices |-> IF pg.notices[i].id = n /\ ~failed
                                                     THEN [pg.notices[i] EXCEPT !.sent = TRUE] ELSE pg.notices[i]]
    BY <2>1 DEF Pg!FinishNotice, Pg!Exec, Pg!Q!FinishNotice, Pg!Q!Done
  <2>3. PICK S : pg.notices \in Seq(S)
    BY DEF PgOK, NumberedTables
  <2>4. PICK T : T = {X[i] : i \in DOMAIN pg.notices}
    OBVIOUS
  <2>5. DOMAIN X = 1 .. Len(pg.notices) /\ Len(pg.notices) \in Nat
    BY <2>2, <2>3
  <2>6. X \in Seq(T)
    <3>1. PICK L : L = Len(pg.notices) /\ L \in Nat /\ DOMAIN pg.notices = 1 .. L
      BY <2>2, <2>5
    <3>2. PICK new : new = [i \in 1 .. L |-> X[i]]
      OBVIOUS
    <3>3. new = X
      BY <2>2, <3>1, <3>2
    <3>4. \A i \in 1 .. L : X[i] \in T
      BY <2>4, <3>1
    <3>5. new \in Seq(T)
      BY <3>1, <3>2, <3>4
    <3>. QED  BY <3>3, <3>5
  <2>7. DOMAIN p.db = PgFields /\ p.db.notices = X /\ \A f \in PgFields \ {"notices"} : p.db[f] = pg[f]
    BY <2>2 DEF PgOK, PgFields, NumberedTables
  <2>8. \A f \in {"disputes"} \cup DisputeTables \cup (NumberedTables \ {"notices"}) : p.db[f] = pg[f]
    BY <2>7 DEF PgFields, DisputeTables, NumberedTables
  <2>9. PgOK(p.db)
    BY <2>6, <2>7, <2>8 DEF PgOK
  <2>. QED  BY <2>1, <2>9, AsideWithin
<1>. QED  BY <1>1, <1>2, <1>3, <1>4


LEMMA StepWithin ==
  ASSUME PgOK(pg), [Next]_vars
  PROVE  (\E s \in Sessions : Begin(s)) \/ Rollback \/ Commit \/ Tick \/ UNCHANGED vars \/ Within
<1>1. \A id, cycle : \A dues \in {<<2, 3>>, <<3, 1>>} : InsertDeadlines(id, cycle, dues) => Within
  <2>1. \A dues \in {<<2, 3>>, <<3, 1>>} : Len(dues) \in 1..2 /\ DOMAIN dues = 1 .. Len(dues)
    OBVIOUS
  <2>. QED  BY <2>1, LoopsWithin
<1>2. \A id, seq : \A kinds \in {<<"advance">>, <<"clear">>, <<"clear", "advance">>} :
        AppendLedger(id, seq, kinds) => Within
  <2>1. \A kinds \in {<<"advance">>, <<"clear">>, <<"clear", "advance">>} :
          Len(kinds) \in 1..2 /\ DOMAIN kinds = 1 .. Len(kinds)
    OBVIOUS
  <2>. QED  BY <2>1, LoopsWithin
<1>. QED  BY <1>1, <1>2, ReadsWithin, MoreReadsWithin, WritesWithin, MoreWritesWithin, AsidesWithin, Zenon DEF Next

\* The image a rollback puts back is a database too.
ScopeInv == KeysInv /\ PgOK(pg) /\ (tx.open => PgOK(tx.old))

LEMMA ScopeInit == Init => ScopeInv
<1>. SUFFICES ASSUME Init PROVE ScopeInv
  OBVIOUS
<1>1. KeysInv
  BY KeysInit
<1>2. /\ DOMAIN pg = PgFields /\ pg.disputes = Seeds /\ pg.deadlines = Clocks
      /\ pg.events = {} /\ pg.questionnaires = {} /\ pg.files = {}
      /\ pg.ledger = <<>> /\ pg.risk = <<>> /\ pg.notices = <<>>
  BY DEF Init, EmptyPg, PgFields, DisputeTables, NumberedTables, TenantTables
<1>3. \A f \in DisputeTables : \A r \in pg[f] : "dispute" \in DOMAIN r
  BY <1>2, StoreAssumption DEF DisputeTables
<1>4. \A f \in NumberedTables : pg[f] = <<>>
  BY <1>2 DEF NumberedTables
<1>5. <<>> \in Seq(Seeds)
  OBVIOUS
<1>6. PgOK(pg)
  <2>1. \A d \in pg.disputes : "id" \in DOMAIN d
    BY <1>2, StoreAssumption
  <2>. QED  BY <1>2, <1>3, <1>4, <1>5, <2>1 DEF PgOK
<1>7. ~tx.open
  BY DEF Init, NoTx
<1>. QED  BY <1>1, <1>6, <1>7 DEF ScopeInv

LEMMA ImageStays ==
  ASSUME KeysInv, [Next]_vars, tx.open, tx'.open
  PROVE  tx'.old = tx.old
<1>0. TxOK
  BY DEF KeysInv
<1>1. ASSUME NEW k, GetIdempotent(k) PROVE tx'.old = tx.old
  <2>1. PICK p, m, t : CallThen(p, m, t) /\ t = IF p.err = "ok" THEN tx ELSE [tx EXCEPT !.missed = @ \cup {k}]
    BY <1>1 DEF GetIdempotent
  <2>. QED  BY <1>0, <2>1 DEF CallThen, Both, TxOK, TxFields
<1>2. ASSUME NEW k, NEW h, PutIdempotent(k, h) PROVE tx'.old = tx.old
  <2>1. PICK p, m, t : CallThen(p, m, t) /\ t = [tx EXCEPT !.put = @ \cup {<<tx.s.tenant, k>>}, !.missed = @ \ {k}]
    BY <1>2 DEF PutIdempotent
  <2>. QED  BY <1>0, <2>1 DEF CallThen, Both, TxOK, TxFields
<1>3. ASSUME NEW id, GetDispute(id) PROVE tx'.old = tx.old
  BY <1>0, <1>3, GetDisputeGoes DEF Goes
<1>4. CASE Elsewhere
  BY <1>4 DEF Elsewhere, Goes
<1>5. CASE PurgeIdempotencyKeys
  BY <1>5 DEF PurgeIdempotencyKeys, Aside, Both
<1>6. Rollback \/ Commit => FALSE
  BY DEF Rollback, Commit, NoTx
<1>7. (\E s \in Sessions : Begin(s)) \/ Tick => FALSE
  BY DEF Begin, Tick
<1>8. CASE UNCHANGED vars
  BY <1>8 DEF vars
<1>. QED  BY <1>0, <1>1, <1>2, <1>3, <1>4, <1>5, <1>6, <1>7, <1>8, StoreSteps

LEMMA ScopeNext ==
  ASSUME ScopeInv, [Next]_vars
  PROVE  ScopeInv' /\ (tx.open /\ tx'.open => InScope(pg, pg', tx.s))
<1>1. KeysInv'
  BY KeysNext DEF ScopeInv
<1>2. CASE Rollback
  <2>1. PICK x : pg' = [tx.old EXCEPT !["noticeId"] = x]
    BY <1>2 DEF Rollback
  <2>2. "noticeId" \in PgFields \ ({"disputes"} \cup DisputeTables \cup NumberedTables)
    BY DEF PgFields, DisputeTables, NumberedTables
  <2>3. PgOK(pg')
    BY <1>2, <2>1, <2>2, FieldOK DEF ScopeInv, Rollback
  <2>4. ~tx'.open
    BY <1>2 DEF Rollback, NoTx
  <2>. QED  BY <1>1, <2>3, <2>4 DEF ScopeInv
<1>3. ASSUME NEW s \in Sessions, Begin(s) PROVE ScopeInv' /\ ~tx.open
  <2>1. pg' = pg /\ tx'.old = pg /\ ~tx.open
    BY <1>3 DEF Begin
  <2>. QED  BY <1>1, <2>1 DEF ScopeInv
<1>4. Commit \/ Tick \/ UNCHANGED vars => Within
  BY ReadWithin DEF Commit, Tick, vars, ScopeInv
<1>5. CASE Within
  <2>1. PgOK(pg') /\ (tx.open => InScope(pg, pg', tx.s))
    BY <1>5 DEF Within
  <2>2. tx'.open => PgOK(tx'.old)
    <3>1. CASE tx.open
      BY <3>1, ImageStays DEF ScopeInv
    <3>2. CASE ~tx.open
      <4>1. ASSUME tx'.open PROVE \E s \in Sessions : Begin(s)
        <5>1. Rollback \/ Commit => FALSE
          BY <3>2 DEF Rollback, Commit
        <5>2. Tick \/ UNCHANGED vars \/ Elsewhere \/ PurgeIdempotencyKeys => FALSE
          BY <3>2, <4>1 DEF Tick, vars, Elsewhere, Goes, PurgeIdempotencyKeys, Aside, Both
        <5>3. ASSUME NEW k PROVE ~GetIdempotent(k) /\ \A h : ~PutIdempotent(k, h)
          BY <3>2 DEF GetIdempotent, PutIdempotent, Calling
        <5>4. ASSUME NEW id PROVE ~GetDispute(id)
          BY <3>2 DEF GetDispute
        <5>. QED  BY <5>1, <5>2, <5>3, <5>4, StoreSteps DEF ScopeInv, KeysInv
      <4>. QED  BY <4>1, <1>3 DEF ScopeInv
    <3>. QED  BY <3>1, <3>2
  <2>. QED  BY <1>1, <2>1, <2>2 DEF ScopeInv
<1>. QED  BY <1>2, <1>3, <1>4, <1>5, StepWithin DEF ScopeInv

\* No call of a session changes a row of another tenant, or a row of a dispute the session
\* cannot see, whatever database the calls before it have left: every statement of the
\* store's port keeps to what its row policies show it (disputes.sql.go, 0024_team_scope.sql).
THEOREM CallsStayInScope == Spec => StaysInScope
<1>1. ASSUME ScopeInv, [Next]_vars
      PROVE  tx.open /\ tx'.open =>
               /\ OtherTenants(pg', tx.s.tenant) = OtherTenants(pg, tx.s.tenant)
               /\ \A d \in pg.disputes : ~Pg!Q!Sees(pg, tx.s, d.id) => RowsOf(pg', d.id) = RowsOf(pg, d.id)
  BY <1>1, ScopeNext DEF InScope, Hidden
<1>2. ScopeInv /\ [Next]_vars => ScopeInv'
  BY ScopeNext
<1>. QED  BY <1>1, <1>2, ScopeInit, PTL DEF Spec, StaysInScope


-----------------------------------------------------------------------------
(* Sorting *)

\* Numbers have a least one of any kind: induction by the least counterexample.
LEMMA LeastOf ==
  ASSUME NEW S \in SUBSET Nat, S # {}
  PROVE  \E m \in S : \A n \in S : m <= n
<1>. DEFINE R == {ss \in Nat \X Nat : ss[1] < ss[2]}
<1>1. IsWellFoundedOn(R, Nat)
  BY NatLessThanWellFounded, Zenon DEF OpToRel
<1>. HIDE DEF R
<1>2. PICK x \in S : \A y \in S : <<y, x>> \notin R
  BY <1>1, WFMin
<1>3. \A y \in S : ~(y < x)
  BY <1>2 DEF R
<1>. QED  BY <1>3

\* A part of a finite set that leaves something out is smaller.
LEMMA Smaller ==
  ASSUME NEW S, IsFiniteSet(S), NEW T, T \subseteq S, NEW x \in S, x \notin T
  PROVE  IsFiniteSet(T) /\ Cardinality(T) \in Nat /\ Cardinality(S) \in Nat /\ Cardinality(T) < Cardinality(S)
<1>1. IsFiniteSet(S \ {x}) /\ Cardinality(S \ {x}) = Cardinality(S) - 1 /\ T \subseteq S \ {x}
  BY FS_RemoveElement
<1>2. Cardinality(T) <= Cardinality(S \ {x}) /\ IsFiniteSet(T) /\ Cardinality(S) \in Nat
  BY <1>1, FS_Subset, FS_CardinalityType
<1>3. Cardinality(T) \in Nat
  BY <1>2, FS_CardinalityType
<1>. QED BY <1>1, <1>2, <1>3

\* A one-to-one map between finite sets of a size leaves nothing out.
LEMMA OneToOneOnto ==
  ASSUME NEW S, NEW T, IsFiniteSet(S), IsFiniteSet(T), Cardinality(S) = Cardinality(T),
         NEW f \in Injection(S, T), NEW t \in T
  PROVE  \E x \in S : f[x] = t
<1>. SUFFICES ASSUME \A x \in S : f[x] # t PROVE FALSE
  OBVIOUS
<1>1. f \in Injection(S, T \ {t})
  BY DEF Injection, IsInjective
<1>2. IsFiniteSet(T \ {t}) /\ Cardinality(T \ {t}) < Cardinality(T) /\ Cardinality(T \ {t}) \in Nat /\ Cardinality(T) \in Nat
  <2>1. T \ {t} \subseteq T /\ t \notin T \ {t}
    OBVIOUS
  <2>. QED BY <2>1, Smaller
<1>3. Cardinality(S) <= Cardinality(T \ {t})
  BY <1>1, <1>2, FS_Injection
<1>. QED BY <1>2, <1>3

\* The pairs of R order S from first to last.
Orders(R, S) ==
  /\ \A x \in S : <<x, x>> \notin R
  /\ \A x, y, z \in S : <<x, y>> \in R /\ <<y, z>> \in R => <<x, z>> \in R
  /\ \A x, y \in S : x = y \/ <<x, y>> \in R \/ <<y, x>> \in R

InOrder(R, S, f) ==
  f \in [1 .. Cardinality(S) -> S] /\ \A i, j \in 1 .. Cardinality(S) : i < j => <<f[i], f[j]>> \in R

\* A finite set has a sorted list: each element at its rank.
LEMMA Sortable ==
  ASSUME NEW S, IsFiniteSet(S), NEW R, Orders(R, S)
  PROVE  \E f : InOrder(R, S, f)
<1>1. PICK n : n = Cardinality(S)
  OBVIOUS
<1>2. n \in Nat
  BY <1>1, FS_CardinalityType
<1>. DEFINE Before(x) == {y \in S : <<y, x>> \in R}
           rank == [x \in S |-> Cardinality(Before(x)) + 1]
<1>3. \A x \in S : IsFiniteSet(Before(x)) /\ Cardinality(Before(x)) \in Nat /\ Cardinality(Before(x)) < n
  <2>. SUFFICES ASSUME NEW x \in S
               PROVE IsFiniteSet(Before(x)) /\ Cardinality(Before(x)) \in Nat /\ Cardinality(Before(x)) < n
    OBVIOUS
  <2>1. Before(x) \subseteq S /\ x \notin Before(x)
    BY DEF Orders
  <2>. QED BY <1>1, <2>1, Smaller
<1>4. \A x \in S : rank[x] \in 1 .. n /\ rank[x] \in Int
  BY <1>2, <1>3
<1>5. \A x, y \in S : <<x, y>> \in R => rank[x] < rank[y]
  <2>. SUFFICES ASSUME NEW x \in S, NEW y \in S, <<x, y>> \in R PROVE rank[x] < rank[y]
    OBVIOUS
  <2>1. Before(x) \subseteq Before(y) /\ x \in Before(y) /\ x \notin Before(x)
    BY DEF Orders
  <2>2. Cardinality(Before(x)) < Cardinality(Before(y))
    BY <1>3, <2>1, Smaller
  <2>. QED BY <1>3, <2>2
<1>. HIDE DEF rank
<1>6. \A x, y \in S : rank[x] = rank[y] => x = y
  <2>. SUFFICES ASSUME NEW x \in S, NEW y \in S, rank[x] = rank[y], x # y PROVE FALSE
    OBVIOUS
  <2>1. rank[x] \in Int /\ rank[y] \in Int /\ (rank[x] < rank[y] \/ rank[y] < rank[x])
    BY <1>4, <1>5 DEF Orders
  <2>. QED BY <2>1
<1>7. IsFiniteSet(1 .. n) /\ Cardinality(1 .. n) = n
  <2>1. IsFiniteSet(1 .. n) /\ Cardinality(1 .. n) = IF 1 > n THEN 0 ELSE n - 1 + 1
    BY <1>2, FS_Interval
  <2>. QED BY <1>2, <2>1
<1>8. \A i \in 1 .. n : \E x \in S : rank[x] = i
  <2>1. rank \in [S -> 1 .. n]
    BY <1>4 DEF rank
  <2>2. Cardinality(S) = Cardinality(1 .. n)
    BY <1>1, <1>7
  <2>3. rank \in Injection(S, 1 .. n)
    BY <1>6, <2>1 DEF Injection, IsInjective
  <2>4. PICK D : D = 1 .. n
    OBVIOUS
  <2>5. IsFiniteSet(D) /\ Cardinality(S) = Cardinality(D) /\ rank \in Injection(S, D)
    BY <1>7, <2>2, <2>3, <2>4
  <2>6. \A i \in D : \E x \in S : rank[x] = i
    BY <2>5, OneToOneOnto
  <2>. QED BY <2>4, <2>6
<1>. DEFINE f == [i \in 1 .. n |-> CHOOSE x \in S : rank[x] = i]
<1>9. \A i \in 1 .. n : f[i] \in S /\ rank[f[i]] = i
  BY <1>8
<1>10. \A i, j \in 1 .. n : i < j => <<f[i], f[j]>> \in R
  <2>. SUFFICES ASSUME NEW i \in 1 .. n, NEW j \in 1 .. n, i < j PROVE <<f[i], f[j]>> \in R
    OBVIOUS
  <2>1. f[i] \in S /\ f[j] \in S /\ rank[f[i]] = i /\ rank[f[j]] = j
    BY <1>9
  <2>2. f[i] # f[j] /\ ~(rank[f[j]] < rank[f[i]])
    BY <2>1
  <2>. QED BY <1>5, <2>1, <2>2 DEF Orders
<1>11. f \in [1 .. n -> S]
  BY <1>9
<1>. HIDE DEF f
<1>12. InOrder(R, S, f)
  BY <1>1, <1>10, <1>11 DEF InOrder
<1>. QED BY <1>12

\* A sorted list of a set has all of it.
LEMMA SortedHasAll ==
  ASSUME NEW S, IsFiniteSet(S), NEW R, Orders(R, S), NEW f, InOrder(R, S, f), NEW x \in S
  PROVE  \E i \in 1 .. Cardinality(S) : f[i] = x
<1>1. PICK n : n = Cardinality(S)
  OBVIOUS
<1>2. n \in Nat
  BY <1>1, FS_CardinalityType
<1>3. IsFiniteSet(1 .. n) /\ Cardinality(1 .. n) = n
  <2>1. IsFiniteSet(1 .. n) /\ Cardinality(1 .. n) = IF 1 > n THEN 0 ELSE n - 1 + 1
    BY <1>2, FS_Interval
  <2>. QED BY <1>2, <2>1
<1>4. f \in [1 .. n -> S] /\ \A i, j \in 1 .. n : i < j => <<f[i], f[j]>> \in R
  BY <1>1 DEF InOrder
<1>5. \A i, j \in 1 .. n : f[i] = f[j] => i = j
  <2>. SUFFICES ASSUME NEW i \in 1 .. n, NEW j \in 1 .. n, f[i] = f[j], i # j PROVE FALSE
    OBVIOUS
  <2>1. i < j \/ j < i
    OBVIOUS
  <2>2. f[i] \in S
    BY <1>4
  <2>. QED BY <1>4, <2>1, <2>2 DEF Orders
<1>6. f \in Injection(1 .. n, S)
  BY <1>4, <1>5 DEF Injection, IsInjective
<1>7. PICK D : D = 1 .. n
  OBVIOUS
<1>8. IsFiniteSet(D) /\ Cardinality(D) = Cardinality(S) /\ f \in Injection(D, S)
  BY <1>1, <1>3, <1>6, <1>7
<1>9. \E i \in D : f[i] = x
  BY <1>8, OneToOneOnto
<1>. QED BY <1>1, <1>7, <1>9

\* And there is only one.
LEMMA SortedOnce ==
  ASSUME NEW S, IsFiniteSet(S), NEW R, Orders(R, S), NEW f, InOrder(R, S, f), NEW g, InOrder(R, S, g)
  PROVE  f = g
<1>1. PICK n : n = Cardinality(S)
  OBVIOUS
<1>2. n \in Nat
  BY <1>1, FS_CardinalityType
<1>3. /\ f \in [1 .. n -> S] /\ \A i, j \in 1 .. n : i < j => <<f[i], f[j]>> \in R
      /\ g \in [1 .. n -> S] /\ \A i, j \in 1 .. n : i < j => <<g[i], g[j]>> \in R
  BY <1>1 DEF InOrder
<1>. DEFINE Off == {i \in 1 .. n : f[i] # g[i]}
<1>4. Off = {}
  <2>. SUFFICES ASSUME Off # {} PROVE FALSE
    OBVIOUS
  <2>1. PICK i \in Off : \A j \in Off : i <= j
    <3>1. Off \in SUBSET Nat
      OBVIOUS
    <3>. HIDE DEF Off
    <3>. QED BY <3>1, LeastOf
  <2>2. i \in 1 .. n /\ f[i] # g[i] /\ f[i] \in S /\ g[i] \in S /\ \A j \in 1 .. n : j < i => f[j] = g[j]
    BY <1>3, <2>1
  <2>3. PICK k \in 1 .. n : g[k] = f[i]
    BY <1>1, <2>2, SortedHasAll
  <2>4. PICK l \in 1 .. n : f[l] = g[i]
    BY <1>1, <2>2, SortedHasAll
  <2>5. i < k
    <3>1. ~(k < i)
      <4>. SUFFICES ASSUME k < i PROVE FALSE
        OBVIOUS
      <4>1. f[k] = f[i] /\ <<f[k], f[i]>> \in R
        BY <1>3, <2>2, <2>3
      <4>. QED BY <2>2, <4>1 DEF Orders
    <3>2. k # i
      BY <2>2, <2>3
    <3>. QED BY <2>2, <3>1, <3>2
  <2>6. i < l
    <3>1. ~(l < i)
      <4>. SUFFICES ASSUME l < i PROVE FALSE
        OBVIOUS
      <4>1. g[l] = g[i] /\ <<g[l], g[i]>> \in R
        BY <1>3, <2>2, <2>4
      <4>. QED BY <2>2, <4>1 DEF Orders
    <3>2. l # i
      BY <2>2, <2>4
    <3>. QED BY <2>2, <3>1, <3>2
  <2>7. <<f[i], g[i]>> \in R /\ <<g[i], f[i]>> \in R
    BY <1>3, <2>2, <2>3, <2>4, <2>5, <2>6
  <2>. QED BY <2>2, <2>7 DEF Orders
<1>5. \A i \in 1 .. n : f[i] = g[i]
  BY <1>4
<1>6. f = [i \in 1 .. n |-> f[i]] /\ g = [i \in 1 .. n |-> g[i]]
  BY <1>3
<1>7. [i \in 1 .. n |-> f[i]] = [i \in 1 .. n |-> g[i]]
  BY <1>5
<1>. QED BY <1>6, <1>7

-----------------------------------------------------------------------------
(* Lists *)

\* A table of disputes with a primary key, and its keyset order.
TableOK(rows) ==
  /\ IsFiniteSet(rows)
  /\ \A d \in rows : {"id", "opened"} \subseteq DOMAIN d /\ d.id \in Int /\ d.opened \in Int
  /\ \A d, e \in rows : d.id = e.id => d = e

NewerPairs(S) == {p \in S \X S : Pg!Q!Newer(p[1], p[2])}

LEMMA KeysetOrders ==
  ASSUME NEW rows, TableOK(rows), NEW S, S \subseteq rows
  PROVE  IsFiniteSet(S) /\ Orders(NewerPairs(S), S)
<1>1. IsFiniteSet(S)
  BY FS_Subset DEF TableOK
<1>2. \A x, y \in S : <<x, y>> \in NewerPairs(S) <=> Pg!Q!Newer(x, y)
  BY DEF NewerPairs
<1>3. \A x \in S : ~Pg!Q!Newer(x, x)
  BY DEF Pg!Q!Newer, TableOK
<1>4. \A x, y, z \in S : Pg!Q!Newer(x, y) /\ Pg!Q!Newer(y, z) => Pg!Q!Newer(x, z)
  <2>. SUFFICES ASSUME NEW x \in S, NEW y \in S, NEW z \in S PROVE Pg!Q!Newer(x, y) /\ Pg!Q!Newer(y, z) => Pg!Q!Newer(x, z)
    OBVIOUS
  <2>1. x.id \in Int /\ x.opened \in Int /\ y.id \in Int /\ y.opened \in Int /\ z.id \in Int /\ z.opened \in Int
    BY DEF TableOK
  <2>. QED BY <2>1 DEF Pg!Q!Newer
<1>5. \A x, y \in S : x = y \/ Pg!Q!Newer(x, y) \/ Pg!Q!Newer(y, x)
  <2>. SUFFICES ASSUME NEW x \in S, NEW y \in S PROVE x = y \/ Pg!Q!Newer(x, y) \/ Pg!Q!Newer(y, x)
    OBVIOUS
  <2>1. x.id \in Int /\ x.opened \in Int /\ y.id \in Int /\ y.opened \in Int /\ (x.id = y.id => x = y)
    BY DEF TableOK
  <2>. QED BY <2>1 DEF Pg!Q!Newer
<1>. QED BY <1>1, <1>2, <1>3, <1>4, <1>5 DEF Orders

\* What ORDER BY gives: all the rows, each once, newest first.
Listed(S, f) ==
  /\ f \in [1 .. Cardinality(S) -> S]
  /\ \A i, j \in 1 .. Cardinality(S) : i < j => Pg!Q!Newer(f[i], f[j])
  /\ \A x \in S : \E i \in 1 .. Cardinality(S) : f[i] = x

LEMMA OrderedByKeyset ==
  ASSUME NEW rows, TableOK(rows), NEW S, S \subseteq rows
  PROVE  Cardinality(S) \in Nat /\ Listed(S, Pg!Q!NewestFirst(S))
<1>1. IsFiniteSet(S) /\ Orders(NewerPairs(S), S)
  BY KeysetOrders
<1>2. Cardinality(S) \in Nat
  BY <1>1, FS_CardinalityType
<1>3. PICK g : InOrder(NewerPairs(S), S, g)
  BY <1>1, Sortable
<1>. DEFINE P(h) == \A i, j \in DOMAIN h : i < j => Pg!Q!Newer(h[i], h[j])
<1>4. g \in [1 .. Cardinality(S) -> S] /\ P(g)
  BY <1>3 DEF InOrder, NewerPairs
<1>5. PICK f : f = Pg!Q!NewestFirst(S)
  OBVIOUS
<1>6. f = CHOOSE list \in [1 .. Cardinality(S) -> S] : P(list)
  <2>1. Pg!Q!Cardinality(S) = Cardinality(S)
    BY DEF Pg!Q!Cardinality, Cardinality
  <2>. QED BY <1>5, <2>1, Zenon DEF Pg!Q!NewestFirst, Pg!Q!OrderBy
<1>7. f \in [1 .. Cardinality(S) -> S] /\ P(f)
  BY <1>4, <1>6
<1>8. \A i, j \in 1 .. Cardinality(S) : i < j => Pg!Q!Newer(f[i], f[j])
  BY <1>7
<1>9. InOrder(NewerPairs(S), S, f)
  BY <1>7, <1>8 DEF InOrder, NewerPairs
<1>10. \A x \in S : \E i \in 1 .. Cardinality(S) : f[i] = x
  BY <1>1, <1>9, SortedHasAll
<1>. QED BY <1>2, <1>5, <1>7, <1>8, <1>10 DEF Listed

Cursor(d) == [opened |-> d.opened, id |-> d.id]

\* The rows a page is taken from.
PageRows(db, s, q, after) ==
  {d \in Pg!Q!Scoped(db, s) : q.state \in {"any", d.state} /\ \A c \in after : Pg!Q!Newer(c, d)}

\* A page has the first of them, and a cursor when they are more.
PageOf(S, got, new, next, f, limit, n, k) ==
  /\ limit \in Nat /\ limit >= 1 /\ n \in Nat /\ n = Cardinality(S) /\ Listed(S, f)
  /\ k = IF n > limit THEN limit ELSE n
  /\ new = got \o [i \in 1 .. k |-> Pg!Summary(f[i])]
  /\ next = IF n > limit THEN {Cursor(f[limit])} ELSE {}

Shown(S, got, new, next) == \E f, limit, n, k : PageOf(S, got, new, next, f, limit, n, k)

LEMMA ShowShows ==
  ASSUME TableOK(pg.disputes), NEW s, NEW q, ~q.overdue, NEW after, NEW got, NEW must, Show(s, q, after, got, must)
  PROVE  /\ pg' = pg /\ UNCHANGED <<tx, now, focus>>
         /\ DOMAIN walk' = {"open", "s", "q", "after", "got", "must"}
         /\ walk'.open = TRUE /\ walk'.s = s /\ walk'.q = q /\ walk'.must = must
         /\ Shown(PageRows(pg, s, q, after), got, walk'.got, walk'.after)
<1>1. PICK limit : limit = Limit(PageLimit)
  OBVIOUS
<1>2. limit \in Nat /\ limit >= 1
  BY <1>1, StoreAssumption DEF Limit
<1>3. PICK Sq : Sq = Query(q, after, limit + 1)
  OBVIOUS
<1>4. Sq.state = q.state /\ ~Sq.overdue /\ Sq.after = after /\ Sq.limit = limit + 1
  BY <1>3 DEF Query
<1>5. PICK S : S = PageRows(pg, s, q, after)
  OBVIOUS
<1>6. S \subseteq pg.disputes
  BY <1>5 DEF PageRows, Pg!Q!Scoped, Pg!Q!InTenant
<1>7. PICK f, n : f = Pg!Q!NewestFirst(S) /\ n = Cardinality(S)
  OBVIOUS
<1>8. n \in Nat /\ Listed(S, f)
  BY <1>6, <1>7, OrderedByKeyset
<1>9. f \in [1 .. n -> S]
  BY <1>7, <1>8 DEF Listed
<1>10. f \in Seq(S) /\ Len(f) = n
  BY <1>8, <1>9
<1>11. PICK top : top = IF n < limit + 1 THEN n ELSE limit + 1
  OBVIOUS
<1>12. PICK rows : rows = Pg!Q!ListDisputes(pg, s, Sq)
  OBVIOUS
<1>13. rows = SubSeq(f, 1, top)
  <2>1. S = {d \in Pg!Q!Scoped(pg, s) :
                 /\ Sq.state \in {"any", d.state}
                 /\ Sq.overdue => Pg!Q!Overdue(pg.deadlines, d.id, Sq.now)
                 /\ \A c \in Sq.after : Pg!Q!Newer(c, d)}
    BY <1>4, <1>5 DEF PageRows
  <2>2. rows = SubSeq(Pg!Q!NewestFirst(S), 1, IF Len(Pg!Q!NewestFirst(S)) < Sq.limit THEN Len(Pg!Q!NewestFirst(S)) ELSE Sq.limit)
    BY <1>12, <2>1, Zenon DEF Pg!Q!ListDisputes
  <2>. QED BY <1>4, <1>7, <1>10, <1>11, <2>2
<1>14. top \in Nat /\ top <= n /\ top <= limit + 1 /\ (n > limit <=> top > limit) /\ (n <= limit => top = n)
  BY <1>2, <1>8, <1>11
<1>15. rows \in Seq(S) /\ Len(rows) = top /\ DOMAIN rows = 1 .. top /\ \A i \in 1 .. top : rows[i] = f[i]
  BY <1>10, <1>13, <1>14
<1>16. PICK val : val = [i \in 1 .. top |-> Pg!Summary(f[i])]
  OBVIOUS
<1>17. PICK p : p = Pg!ListDisputes(pg, s, Sq)
  OBVIOUS
<1>18. p.db = pg /\ p.val = [i \in DOMAIN rows |-> Pg!Summary(rows[i])]
  BY <1>12, <1>17 DEF Pg!ListDisputes, Pg!Answer
<1>19. p.val = val
  BY <1>15, <1>16, <1>18
<1>. PICK T : T = {Pg!Summary(d) : d \in S}
  OBVIOUS
<1>20. val \in Seq(T) /\ Len(val) = top
  <2>1. \A i \in 1 .. top : f[i] \in S
    BY <1>8, <1>9, <1>14
  <2>2. val \in [1 .. top -> T]
    BY <1>16, <2>1
  <2>. QED BY <1>14, <2>2
<1>21. PICK page : page = Page(val, limit)
  OBVIOUS
<1>22. PICK k : k = IF n > limit THEN limit ELSE n
  OBVIOUS
<1>23. page.items = [i \in 1 .. k |-> Pg!Summary(f[i])]
  <2>1. CASE n > limit
    <3>1. page.items = SubSeq(val, 1, limit) /\ k = limit
      BY <1>14, <1>20, <1>21, <1>22, <2>1 DEF Page
    <3>2. SubSeq(val, 1, limit) = [i \in 1 .. limit |-> val[i]]
      BY <1>2, <1>14, <1>20, <2>1
    <3>3. \A i \in 1 .. limit : val[i] = Pg!Summary(f[i])
      BY <1>2, <1>14, <1>16, <2>1
    <3>. QED BY <3>1, <3>2, <3>3
  <2>2. CASE ~(n > limit)
    <3>1. page.items = val /\ k = n /\ top = n
      BY <1>2, <1>8, <1>14, <1>20, <1>21, <1>22, <2>2 DEF Page
    <3>. QED BY <1>16, <3>1
  <2>. QED BY <2>1, <2>2
<1>24. page.next = IF n > limit THEN {Cursor(f[limit])} ELSE {}
  <2>1. CASE n > limit
    <3>1. page.next = {[opened |-> val[limit].opened, id |-> val[limit].id]}
      BY <1>14, <1>20, <1>21, <2>1 DEF Page
    <3>2. val[limit] = Pg!Summary(f[limit])
      BY <1>2, <1>14, <1>16, <2>1
    <3>. QED BY <3>1, <3>2, <2>1 DEF Pg!Summary, Cursor
  <2>2. CASE ~(n > limit)
    BY <1>2, <1>8, <1>14, <1>20, <1>21, <2>2 DEF Page
  <2>. QED BY <2>1, <2>2
<1>25. /\ pg' = p.db
       /\ walk' = [open |-> TRUE, s |-> s, q |-> q, after |-> page.next, got |-> got \o page.items, must |-> must]
       /\ UNCHANGED <<tx, now, focus, applied>>
  BY <1>1, <1>3, <1>17, <1>19, <1>21 DEF Show
<1>26. walk'.got = got \o [i \in 1 .. k |-> Pg!Summary(f[i])]
  BY <1>23, <1>25
<1>27. walk'.after = IF n > limit THEN {Cursor(f[limit])} ELSE {}
  BY <1>24, <1>25
<1>28. Shown(S, got, walk'.got, walk'.after)
  <2>1. PICK new, next : new = walk'.got /\ next = walk'.after
    OBVIOUS
  <2>2. PageOf(S, got, new, next, f, limit, n, k)
    BY <1>2, <1>7, <1>8, <1>22, <1>26, <1>27, <2>1 DEF PageOf
  <2>3. Shown(S, got, new, next)
    BY <2>2 DEF Shown
  <2>. QED BY <2>1, <2>3
<1>. QED BY <1>5, <1>18, <1>25, <1>28

ShownIn(got, d) == \E i \in DOMAIN got : got[i].id = d.id
Ahead(after, d) == after # {} /\ \A c \in after : Pg!Q!Newer(c, d)

\* What the reader has is in order, and the cursor is at its end.
GotOK(got, after) ==
  /\ \E S : got \in Seq(S)
  /\ \A i \in DOMAIN got : got[i].id \in Int /\ got[i].opened \in Int
  /\ \A i, j \in DOMAIN got : i < j => Pg!Q!Newer(got[i], got[j])
  /\ after # {} => Len(got) > 0 /\ after = {Cursor(got[Len(got)])}

LEMMA Joined ==
  ASSUME NEW T, NEW a \in Seq(T), NEW b \in Seq(T)
  PROVE  /\ a \o b \in Seq(T) /\ Len(a \o b) = Len(a) + Len(b)
         /\ \A i \in 1 .. Len(a) : (a \o b)[i] = a[i]
         /\ \A i \in 1 .. Len(b) : (a \o b)[Len(a) + i] = b[i]
<1>1. a \o b \in Seq(T) /\ Len(a \o b) = Len(a) + Len(b)
  OBVIOUS
<1>2. \A i \in 1 .. Len(a) : (a \o b)[i] = a[i]
  OBVIOUS
<1>3. \A i \in 1 .. Len(b) : (a \o b)[Len(a) + i] = b[i]
  OBVIOUS
<1>. QED BY <1>1, <1>2, <1>3

LEMMA NextPageOK ==
  ASSUME NEW rows, TableOK(rows), NEW S, S \subseteq rows, NEW got, NEW after, GotOK(got, after),
         after = {} => got = <<>>, \A d \in S : \A c \in after : Pg!Q!Newer(c, d),
         NEW new, NEW next, Shown(S, got, new, next)
  PROVE  /\ GotOK(new, next)
         /\ \A d : ShownIn(got, d) => ShownIn(new, d)
         /\ \A d \in S : ShownIn(new, d) \/ Ahead(next, d)
<1>1. PICK f, limit, n, k : PageOf(S, got, new, next, f, limit, n, k)
  BY DEF Shown
<1>2. /\ limit \in Nat /\ limit >= 1 /\ n \in Nat /\ k \in Nat /\ k <= n /\ f \in [1 .. n -> S]
      /\ \A i, j \in 1 .. n : i < j => Pg!Q!Newer(f[i], f[j])
      /\ \A d \in S : \E i \in 1 .. n : f[i] = d
      /\ k = IF n > limit THEN limit ELSE n
  BY <1>1 DEF PageOf, Listed
<1>3. PICK items : items = [i \in 1 .. k |-> Pg!Summary(f[i])]
  OBVIOUS
<1>4. \A i \in 1 .. k : /\ items[i].id = f[i].id /\ items[i].opened = f[i].opened /\ f[i] \in S
                        /\ items[i].id \in Int /\ items[i].opened \in Int
  <2>1. \A i \in 1 .. k : items[i] = Pg!Summary(f[i]) /\ f[i] \in S
    BY <1>2, <1>3
  <2>0. \A d \in S : d.id \in Int /\ d.opened \in Int
    BY DEF TableOK
  <2>2. \A i \in 1 .. k : f[i].id \in Int /\ f[i].opened \in Int
    BY <2>0, <2>1
  <2>3. \A d : Pg!Summary(d).id = d.id /\ Pg!Summary(d).opened = d.opened
    BY DEF Pg!Summary
  <2>. QED BY <2>1, <2>2, <2>3
<1>5. PICK G : got \in Seq(G)
  BY DEF GotOK
<1>6. PICK T, l : T = G \cup {items[i] : i \in 1 .. k} /\ l = Len(got)
  OBVIOUS
<1>7. got \in Seq(T) /\ l \in Nat /\ DOMAIN got = 1 .. l
  BY <1>5, <1>6
<1>8. items \in Seq(T) /\ Len(items) = k /\ DOMAIN items = 1 .. k
  <2>1. items \in [1 .. k -> T]
    BY <1>3, <1>6
  <2>. QED BY <1>2, <2>1
<1>9. new = got \o items
  BY <1>1, <1>3 DEF PageOf
<1>10. /\ new \in Seq(T) /\ Len(new) = l + k /\ DOMAIN new = 1 .. (l + k)
       /\ \A i \in 1 .. l : new[i] = got[i]
       /\ \A i \in 1 .. k : new[l + i] = items[i]
  <2>0. Len(got) = l /\ Len(items) = k /\ got \in Seq(T) /\ items \in Seq(T) /\ l \in Nat /\ k \in Nat
    BY <1>2, <1>6, <1>7, <1>8
  <2>1. /\ new \in Seq(T) /\ Len(new) = Len(got) + Len(items)
        /\ \A i \in 1 .. Len(got) : new[i] = got[i]
        /\ \A i \in 1 .. Len(items) : new[Len(got) + i] = items[i]
    <3>1. \A a, b \in Seq(T) :
            /\ a \o b \in Seq(T) /\ Len(a \o b) = Len(a) + Len(b)
            /\ \A i \in 1 .. Len(a) : (a \o b)[i] = a[i]
            /\ \A i \in 1 .. Len(b) : (a \o b)[Len(a) + i] = b[i]
      BY Joined
    <3>. QED BY <1>9, <2>0, <3>1, Zenon
  <2>2. Len(new) = l + k /\ DOMAIN new = 1 .. Len(new)
    BY <2>0, <2>1
  <2>3. \A i \in 1 .. l : new[i] = got[i]
    BY <2>0, <2>1, Zenon
  <2>4. \A i \in 1 .. k : new[l + i] = items[i]
    BY <2>0, <2>1, Zenon
  <2>. QED BY <2>1, <2>2, <2>3, <2>4
<1>11. \A i \in 1 .. (l + k) : i \in 1 .. l \/ \E j \in 1 .. k : i = l + j
  <2>. SUFFICES ASSUME NEW i \in 1 .. (l + k), i \notin 1 .. l PROVE \E j \in 1 .. k : i = l + j
    OBVIOUS
  <2>1. i - l \in 1 .. k /\ i = l + (i - l)
    BY <1>2, <1>7
  <2>. QED BY <2>1
<1>12. \A i \in 1 .. (l + k) : new[i].id \in Int /\ new[i].opened \in Int
  BY <1>4, <1>7, <1>10, <1>11 DEF GotOK
<1>13. \A i \in 1 .. l : \A j \in 1 .. k : Pg!Q!Newer(got[i], items[j])
  <2>. SUFFICES ASSUME NEW i \in 1 .. l, NEW j \in 1 .. k PROVE Pg!Q!Newer(got[i], items[j])
    OBVIOUS
  <2>1. after # {}
    BY <1>6, <1>7
  <2>2. PICK c : c = got[l]
    OBVIOUS
  <2>3. after = {Cursor(c)} /\ l \in 1 .. l
    BY <1>6, <1>7, <2>1, <2>2 DEF GotOK
  <2>4. Pg!Q!Newer(Cursor(c), f[j])
    BY <1>4, <2>3
  <2>5. /\ c.id \in Int /\ c.opened \in Int /\ got[i].id \in Int /\ got[i].opened \in Int
        /\ items[j].id \in Int /\ items[j].opened \in Int
    BY <1>4, <1>7, <2>2, <2>3 DEF GotOK
  <2>6. Pg!Q!Newer(c, items[j])
    BY <1>4, <2>4 DEF Pg!Q!Newer, Cursor
  <2>7. i = l \/ Pg!Q!Newer(got[i], c)
    BY <1>7, <2>2, <2>3 DEF GotOK
  <2>. QED BY <2>2, <2>5, <2>6, <2>7 DEF Pg!Q!Newer
<1>14. \A i, j \in 1 .. k : i < j => Pg!Q!Newer(items[i], items[j])
  <2>. SUFFICES ASSUME NEW i \in 1 .. k, NEW j \in 1 .. k, i < j PROVE Pg!Q!Newer(items[i], items[j])
    OBVIOUS
  <2>1. Pg!Q!Newer(f[i], f[j])
    BY <1>2
  <2>. QED BY <1>4, <2>1 DEF Pg!Q!Newer
<1>15. \A i, j \in 1 .. (l + k) : i < j => Pg!Q!Newer(new[i], new[j])
  <2>. SUFFICES ASSUME NEW i \in 1 .. (l + k), NEW j \in 1 .. (l + k), i < j PROVE Pg!Q!Newer(new[i], new[j])
    OBVIOUS
  <2>1. CASE j \in 1 .. l
    <3>1. i \in 1 .. l
      BY <1>7, <2>1
    <3>. QED BY <1>7, <1>10, <2>1, <3>1 DEF GotOK
  <2>2. CASE j \notin 1 .. l
    <3>1. PICK b \in 1 .. k : j = l + b
      BY <1>11, <2>2
    <3>2. CASE i \in 1 .. l
      BY <1>10, <1>13, <3>1, <3>2
    <3>3. CASE i \notin 1 .. l
      <4>1. PICK a \in 1 .. k : i = l + a
        BY <1>11, <3>3
      <4>2. a < b
        BY <1>7, <3>1, <4>1
      <4>3. new[i] = items[a] /\ new[j] = items[b]
        BY <1>10, <3>1, <4>1
      <4>. QED BY <1>14, <4>2, <4>3
    <3>. QED BY <3>2, <3>3
  <2>. QED BY <2>1, <2>2
<1>16. next # {} => Len(new) > 0 /\ next = {Cursor(new[Len(new)])}
  <2>. SUFFICES ASSUME next # {} PROVE Len(new) > 0 /\ next = {Cursor(new[Len(new)])}
    OBVIOUS
  <2>1. n > limit /\ next = {Cursor(f[limit])}
    BY <1>1 DEF PageOf
  <2>2. k = limit /\ k \in 1 .. k
    BY <1>2, <2>1
  <2>3. new[l + k] = items[k] /\ Cursor(items[k]) = Cursor(f[k])
    BY <1>4, <1>10, <2>2 DEF Cursor
  <2>. QED BY <1>7, <1>10, <2>1, <2>2, <2>3
<1>17. GotOK(new, next)
  <2>1. \E U : new \in Seq(U)
    BY <1>10
  <2>. QED BY <1>10, <1>12, <1>15, <1>16, <2>1 DEF GotOK
<1>18. \A d : ShownIn(got, d) => ShownIn(new, d)
  <2>. SUFFICES ASSUME NEW d, ShownIn(got, d) PROVE ShownIn(new, d)
    OBVIOUS
  <2>1. PICK i \in 1 .. l : got[i].id = d.id
    BY <1>7 DEF ShownIn
  <2>2. i \in 1 .. (l + k)
    BY <1>2, <1>7
  <2>. QED BY <1>10, <2>1, <2>2 DEF ShownIn
<1>19. \A d \in S : ShownIn(new, d) \/ Ahead(next, d)
  <2>. SUFFICES ASSUME NEW d \in S PROVE ShownIn(new, d) \/ Ahead(next, d)
    OBVIOUS
  <2>1. PICK i \in 1 .. n : f[i] = d
    BY <1>2
  <2>2. CASE i <= k
    <3>1. i \in 1 .. k /\ l + i \in 1 .. (l + k)
      BY <1>2, <1>7, <2>2
    <3>2. new[l + i].id = d.id
      BY <1>4, <1>10, <2>1, <3>1
    <3>. QED BY <1>10, <3>1, <3>2 DEF ShownIn
  <2>3. CASE ~(i <= k)
    <3>1. n > limit /\ k = limit /\ limit \in 1 .. n /\ limit < i
      BY <1>2, <2>3
    <3>2. Pg!Q!Newer(f[limit], d) /\ next = {Cursor(f[limit])}
      BY <1>1, <1>2, <2>1, <3>1 DEF PageOf
    <3>3. Pg!Q!Newer(Cursor(f[limit]), d)
      BY <3>2 DEF Pg!Q!Newer, Cursor
    <3>. QED BY <3>2, <3>3 DEF Ahead
  <2>. QED BY <2>2, <2>3
<1>. QED BY <1>17, <1>18, <1>19

\* What a transaction may do to the table: rows come, and rows change but for id and opening.
Evolves(rows, new) ==
  /\ TableOK(new)
  /\ \A d \in rows : \E e \in new : e.id = d.id
  /\ \A e \in new : (\E d \in rows : d.id = e.id /\ d.opened = e.opened) \/ (\A d \in rows : d.id # e.id)

LEMMA SameEvolves == ASSUME NEW rows, TableOK(rows) PROVE Evolves(rows, rows)
BY DEF Evolves

LEMMA InsertEvolves ==
  ASSUME NEW db, "disputes" \in DOMAIN db, TableOK(db.disputes), NEW s, NEW d, {"id", "opened", "tenant"} \subseteq DOMAIN d,
         d.id \in Int, d.opened \in Int
  PROVE  Evolves(db.disputes, Pg!InsertDispute(db, s, d).db.disputes)
<1>1. CASE Pg!InsertDispute(db, s, d).db = db
  BY <1>1, SameEvolves
<1>2. CASE Pg!InsertDispute(db, s, d).db # db
  <2>1. PICK e : e = [d EXCEPT !.tenant = s.tenant]
    OBVIOUS
  <2>2. PICK X : X = db.disputes \cup {e}
    OBVIOUS
  <2>3. /\ Pg!InsertDispute(db, s, d).db = [db EXCEPT !.disputes = X]
        /\ \A r \in db.disputes : r.id # d.id
    BY <1>2, <2>1, <2>2 DEF Pg!InsertDispute, Pg!Exec, Pg!Q!InsertDispute, Pg!Q!Refused, Pg!Q!Done
  <2>4. {"id", "opened"} \subseteq DOMAIN e /\ e.id = d.id /\ e.opened = d.opened
    BY <2>1
  <2>5. IsFiniteSet(X)
    BY <2>2, FS_AddElement DEF TableOK
  <2>6. TableOK(X)
    BY <2>2, <2>3, <2>4, <2>5 DEF TableOK
  <2>7. Evolves(db.disputes, X)
    BY <2>2, <2>3, <2>4, <2>6 DEF Evolves
  <2>. QED BY <2>3, <2>7
<1>. QED BY <1>1, <1>2

\* The rows of one dispute, each replaced.
LEMMA ReplaceEvolves ==
  ASSUME NEW rows, TableOK(rows), NEW old, old \subseteq rows, NEW new, IsFiniteSet(new),
         \A e \in new : {"id", "opened"} \subseteq DOMAIN e /\ \E d \in old : e.id = d.id /\ e.opened = d.opened,
         \A d \in old : \E e \in new : e.id = d.id,
         \A e, f \in new : e.id = f.id => e = f
  PROVE  Evolves(rows, (rows \ old) \cup new)
<1>1. PICK X : X = (rows \ old) \cup new
  OBVIOUS
<1>2. IsFiniteSet(X)
  <2>1. IsFiniteSet(rows \ old)
    BY FS_Subset DEF TableOK
  <2>. QED BY <1>1, <2>1, FS_Union
<1>3. \A d \in X : {"id", "opened"} \subseteq DOMAIN d /\ d.id \in Int /\ d.opened \in Int
  BY <1>1 DEF TableOK
<1>4. \A d, e \in X : d.id = e.id => d = e
  BY <1>1 DEF TableOK
<1>5. TableOK(X)
  BY <1>2, <1>3, <1>4 DEF TableOK
<1>6. \A d \in rows : \E e \in X : e.id = d.id
  BY <1>1
<1>7. \A e \in X : \E d \in rows : d.id = e.id /\ d.opened = e.opened
  BY <1>1
<1>. QED BY <1>1, <1>5, <1>6, <1>7 DEF Evolves

LEMMA MapEvolves ==
  ASSUME NEW rows, TableOK(rows), NEW old, old \subseteq rows, NEW new, NEW to \in Surjection(old, new),
         \A d \in old : {"id", "opened"} \subseteq DOMAIN to[d] /\ to[d].id = d.id /\ to[d].opened = d.opened
  PROVE  Evolves(rows, (rows \ old) \cup new)
<1>1. (\A d \in old : to[d] \in new) /\ \A e \in new : \E d \in old : to[d] = e
  BY DEF Surjection
<1>2. IsFiniteSet(old)
  BY FS_Subset DEF TableOK
<1>5. IsFiniteSet(new)
  BY <1>2, FS_Surjection
<1>6. \A e \in new : {"id", "opened"} \subseteq DOMAIN e /\ \E d \in old : e.id = d.id /\ e.opened = d.opened
  BY <1>1
<1>7. \A d \in old : \E e \in new : e.id = d.id
  BY <1>1
<1>8. \A e, f \in new : e.id = f.id => e = f
  <2>1. \A d, c \in old : to[d].id = to[c].id => d = c
    BY DEF TableOK
  <2>. QED BY <1>1, <2>1
<1>9. Evolves(rows, (rows \ old) \cup new)
  BY <1>5, <1>6, <1>7, <1>8, ReplaceEvolves
<1>. QED BY <1>1, <1>9

LEMMA UpdateEvolves ==
  ASSUME NEW db, "disputes" \in DOMAIN db, TableOK(db.disputes), NEW s, NEW id, NEW expected, NEW x
  PROVE  /\ Evolves(db.disputes, Pg!UpdateDisputeState(db, s, id, expected, x).db.disputes)
         /\ Evolves(db.disputes, Pg!UpdateDisputeTeam(db, s, id, expected, x).db.disputes)
<1>1. PICK rows : rows = {d \in Pg!Q!GetDispute(db, s, id) : d.version = expected}
  OBVIOUS
<1>2. rows \subseteq db.disputes
  BY <1>1 DEF Pg!Q!GetDispute, Pg!Q!Scoped, Pg!Q!InTenant
<1>4. \A d \in rows : {"id", "opened"} \subseteq DOMAIN d
  BY <1>2 DEF TableOK
<1>5. Evolves(db.disputes, Pg!UpdateDisputeState(db, s, id, expected, x).db.disputes)
  <2>1. PICK to : to = [d \in rows |-> [d EXCEPT !.state = x, !.version = @ + 1]]
    OBVIOUS
  <2>2. \A d \in rows : {"id", "opened"} \subseteq DOMAIN to[d] /\ to[d].id = d.id /\ to[d].opened = d.opened
    BY <1>4, <2>1
  <2>3. PICK changed : changed = {to[d] : d \in rows}
    OBVIOUS
  <2>4. to \in Surjection(rows, changed)
    BY <2>1, <2>3 DEF Surjection
  <2>5. Evolves(db.disputes, (db.disputes \ rows) \cup changed)
    BY <1>2, <2>2, <2>3, <2>4, MapEvolves
  <2>6. changed = {[d EXCEPT !.state = x, !.version = @ + 1] : d \in rows}
    BY <2>1, <2>3
  <2>7. Pg!UpdateDisputeState(db, s, id, expected, x).db = [db EXCEPT !.disputes = (@ \ rows) \cup changed]
    BY <1>1, <2>6 DEF Pg!UpdateDisputeState, Pg!Touched, Pg!Failure, Pg!Exec, Pg!Q!UpdateDisputeState,
                      Pg!Q!Replace, Pg!Q!Done
  <2>. QED BY <2>5, <2>7
<1>6. Evolves(db.disputes, Pg!UpdateDisputeTeam(db, s, id, expected, x).db.disputes)
  <2>1. PICK to : to = [d \in rows |-> [d EXCEPT !.team = x, !.version = @ + 1]]
    OBVIOUS
  <2>2. \A d \in rows : {"id", "opened"} \subseteq DOMAIN to[d] /\ to[d].id = d.id /\ to[d].opened = d.opened
    BY <1>4, <2>1
  <2>3. PICK changed : changed = {to[d] : d \in rows}
    OBVIOUS
  <2>4. to \in Surjection(rows, changed)
    BY <2>1, <2>3 DEF Surjection
  <2>5. Evolves(db.disputes, (db.disputes \ rows) \cup changed)
    BY <1>2, <2>2, <2>3, <2>4, MapEvolves
  <2>6. changed = {[d EXCEPT !.team = x, !.version = @ + 1] : d \in rows}
    BY <2>1, <2>3
  <2>7. Pg!UpdateDisputeTeam(db, s, id, expected, x).db = [db EXCEPT !.disputes = (@ \ rows) \cup changed]
    BY <1>1, <2>6 DEF Pg!UpdateDisputeTeam, Pg!Touched, Pg!Failure, Pg!Exec, Pg!Q!UpdateDisputeTeam,
                      Pg!Q!Replace, Pg!Q!Done
  <2>. QED BY <2>5, <2>7
<1>. QED BY <1>5, <1>6

-----------------------------------------------------------------------------
(* The steps beside a reader.  Other parts of the port leave it alone.     *)

Away == focus # "listing" /\ focus' = focus /\ walk' = walk

LEMMA CallAway ==
  ASSUME NEW part, part # "listing", Calling(part), NEW p, NEW m, NEW t, CallThen(p, m, t)
  PROVE  Away
BY DEF Calling, CallThen, Both, Away

LEMMA AsideAway ==
  ASSUME NEW part, part # "listing", NEW p, NEW m, Aside(part, p, m)
  PROVE  Away
BY DEF Aside, Both, Away

LEMMA LastAway == ASSUME NEW p, NEW m, LastCall(p, m) PROVE Away
BY CallAway DEF LastCall

LEMMA StepsAway ==
  ASSUME NEW id
  PROVE  /\ \A t : GetTransaction(t) => Away
         /\ GetAccount \/ TenantName \/ CountByState \/ ListEvents(id) => Away
         /\ \A seq, to : AppendEvent(id, seq, to) => Away
         /\ \A since : AccountHistory(id, since) => Away
         /\ \A k : GetIdempotent(k) => Away
         /\ \A k, h : PutIdempotent(k, h) => Away
         /\ PurgeIdempotencyKeys => Away
         /\ \A cycle, dues : InsertDeadlines(id, cycle, dues) => Away
         /\ \A kind, cycle, met : SettleDeadline(id, kind, cycle, met) => Away
         /\ ListDeadlines(id) \/ NextDeadlines \/ ListOverdue \/ CountOverdue \/ TenantCalendar => Away
         /\ \A seq, kinds : AppendLedger(id, seq, kinds) => Away
         /\ ListLedger(id) \/ SuspenseBalances \/ TenantCore => Away
         /\ \A seq, tier : InsertRisk(id, seq, tier) => Away
         /\ ListRisk(id) \/ LatestRisk \/ GetQuestionnaire(id) => Away
         /\ \A q : SendQuestionnaire(id, q) \/ AnswerQuestionnaire(id, q) => Away
<1>1. /\ \A t : GetTransaction(t) => Away
      /\ GetAccount \/ TenantName \/ CountByState \/ ListEvents(id) => Away
  BY CallAway, AsideAway DEF GetTransaction, GetAccount, TenantName, CountByState, ListEvents, Call
<1>2. \A seq, to : AppendEvent(id, seq, to) => Away
  BY CallAway DEF AppendEvent, Call
<1>3. \A since : AccountHistory(id, since) => Away
  BY DEF AccountHistory, Calling, Both, Away
<1>4. (\A k : GetIdempotent(k) => Away) /\ \A k, h : PutIdempotent(k, h) => Away
  BY CallAway DEF GetIdempotent, PutIdempotent
<1>5. PurgeIdempotencyKeys => Away
  BY AsideAway DEF PurgeIdempotencyKeys
<1>6. /\ \A cycle, dues : InsertDeadlines(id, cycle, dues) => Away
      /\ \A kind, cycle, met : SettleDeadline(id, kind, cycle, met) => Away
  BY CallAway DEF InsertDeadlines, SettleDeadline, Call
<1>7. ListDeadlines(id) \/ NextDeadlines \/ ListOverdue \/ CountOverdue \/ TenantCalendar => Away
  BY CallAway, AsideAway DEF ListDeadlines, NextDeadlines, ListOverdue, CountOverdue, TenantCalendar, Call
<1>8. /\ \A seq, kinds : AppendLedger(id, seq, kinds) => Away
      /\ ListLedger(id) \/ SuspenseBalances \/ TenantCore => Away
  BY CallAway, AsideAway DEF AppendLedger, ListLedger, SuspenseBalances, TenantCore, Call
<1>9. /\ \A seq, tier : InsertRisk(id, seq, tier) => Away
      /\ ListRisk(id) \/ LatestRisk \/ GetQuestionnaire(id) => Away
      /\ \A q : SendQuestionnaire(id, q) \/ AnswerQuestionnaire(id, q) => Away
  BY CallAway DEF InsertRisk, ListRisk, LatestRisk, GetQuestionnaire, SendQuestionnaire, AnswerQuestionnaire, Call
<1>. QED BY <1>1, <1>2, <1>3, <1>4, <1>5, <1>6, <1>7, <1>8, <1>9

LEMMA MoreStepsAway ==
  ASSUME NEW id
  PROVE  /\ \A channel, actor : InsertNotice(id, channel, actor) => Away
         /\ \A orig : ResendNotice(id, orig) => Away
         /\ ListNotices(id) \/ ClaimNotices \/ OutboxBacklog => Away
         /\ \A n : GetNotice(id, n) => Away
         /\ \A n, failed : FinishNotice(n, failed) => Away
         /\ \A f : InsertAttachment(id, f) \/ GetAttachment(id, f) => Away
         /\ \A fs : ClaimAttachments(id, fs) => Away
         /\ ListAttachmentMeta(id) \/ NoticeAttachments(id) \/ PurgeDraftAttachments => Away
         /\ TenantTemplates \/ GetTenantMetadata \/ GetTenantLogo \/ GetAnalystAvatar => Away
         /\ \A kind : DeleteTenantTemplate(kind) => Away
         /\ \A kind, text : PutTenantTemplate(kind, text) => Away
         /\ \A image : PutTenantLogo(image) \/ PutAnalystAvatar(image) => Away
<1>1. /\ \A channel, actor : InsertNotice(id, channel, actor) => Away
      /\ \A orig : ResendNotice(id, orig) => Away
      /\ ListNotices(id) \/ ClaimNotices \/ OutboxBacklog => Away
      /\ \A n : GetNotice(id, n) => Away
  BY CallAway, AsideAway DEF InsertNotice, ResendNotice, ListNotices, ClaimNotices, OutboxBacklog, GetNotice, Call
<1>2. \A n, failed : FinishNotice(n, failed) => Away
  BY AsideAway DEF FinishNotice
<1>3. /\ \A f : InsertAttachment(id, f) \/ GetAttachment(id, f) => Away
      /\ \A fs : ClaimAttachments(id, fs) => Away
      /\ ListAttachmentMeta(id) \/ NoticeAttachments(id) \/ PurgeDraftAttachments => Away
  BY CallAway, AsideAway
     DEF InsertAttachment, GetAttachment, ClaimAttachments, ListAttachmentMeta, NoticeAttachments,
         PurgeDraftAttachments, Call
<1>4. TenantTemplates \/ GetTenantMetadata \/ GetTenantLogo \/ GetAnalystAvatar => Away
  BY CallAway DEF TenantTemplates, GetTenantMetadata, GetTenantLogo, GetAnalystAvatar, Call
<1>5. /\ \A kind : DeleteTenantTemplate(kind) => Away
      /\ \A kind, text : PutTenantTemplate(kind, text) => Away
      /\ \A image : PutTenantLogo(image) \/ PutAnalystAvatar(image) => Away
  BY LastAway DEF DeleteTenantTemplate, PutTenantTemplate, PutTenantLogo, PutAnalystAvatar
<1>. QED BY <1>1, <1>2, <1>3, <1>4, <1>5

\* A transaction's calls beside a reader.
Beside ==
  /\ tx.open /\ focus' = focus /\ walk' = walk
  /\ tx'.open /\ tx'.old = tx.old
  /\ focus = "listing" => Evolves(pg.disputes, pg'.disputes)

LEMMA CallsBeside ==
  ASSUME ScopeInv, focus = "listing" => TableOK(pg.disputes), NEW id \in Ids
  PROVE  /\ GetDispute(id) => Beside
         /\ \A team : InsertDispute(id, team) => Beside
         /\ \A v, st : UpdateDisputeState(id, v, st) => Beside
         /\ \A v, team : UpdateDisputeTeam(id, v, team) => Beside
<1>0. TxOK /\ now \in Int /\ "disputes" \in DOMAIN pg /\ id \in Int
  BY StoreAssumption DEF ScopeInv, KeysInv, TimesOK, PgOK, PgFields
<1>1. ASSUME Goes, tx.open PROVE tx'.open /\ tx'.old = tx.old
  BY <1>1 DEF Goes
<1>2. ASSUME NEW p, NEW m, NEW t, CallThen(p, m, t) PROVE pg' = p.db /\ focus' = focus /\ walk' = walk
  BY <1>2 DEF CallThen, Both
<1>3. ASSUME GetDispute(id) PROVE Beside
  <2>1. Goes /\ pg' = pg /\ tx.open
    BY <1>0, <1>3, GetDisputeGoes DEF GetDispute
  <2>2. focus' = focus /\ walk' = walk
    BY <1>2, <1>3 DEF GetDispute
  <2>. QED BY <1>1, <2>1, <2>2, SameEvolves DEF Beside
<1>4. ASSUME NEW team, InsertDispute(id, team) PROVE Beside
  <2>1. PICK d : d = [id |-> id, tenant |-> tx.s.tenant, team |-> team, state |-> "INITIATED", version |-> 1,
                      account |-> tx.s.tenant, opened |-> now]
    OBVIOUS
  <2>2. PICK m, t : CallThen(Pg!InsertDispute(pg, tx.s, d), m, t)
    BY <1>4, <2>1 DEF InsertDispute
  <2>3. {"id", "opened", "tenant"} \subseteq DOMAIN d /\ d.id \in Int /\ d.opened \in Int
    BY <1>0, <2>1
  <2>4. pg' = Pg!InsertDispute(pg, tx.s, d).db /\ focus' = focus /\ walk' = walk
    BY <1>2, <2>2
  <2>5. Goes /\ tx.open
    BY <1>0, <1>4, DisputeWrites DEF Elsewhere, InsertDispute, Calling
  <2>6. focus = "listing" => Evolves(pg.disputes, pg'.disputes)
    BY <1>0, <2>3, <2>4, InsertEvolves
  <2>. QED BY <1>1, <2>4, <2>5, <2>6 DEF Beside
<1>5. ASSUME NEW v, NEW st, UpdateDisputeState(id, v, st) PROVE Beside
  <2>1. pg' = Pg!UpdateDisputeState(pg, tx.s, id, v, st).db /\ focus' = focus /\ walk' = walk
    BY <1>2, <1>5 DEF UpdateDisputeState, Call
  <2>2. Goes /\ tx.open
    BY <1>0, <1>5, Disputes DEF Elsewhere, UpdateDisputeState, Calling
  <2>3. focus = "listing" => Evolves(pg.disputes, pg'.disputes)
    BY <1>0, <2>1, UpdateEvolves
  <2>. QED BY <1>1, <2>1, <2>2, <2>3 DEF Beside
<1>6. ASSUME NEW v, NEW team, UpdateDisputeTeam(id, v, team) PROVE Beside
  <2>1. pg' = Pg!UpdateDisputeTeam(pg, tx.s, id, v, team).db /\ focus' = focus /\ walk' = walk
    BY <1>2, <1>6 DEF UpdateDisputeTeam
  <2>2. Goes /\ tx.open
    BY <1>0, <1>6, DisputeWrites DEF Elsewhere, UpdateDisputeTeam, Calling
  <2>3. focus = "listing" => Evolves(pg.disputes, pg'.disputes)
    BY <1>0, <2>1, UpdateEvolves
  <2>. QED BY <1>1, <2>1, <2>2, <2>3 DEF Beside
<1>. QED BY <1>3, <1>4, <1>5, <1>6

LEMMA ReaderSteps ==
  ASSUME ScopeInv, focus = "listing" => TableOK(pg.disputes), [Next]_vars
  PROVE  \/ \E s \in Sessions : Begin(s)
         \/ Rollback \/ Commit \/ Tick
         \/ \E s, q : ~q.overdue /\ FirstPage(s, q)
         \/ NextPage
         \/ Beside \/ Away
         \/ UNCHANGED vars
<1>1. \A st : ~[state |-> st, overdue |-> FALSE].overdue
  OBVIOUS
<1>. QED BY <1>1, StepsAway, MoreStepsAway, CallsBeside, Zenon DEF Next

-----------------------------------------------------------------------------
(* The walk.  A dispute that has matched all along has been shown or is    *)
(* past the cursor, in the table as in the image a rollback puts back.     *)

Covered(rows, got, after, must) ==
  \A d \in rows : d.id \in must => ShownIn(got, d) \/ Ahead(after, d)

IdsOf(rows) == {d.id : d \in rows}

WalkOK(w, rows, old) ==
  /\ DOMAIN w = {"open", "s", "q", "after", "got", "must"} /\ ~w.q.overdue
  /\ GotOK(w.got, w.after)
  /\ Covered(rows, w.got, w.after, w.must)
  /\ Covered(old.disputes, w.got, w.after, w.must)
  /\ w.must \subseteq IdsOf(rows)
  /\ w.must \subseteq Matches(old, w.s, w.q)

\* What the database was when the open transaction began, or is.
Base(db, t) == IF t.open THEN t.old ELSE db

WalkInv ==
  /\ walk.open \in BOOLEAN
  /\ walk.open => focus = "listing"
  /\ focus = "listing" => TableOK(pg.disputes) /\ TableOK(Base(pg, tx).disputes)
  /\ walk.open => WalkOK(walk, pg.disputes, Base(pg, tx))

LEMMA WalkInit == Init => WalkInv
<1>. SUFFICES ASSUME Init PROVE WalkInv
  OBVIOUS
<1>1. pg.disputes = Seeds /\ ~walk.open /\ walk.open \in BOOLEAN /\ ~tx.open
  BY DEF Init, EmptyPg, NoWalk, NoTx
<1>2. TableOK(Seeds)
  BY StoreAssumption DEF TableOK
<1>3. Base(pg, tx).disputes = Seeds
  BY <1>1 DEF Base
<1>. QED BY <1>1, <1>2, <1>3 DEF WalkInv

\* The list of disputes that match is that of the table of disputes.
LEMMA MatchesTable ==
  ASSUME NEW db, NEW new, new.disputes = db.disputes, NEW s, NEW q
  PROVE  Matches(new, s, q) = Matches(db, s, q)
BY DEF Matches, Pg!Q!Scoped, Pg!Q!InTenant

LEMMA MatchesAreThere == ASSUME NEW db, NEW s, NEW q PROVE Matches(db, s, q) \subseteq IdsOf(db.disputes)
BY DEF Matches, IdsOf, Pg!Q!Scoped, Pg!Q!InTenant

LEMMA CoveredEvolves ==
  ASSUME NEW rows, NEW new, Evolves(rows, new), NEW got, NEW after, NEW must, must \subseteq IdsOf(rows),
         Covered(rows, got, after, must)
  PROVE  Covered(new, got, after, must) /\ must \subseteq IdsOf(new)
<1>1. must \subseteq IdsOf(new)
  BY DEF IdsOf, Evolves
<1>2. ASSUME NEW e \in new, e.id \in must PROVE ShownIn(got, e) \/ Ahead(after, e)
  <2>1. PICK d \in rows : d.id = e.id /\ d.opened = e.opened
    BY <1>2 DEF IdsOf, Evolves
  <2>2. ShownIn(got, d) \/ Ahead(after, d)
    BY <1>2, <2>1 DEF Covered
  <2>3. ShownIn(got, d) => ShownIn(got, e)
    BY <2>1 DEF ShownIn
  <2>4. Ahead(after, d) => Ahead(after, e)
    BY <2>1 DEF Ahead, Pg!Q!Newer
  <2>. QED BY <2>2, <2>3, <2>4
<1>. QED BY <1>1, <1>2 DEF Covered

\* One page further: what matched all along and was ahead is on the page, or ahead of it.
LEMMA PageCovers ==
  ASSUME NEW db, TableOK(db.disputes), NEW s, NEW q, NEW got, NEW after, GotOK(got, after),
         after = {} => got = <<>>, NEW must, must \subseteq Matches(db, s, q),
         after # {} => Covered(db.disputes, got, after, must),
         NEW new, NEW next, Shown(PageRows(db, s, q, after), got, new, next)
  PROVE  GotOK(new, next) /\ Covered(db.disputes, new, next, must)
<1>1. PICK S : S = PageRows(db, s, q, after)
  OBVIOUS
<1>2. S \subseteq db.disputes /\ \A d \in S : \A c \in after : Pg!Q!Newer(c, d)
  BY <1>1 DEF PageRows, Pg!Q!Scoped, Pg!Q!InTenant
<1>3. Shown(S, got, new, next)
  BY <1>1
<1>4. /\ GotOK(new, next)
      /\ \A d : ShownIn(got, d) => ShownIn(new, d)
      /\ \A d \in S : ShownIn(new, d) \/ Ahead(next, d)
  BY <1>2, <1>3, NextPageOK
<1>5. ASSUME NEW d \in db.disputes, d.id \in must PROVE ShownIn(new, d) \/ Ahead(next, d)
  <2>1. PICK e \in Pg!Q!Scoped(db, s) : q.state \in {"any", e.state} /\ e.id = d.id
    BY <1>5 DEF Matches
  <2>2. e = d
    BY <2>1 DEF TableOK, Pg!Q!Scoped, Pg!Q!InTenant
  <2>3. ShownIn(got, d) \/ \A c \in after : Pg!Q!Newer(c, d)
    BY <1>5 DEF Covered, Ahead
  <2>4. CASE \A c \in after : Pg!Q!Newer(c, d)
    <3>1. d \in S
      BY <1>1, <2>1, <2>2, <2>4 DEF PageRows
    <3>. QED BY <1>4, <3>1
  <2>. QED BY <1>4, <2>3, <2>4
<1>. QED BY <1>4, <1>5 DEF Covered

LEMMA EmptyGotOK == GotOK(<<>>, {})
<1>1. <<>> \in Seq({}) /\ DOMAIN <<>> = {}
  OBVIOUS
<1>. QED BY <1>1 DEF GotOK

LEMMA WalkNext ==
  ASSUME ScopeInv, WalkInv, [Next]_vars
  PROVE  WalkInv'
<1>0. /\ walk.open \in BOOLEAN /\ (walk.open => focus = "listing")
      /\ focus = "listing" => TableOK(pg.disputes) /\ TableOK(Base(pg, tx).disputes)
      /\ walk.open => WalkOK(walk, pg.disputes, Base(pg, tx))
  BY DEF WalkInv
<1>1. ASSUME pg' = pg, Base(pg', tx') = Base(pg, tx), focus' = focus, walk' = walk PROVE WalkInv'
  BY <1>0, <1>1 DEF WalkInv
<1>2. ASSUME NEW s \in Sessions, Begin(s) PROVE WalkInv'
  <2>1. /\ pg' = pg /\ focus' = focus /\ walk' = walk /\ ~tx.open /\ tx'.open /\ tx'.old = pg
    BY <1>2 DEF Begin
  <2>2. Base(pg', tx') = Base(pg, tx)
    BY <2>1 DEF Base
  <2>. QED BY <1>1, <2>1, <2>2
<1>3. CASE Tick
  <2>1. pg' = pg /\ focus' = focus /\ walk' = walk /\ tx' = tx
    BY <1>3 DEF Tick
  <2>. QED BY <1>1, <2>1
<1>4. CASE UNCHANGED vars
  <2>1. pg' = pg /\ focus' = focus /\ walk' = walk /\ tx' = tx
    BY <1>4 DEF vars
  <2>. QED BY <1>1, <2>1
<1>5. CASE Rollback
  <2>1. focus' = focus /\ walk' = walk /\ tx.open /\ ~tx'.open /\ pg' = [tx.old EXCEPT !.noticeId = pg.noticeId]
    BY <1>5 DEF Rollback, NoTx
  <2>2. PgOK(tx.old)
    BY <2>1 DEF ScopeInv
  <2>3. pg'.disputes = tx.old.disputes
    BY <2>1, <2>2 DEF PgOK, PgFields
  <2>4. PICK old, new : old = tx.old /\ new = pg'
    OBVIOUS
  <2>5. Base(pg, tx) = old /\ Base(pg', tx') = new /\ new.disputes = old.disputes
    BY <2>1, <2>3, <2>4 DEF Base
  <2>6. focus = "listing" => TableOK(new.disputes)
    BY <1>0, <2>5
  <2>7. ASSUME walk.open PROVE WalkOK(walk, new.disputes, new)
    <3>1. WalkOK(walk, pg.disputes, old)
      BY <1>0, <2>5, <2>7
    <3>2. Matches(new, walk.s, walk.q) = Matches(old, walk.s, walk.q)
      BY <2>5, MatchesTable
    <3>3. walk.must \subseteq IdsOf(new.disputes)
      BY <3>1, <3>2, MatchesAreThere DEF WalkOK
    <3>. QED BY <2>5, <3>1, <3>2, <3>3 DEF WalkOK
  <2>. QED BY <1>0, <2>1, <2>4, <2>5, <2>6, <2>7 DEF WalkInv
<1>6. CASE Commit
  <2>1. pg' = pg /\ focus' = focus /\ tx.open /\ ~tx'.open /\ walk' = StillMatching(pg)
    BY <1>6 DEF Commit, NoTx
  <2>2. Base(pg', tx') = pg
    BY <2>1 DEF Base
  <2>3. CASE ~walk.open
    <3>1. walk' = walk
      BY <2>1, <2>3 DEF StillMatching
    <3>. QED BY <1>0, <2>1, <2>2, <2>3, <3>1 DEF WalkInv
  <2>4. CASE walk.open
    <3>1. PICK must : must = walk.must \cap Matches(pg, walk.s, walk.q)
      OBVIOUS
    <3>2. walk' = [walk EXCEPT !.must = must]
      BY <2>1, <2>4, <3>1 DEF StillMatching
    <3>3. WalkOK(walk, pg.disputes, Base(pg, tx))
      BY <1>0, <2>4
    <3>4. PICK w : w = walk'
      OBVIOUS
    <3>5. /\ DOMAIN w = {"open", "s", "q", "after", "got", "must"} /\ w.open = walk.open /\ w.s = walk.s /\ w.q = walk.q
          /\ w.after = walk.after /\ w.got = walk.got /\ w.must = must
      BY <3>2, <3>3, <3>4 DEF WalkOK
    <3>6. Covered(pg.disputes, w.got, w.after, w.must)
      BY <3>1, <3>3, <3>5 DEF WalkOK, Covered
    <3>7. WalkOK(w, pg.disputes, pg)
      BY <3>1, <3>3, <3>5, <3>6 DEF WalkOK
    <3>. QED BY <1>0, <2>1, <2>2, <2>4, <3>4, <3>5, <3>7 DEF WalkInv
  <2>. QED BY <1>0, <2>3, <2>4
<1>7. CASE Beside
  <2>1. /\ tx.open /\ focus' = focus /\ walk' = walk /\ tx'.open /\ tx'.old = tx.old
        /\ focus = "listing" => Evolves(pg.disputes, pg'.disputes)
    BY <1>7 DEF Beside
  <2>2. Base(pg', tx') = Base(pg, tx)
    BY <2>1 DEF Base
  <2>3. focus = "listing" => TableOK(pg'.disputes)
    BY <2>1 DEF Evolves
  <2>4. ASSUME walk.open PROVE WalkOK(walk, pg'.disputes, Base(pg, tx))
    <3>1. WalkOK(walk, pg.disputes, Base(pg, tx)) /\ Evolves(pg.disputes, pg'.disputes)
      BY <1>0, <2>1, <2>4
    <3>2. /\ Covered(pg'.disputes, walk.got, walk.after, walk.must)
          /\ walk.must \subseteq IdsOf(pg'.disputes)
      BY <3>1, CoveredEvolves DEF WalkOK
    <3>. QED BY <3>1, <3>2 DEF WalkOK
  <2>. QED BY <1>0, <2>1, <2>2, <2>3, <2>4 DEF WalkInv
<1>8. CASE Away
  <2>1. focus' # "listing" /\ ~walk'.open /\ walk'.open \in BOOLEAN
    BY <1>0, <1>8 DEF Away
  <2>. QED BY <2>1 DEF WalkInv
<1>9. ASSUME NEW s, NEW q, ~q.overdue, NEW got, NEW after, NEW must, GotOK(got, after),
             after = {} => got = <<>>, must \subseteq Matches(pg, s, q),
             after # {} => Covered(pg.disputes, got, after, must),
             focus = "listing", ~tx.open, Show(s, q, after, got, must)
      PROVE  WalkInv'
  <2>1. TableOK(pg.disputes)
    BY <1>0, <1>9
  <2>2. /\ pg' = pg /\ tx' = tx /\ focus' = focus
        /\ DOMAIN walk' = {"open", "s", "q", "after", "got", "must"}
        /\ walk'.open = TRUE /\ walk'.s = s /\ walk'.q = q /\ walk'.must = must
        /\ Shown(PageRows(pg, s, q, after), got, walk'.got, walk'.after)
    BY <1>9, <2>1, ShowShows
  <2>3. PICK w : w = walk'
    OBVIOUS
  <2>4. PICK new, next : new = w.got /\ next = w.after
    OBVIOUS
  <2>5. Shown(PageRows(pg, s, q, after), got, new, next)
    BY <2>2, <2>3, <2>4
  <2>6. GotOK(new, next) /\ Covered(pg.disputes, new, next, must)
    BY <1>9, <2>1, <2>5, PageCovers
  <2>7. must \subseteq IdsOf(pg.disputes)
    BY <1>9, MatchesAreThere
  <2>8. WalkOK(w, pg.disputes, pg)
    BY <1>9, <2>2, <2>3, <2>4, <2>6, <2>7 DEF WalkOK
  <2>9. Base(pg', tx') = pg
    BY <1>9, <2>2 DEF Base
  <2>. QED BY <1>9, <2>1, <2>2, <2>3, <2>8, <2>9 DEF WalkInv
<1>10. ASSUME NEW s, NEW q, ~q.overdue, FirstPage(s, q) PROVE WalkInv'
  <2>1. focus = "listing" /\ ~tx.open /\ Show(s, q, {}, <<>>, Matches(pg, s, q))
    BY <1>10 DEF FirstPage
  <2>. QED BY <1>9, <1>10, <2>1, EmptyGotOK
<1>11. CASE NextPage
  <2>1. focus = "listing" /\ ~tx.open /\ walk.open /\ walk.after # {} /\ Show(walk.s, walk.q, walk.after, walk.got, walk.must)
    BY <1>11 DEF NextPage
  <2>2. WalkOK(walk, pg.disputes, pg)
    BY <1>0, <2>1 DEF Base
  <2>. QED BY <1>9, <2>1, <2>2 DEF WalkOK
<1>. QED BY <1>0, <1>2, <1>3, <1>4, <1>5, <1>6, <1>7, <1>8, <1>10, <1>11, ReaderSteps

\* Paging through a list while others open, close and move disputes, for any table, any page
\* size and any number of writers between two pages: nothing is shown twice or out of order,
\* and what matched from the first page to the last is shown.  The cursor of a page is the
\* last row shown, the page after it what the keyset comparison puts past it (ListDisputes).
THEOREM WalksMissNothing == Spec => []WalkMissesNothing
<1>1. ScopeInv /\ WalkInv => WalkMissesNothing
  <2>. SUFFICES ASSUME WalkInv, walk.open
               PROVE  /\ \A i, j \in DOMAIN walk.got : i < j => Fake!Newer(walk.got[i], walk.got[j])
                      /\ walk.after = {} => walk.must \subseteq {d.id : d \in Fake!Elements(walk.got)}
    BY DEF WalkMissesNothing
  <2>1. WalkOK(walk, pg.disputes, Base(pg, tx))
    BY DEF WalkInv
  <2>2. \A i, j \in DOMAIN walk.got : i < j => Fake!Newer(walk.got[i], walk.got[j])
    BY <2>1 DEF WalkOK, GotOK, Pg!Q!Newer, Fake!Newer
  <2>3. ASSUME walk.after = {}, NEW id \in walk.must PROVE id \in {d.id : d \in Fake!Elements(walk.got)}
    <3>1. PICK d \in pg.disputes : d.id = id
      BY <2>1, <2>3 DEF WalkOK, IdsOf
    <3>2. ShownIn(walk.got, d)
      BY <2>1, <2>3, <3>1 DEF WalkOK, Covered, Ahead
    <3>. QED BY <3>1, <3>2 DEF ShownIn, Fake!Elements
  <2>. QED BY <2>2, <2>3
<1>2. ScopeInv /\ WalkInv /\ [Next]_vars => ScopeInv' /\ WalkInv'
  BY ScopeNext, WalkNext
<1>. QED BY <1>1, <1>2, ScopeInit, WalkInit, PTL DEF Spec

-----------------------------------------------------------------------------
(* The fake.  What it holds, table by table, is what the database holds;   *)
(* so it answers alike, and a rollback leaves both alike.                  *)

MemFields ==
  {"transactions", "accounts", "disputes", "questions", "files", "idempotent", "logos", "logoAt", "avatars",
   "calendars", "cores", "names", "events", "deadlines", "ledger", "risk", "templates", "notices", "nextNotice"}

\* A map of records by their key.
DisputesAlike(rows, f) ==
  /\ TableOK(rows)
  /\ \A d \in rows : /\ DOMAIN d = {"id", "tenant", "team", "state", "version", "account", "opened"}
                     /\ d.id \in Ids /\ d.id \in DOMAIN f /\ f[d.id] = d
  /\ \A i \in DOMAIN f : f[i] \in rows /\ f[i].id = i

QuestionsAlike(rows, f) ==
  /\ \A r \in rows : DOMAIN r = {"dispute", "asked", "answers"} /\ r.dispute \in DOMAIN f /\ f[r.dispute] = r
  /\ \A i \in DOMAIN f : f[i] \in rows /\ f[i].dispute = i

FilesAlike(rows, f) ==
  /\ IsFiniteSet(rows)
  /\ \A r \in rows : /\ DOMAIN r = {"id", "dispute", "notice", "at"}
                     /\ r.id \in DOMAIN f /\ f[r.id] = r
  /\ \A i \in DOMAIN f : f[i] \in rows /\ f[i].id = i

KeyOf(r) == <<r.tenant, r.scope, r.key>>
KeysAlike(rows, f) ==
  /\ IsFiniteSet(rows)
  /\ \A r \in rows : KeyOf(r) \in DOMAIN f /\ f[KeyOf(r)] = [hash |-> r.hash, at |-> r.at]
  /\ \A r, o \in rows : KeyOf(r) = KeyOf(o) => r = o
  /\ \A k \in DOMAIN f : \E r \in rows : KeyOf(r) = k

\* A map of slices, by dispute.
EventsAlike(rows, f) ==
  /\ DOMAIN f = Ids
  /\ \A r \in rows : /\ r = [dispute |-> r.dispute, seq |-> r.seq, to |-> r.to] /\ r.dispute \in Ids
                     /\ r.seq \in DOMAIN f[r.dispute] /\ f[r.dispute][r.seq] = Pg!EventOf(r)
  /\ \A id \in Ids :
       /\ \E T : f[id] \in Seq(T)
       /\ \A k \in DOMAIN f[id] : /\ [dispute |-> id, seq |-> k, to |-> f[id][k].to] \in rows
                                  /\ f[id][k] = [seq |-> k, to |-> f[id][k].to]

Belongs(disputes, id) == \E d \in disputes : d.id = id

DeadlinesAlike(disputes, rows, f) ==
  /\ DOMAIN f = Ids /\ IsFiniteSet(rows)
  /\ \A r \in rows : /\ DOMAIN r = {"dispute", "kind", "cycle", "due", "end"} /\ r.due \in Int
                     /\ r.dispute \in Ids /\ Belongs(disputes, r.dispute)
                     /\ \E k \in DOMAIN f[r.dispute] : f[r.dispute][k] = Pg!deadlineOf(r)
  /\ \A r, o \in rows : r.dispute = o.dispute /\ r.kind = o.kind /\ r.cycle = o.cycle => r = o
  /\ \A id \in Ids :
       /\ \E T : f[id] \in Seq(T)
       /\ \A k \in DOMAIN f[id] : \E r \in rows : r.dispute = id /\ f[id][k] = Pg!deadlineOf(r)
       /\ \A j, k \in DOMAIN f[id] : f[id][j].kind = f[id][k].kind /\ f[id][j].cycle = f[id][k].cycle => j = k

\* A numbered table: the slice of a dispute is its rows by their numbers.
PlacesOf(rows, id) == {i \in DOMAIN rows : rows[i].dispute = id}
IsTable(rows) == \E T : rows \in Seq(T)
Slice(rows, id) ==
  [k \in 1 .. Cardinality(PlacesOf(rows, id)) |-> rows[Pg!Q!Ascending(PlacesOf(rows, id))[k]]]

LedgerAlike(disputes, rows, f) ==
  /\ DOMAIN f = Ids /\ IsTable(rows)
  /\ \A i \in DOMAIN rows : /\ rows[i].dispute \in Ids /\ rows[i].reference = <<rows[i].dispute, rows[i].seq, rows[i].kind>>
                            /\ \E d \in disputes : d.id = rows[i].dispute /\ d.tenant = rows[i].tenant
  /\ \A id \in Ids : f[id] = [k \in DOMAIN Slice(rows, id) |-> Pg!EntryOf(Slice(rows, id)[k])]

Assessed(r) == [seq |-> r.seq, tier |-> r.tier]
RiskAlike(rows, f) ==
  /\ DOMAIN f = Ids /\ IsTable(rows)
  /\ \A id \in Ids : f[id] = [k \in DOMAIN Slice(rows, id) |-> Assessed(Slice(rows, id)[k])]

NoticeFields == {"id", "tenant", "dispute", "seq", "channel", "actor", "sent", "resend_of"}
NoticesAlike(rows, list) ==
  /\ IsTable(rows) /\ \A i \in DOMAIN rows : DOMAIN rows[i] = NoticeFields /\ rows[i].sent \in BOOLEAN
  /\ list = [i \in DOMAIN rows |-> Pg!noticeOf(rows[i])]

\* What WithTx snapshots.
Restored(db, m) ==
  /\ DisputesAlike(db.disputes, m.disputes)
  /\ EventsAlike(db.events, m.events)
  /\ KeysAlike(db.keys, m.idempotent)
  /\ DeadlinesAlike(db.disputes, db.deadlines, m.deadlines)
  /\ LedgerAlike(db.disputes, db.ledger, m.ledger)
  /\ QuestionsAlike(db.questionnaires, m.questions)
  /\ NoticesAlike(db.notices, m.notices)
  /\ RiskAlike(db.risk, m.risk)
  /\ FilesAlike(db.files, m.files)

\* And what it leaves.
TemplatesAlike(rows, f) ==
  /\ DOMAIN f = Tenants
  /\ \A r \in rows : /\ r = [tenant |-> r.tenant, kind |-> r.kind, text |-> r.text] /\ r.tenant \in Tenants
                     /\ r.kind \in DOMAIN f[r.tenant] /\ f[r.tenant][r.kind] = r.text
  /\ \A t \in Tenants : \A k \in DOMAIN f[t] : [tenant |-> t, kind |-> k, text |-> f[t][k]] \in rows

LogosAlike(rows, f, at) ==
  /\ \A r \in rows : /\ r = [tenant |-> r.tenant, image |-> r.image, at |-> r.at]
                     /\ r.tenant \in DOMAIN f /\ f[r.tenant] = r.image
                     /\ r.tenant \in DOMAIN at /\ at[r.tenant] = r.at
  /\ \A t \in DOMAIN f : [tenant |-> t, image |-> f[t], at |-> at[t]] \in rows

AvatarsAlike(rows, f) ==
  /\ \A r \in rows : /\ r = [tenant |-> r.tenant, subject |-> r.subject, image |-> r.image]
                     /\ <<r.tenant, r.subject>> \in DOMAIN f /\ f[<<r.tenant, r.subject>>] = r.image
  /\ \A k \in DOMAIN f : \E r \in rows : k = <<r.tenant, r.subject>>

SettingsAlike(db, m) ==
  /\ db.transactions = EmptyPg.transactions /\ m.transactions = [t \in Tenants |-> [id |-> t, tenant |-> t, account |-> t]]
  /\ db.accounts = EmptyPg.accounts /\ m.accounts = [t \in Tenants |-> [id |-> t, tenant |-> t]]
  /\ db.settings = EmptyPg.settings /\ m.calendars = <<>> /\ m.cores = <<>>
  /\ m.names = [t \in Tenants |-> t]

Own(db, m) ==
  /\ TemplatesAlike(db.templates, m.templates)
  /\ LogosAlike(db.logos, m.logos, m.logoAt)
  /\ AvatarsAlike(db.avatars, m.avatars)
  /\ SettingsAlike(db, m)

Alike(db, m) ==
  PgOK(db) /\ DOMAIN m = MemFields /\ Restored(db, m) /\ Own(db, m) /\ db.noticeId = m.nextNotice

-----------------------------------------------------------------------------
(* Frames *)

\* A call changed nothing a transaction cannot put back.
OwnSame(m, new) ==
  /\ new.transactions = m.transactions /\ new.accounts = m.accounts /\ new.templates = m.templates
  /\ new.logos = m.logos /\ new.logoAt = m.logoAt /\ new.avatars = m.avatars
  /\ new.calendars = m.calendars /\ new.cores = m.cores /\ new.names = m.names

\* Both answer alike and hold alike.
Said(p, q) == p.err = q.err /\ (p.err = "ok" => p.val = q.val)
Holds(db, m, nd, nm) ==
  Alike(nd, nm) /\ OwnSame(m, nm) /\ \A s, id : Pg!Q!Sees(db, s, id) => Pg!Q!Sees(nd, s, id)
Same(db, m, p, q) == Said(p, q) /\ Holds(db, m, p.db, q.db)

LEMMA ReadSame ==
  ASSUME NEW db, NEW m, Alike(db, m), NEW p, NEW q, p.db = db, q.db = m, Said(p, q)
  PROVE  Same(db, m, p, q)
BY DEF Same, Holds, OwnSame

LEMMA SeesTable ==
  ASSUME NEW db, NEW new, new.disputes = db.disputes, NEW s, NEW id
  PROVE  Pg!Q!Sees(new, s, id) <=> Pg!Q!Sees(db, s, id)
BY DEF Pg!Q!Sees, Pg!Q!Scoped, Pg!Q!InTenant

LEMMA Sizes == \A S : Pg!Q!Cardinality(S) = Cardinality(S) /\ Fake!Cardinality(S) = Cardinality(S)
                      /\ Pg!Cardinality(S) = Cardinality(S)
BY DEF Pg!Q!Cardinality, Fake!Cardinality, Pg!Cardinality, Cardinality

LEMMA EventsWrite ==
  ASSUME NEW db, NEW m, Alike(db, m), NEW X, NEW Y, EventsAlike(X, Y), PgOK([db EXCEPT !.events = X])
  PROVE  Holds(db, m, [db EXCEPT !.events = X], [m EXCEPT !.events = Y])
<1>1. PICK nd, nm : nd = [db EXCEPT !.events = X] /\ nm = [m EXCEPT !.events = Y]
  OBVIOUS
<1>2. DOMAIN db = PgFields /\ DOMAIN m = MemFields /\ PgOK(nd)
  BY <1>1 DEF Alike, PgOK
<1>3. nd.events = X /\ \A f \in PgFields \ {"events"} : nd[f] = db[f]
  BY <1>1, <1>2 DEF PgFields, DisputeTables, NumberedTables, TenantTables
<1>4. nm.events = Y /\ DOMAIN nm = MemFields /\ \A f \in MemFields \ {"events"} : nm[f] = m[f]
  BY <1>1, <1>2 DEF MemFields
<1>5. Restored(nd, nm)
  BY <1>3, <1>4 DEF Alike, Restored, PgFields, DisputeTables, NumberedTables, TenantTables, MemFields
<1>6. Own(nd, nm) /\ nd.noticeId = nm.nextNotice /\ OwnSame(m, nm) /\ nd.disputes = db.disputes
  BY <1>3, <1>4 DEF Alike, Own, SettingsAlike, OwnSame, PgFields, DisputeTables, NumberedTables, TenantTables, MemFields
<1>7. Holds(db, m, nd, nm)
  BY <1>2, <1>4, <1>5, <1>6, SeesTable DEF Alike, Holds
<1>. QED  BY <1>1, <1>7

LEMMA KeysWrite ==
  ASSUME NEW db, NEW m, Alike(db, m), NEW X, NEW Y, KeysAlike(X, Y), PgOK([db EXCEPT !.keys = X])
  PROVE  Holds(db, m, [db EXCEPT !.keys = X], [m EXCEPT !.idempotent = Y])
<1>1. PICK nd, nm : nd = [db EXCEPT !.keys = X] /\ nm = [m EXCEPT !.idempotent = Y]
  OBVIOUS
<1>2. DOMAIN db = PgFields /\ DOMAIN m = MemFields /\ PgOK(nd)
  BY <1>1 DEF Alike, PgOK
<1>3. nd.keys = X /\ \A f \in PgFields \ {"keys"} : nd[f] = db[f]
  BY <1>1, <1>2 DEF PgFields, DisputeTables, NumberedTables, TenantTables
<1>4. nm.idempotent = Y /\ DOMAIN nm = MemFields /\ \A f \in MemFields \ {"idempotent"} : nm[f] = m[f]
  BY <1>1, <1>2 DEF MemFields
<1>5. Restored(nd, nm)
  BY <1>3, <1>4 DEF Alike, Restored, PgFields, DisputeTables, NumberedTables, TenantTables, MemFields
<1>6. Own(nd, nm) /\ nd.noticeId = nm.nextNotice /\ OwnSame(m, nm) /\ nd.disputes = db.disputes
  BY <1>3, <1>4 DEF Alike, Own, SettingsAlike, OwnSame, PgFields, DisputeTables, NumberedTables, TenantTables, MemFields
<1>7. Holds(db, m, nd, nm)
  BY <1>2, <1>4, <1>5, <1>6, SeesTable DEF Alike, Holds
<1>. QED  BY <1>1, <1>7

LEMMA DeadlinesWrite ==
  ASSUME NEW db, NEW m, Alike(db, m), NEW X, NEW Y, DeadlinesAlike(db.disputes, X, Y), PgOK([db EXCEPT !.deadlines = X])
  PROVE  Holds(db, m, [db EXCEPT !.deadlines = X], [m EXCEPT !.deadlines = Y])
<1>1. PICK nd, nm : nd = [db EXCEPT !.deadlines = X] /\ nm = [m EXCEPT !.deadlines = Y]
  OBVIOUS
<1>2. DOMAIN db = PgFields /\ DOMAIN m = MemFields /\ PgOK(nd)
  BY <1>1 DEF Alike, PgOK
<1>3. nd.deadlines = X /\ \A f \in PgFields \ {"deadlines"} : nd[f] = db[f]
  BY <1>1, <1>2 DEF PgFields, DisputeTables, NumberedTables, TenantTables
<1>4. nm.deadlines = Y /\ DOMAIN nm = MemFields /\ \A f \in MemFields \ {"deadlines"} : nm[f] = m[f]
  BY <1>1, <1>2 DEF MemFields
<1>5. Restored(nd, nm)
  BY <1>3, <1>4 DEF Alike, Restored, PgFields, DisputeTables, NumberedTables, TenantTables, MemFields
<1>6. Own(nd, nm) /\ nd.noticeId = nm.nextNotice /\ OwnSame(m, nm) /\ nd.disputes = db.disputes
  BY <1>3, <1>4 DEF Alike, Own, SettingsAlike, OwnSame, PgFields, DisputeTables, NumberedTables, TenantTables, MemFields
<1>7. Holds(db, m, nd, nm)
  BY <1>2, <1>4, <1>5, <1>6, SeesTable DEF Alike, Holds
<1>. QED  BY <1>1, <1>7

LEMMA LedgerWrite ==
  ASSUME NEW db, NEW m, Alike(db, m), NEW X, NEW Y, LedgerAlike(db.disputes, X, Y), PgOK([db EXCEPT !.ledger = X])
  PROVE  Holds(db, m, [db EXCEPT !.ledger = X], [m EXCEPT !.ledger = Y])
<1>1. PICK nd, nm : nd = [db EXCEPT !.ledger = X] /\ nm = [m EXCEPT !.ledger = Y]
  OBVIOUS
<1>2. DOMAIN db = PgFields /\ DOMAIN m = MemFields /\ PgOK(nd)
  BY <1>1 DEF Alike, PgOK
<1>3. nd.ledger = X /\ \A f \in PgFields \ {"ledger"} : nd[f] = db[f]
  BY <1>1, <1>2 DEF PgFields, DisputeTables, NumberedTables, TenantTables
<1>4. nm.ledger = Y /\ DOMAIN nm = MemFields /\ \A f \in MemFields \ {"ledger"} : nm[f] = m[f]
  BY <1>1, <1>2 DEF MemFields
<1>5. Restored(nd, nm)
  BY <1>3, <1>4 DEF Alike, Restored, PgFields, DisputeTables, NumberedTables, TenantTables, MemFields
<1>6. Own(nd, nm) /\ nd.noticeId = nm.nextNotice /\ OwnSame(m, nm) /\ nd.disputes = db.disputes
  BY <1>3, <1>4 DEF Alike, Own, SettingsAlike, OwnSame, PgFields, DisputeTables, NumberedTables, TenantTables, MemFields
<1>7. Holds(db, m, nd, nm)
  BY <1>2, <1>4, <1>5, <1>6, SeesTable DEF Alike, Holds
<1>. QED  BY <1>1, <1>7

LEMMA QuestionsWrite ==
  ASSUME NEW db, NEW m, Alike(db, m), NEW X, NEW Y, QuestionsAlike(X, Y), PgOK([db EXCEPT !.questionnaires = X])
  PROVE  Holds(db, m, [db EXCEPT !.questionnaires = X], [m EXCEPT !.questions = Y])
<1>1. PICK nd, nm : nd = [db EXCEPT !.questionnaires = X] /\ nm = [m EXCEPT !.questions = Y]
  OBVIOUS
<1>2. DOMAIN db = PgFields /\ DOMAIN m = MemFields /\ PgOK(nd)
  BY <1>1 DEF Alike, PgOK
<1>3. nd.questionnaires = X /\ \A f \in PgFields \ {"questionnaires"} : nd[f] = db[f]
  BY <1>1, <1>2 DEF PgFields, DisputeTables, NumberedTables, TenantTables
<1>4. nm.questions = Y /\ DOMAIN nm = MemFields /\ \A f \in MemFields \ {"questions"} : nm[f] = m[f]
  BY <1>1, <1>2 DEF MemFields
<1>5. Restored(nd, nm)
  BY <1>3, <1>4 DEF Alike, Restored, PgFields, DisputeTables, NumberedTables, TenantTables, MemFields
<1>6. Own(nd, nm) /\ nd.noticeId = nm.nextNotice /\ OwnSame(m, nm) /\ nd.disputes = db.disputes
  BY <1>3, <1>4 DEF Alike, Own, SettingsAlike, OwnSame, PgFields, DisputeTables, NumberedTables, TenantTables, MemFields
<1>7. Holds(db, m, nd, nm)
  BY <1>2, <1>4, <1>5, <1>6, SeesTable DEF Alike, Holds
<1>. QED  BY <1>1, <1>7

LEMMA NoticesWrite ==
  ASSUME NEW db, NEW m, Alike(db, m), NEW X, NEW Y, NoticesAlike(X, Y), PgOK([db EXCEPT !.notices = X])
  PROVE  Holds(db, m, [db EXCEPT !.notices = X], [m EXCEPT !.notices = Y])
<1>1. PICK nd, nm : nd = [db EXCEPT !.notices = X] /\ nm = [m EXCEPT !.notices = Y]
  OBVIOUS
<1>2. DOMAIN db = PgFields /\ DOMAIN m = MemFields /\ PgOK(nd)
  BY <1>1 DEF Alike, PgOK
<1>3. nd.notices = X /\ \A f \in PgFields \ {"notices"} : nd[f] = db[f]
  BY <1>1, <1>2 DEF PgFields, DisputeTables, NumberedTables, TenantTables
<1>4. nm.notices = Y /\ DOMAIN nm = MemFields /\ \A f \in MemFields \ {"notices"} : nm[f] = m[f]
  BY <1>1, <1>2 DEF MemFields
<1>5. Restored(nd, nm)
  BY <1>3, <1>4 DEF Alike, Restored, PgFields, DisputeTables, NumberedTables, TenantTables, MemFields
<1>6. Own(nd, nm) /\ nd.noticeId = nm.nextNotice /\ OwnSame(m, nm) /\ nd.disputes = db.disputes
  BY <1>3, <1>4 DEF Alike, Own, SettingsAlike, OwnSame, PgFields, DisputeTables, NumberedTables, TenantTables, MemFields
<1>7. Holds(db, m, nd, nm)
  BY <1>2, <1>4, <1>5, <1>6, SeesTable DEF Alike, Holds
<1>. QED  BY <1>1, <1>7

LEMMA RiskWrite ==
  ASSUME NEW db, NEW m, Alike(db, m), NEW X, NEW Y, RiskAlike(X, Y), PgOK([db EXCEPT !.risk = X])
  PROVE  Holds(db, m, [db EXCEPT !.risk = X], [m EXCEPT !.risk = Y])
<1>1. PICK nd, nm : nd = [db EXCEPT !.risk = X] /\ nm = [m EXCEPT !.risk = Y]
  OBVIOUS
<1>2. DOMAIN db = PgFields /\ DOMAIN m = MemFields /\ PgOK(nd)
  BY <1>1 DEF Alike, PgOK
<1>3. nd.risk = X /\ \A f \in PgFields \ {"risk"} : nd[f] = db[f]
  BY <1>1, <1>2 DEF PgFields, DisputeTables, NumberedTables, TenantTables
<1>4. nm.risk = Y /\ DOMAIN nm = MemFields /\ \A f \in MemFields \ {"risk"} : nm[f] = m[f]
  BY <1>1, <1>2 DEF MemFields
<1>5. Restored(nd, nm)
  BY <1>3, <1>4 DEF Alike, Restored, PgFields, DisputeTables, NumberedTables, TenantTables, MemFields
<1>6. Own(nd, nm) /\ nd.noticeId = nm.nextNotice /\ OwnSame(m, nm) /\ nd.disputes = db.disputes
  BY <1>3, <1>4 DEF Alike, Own, SettingsAlike, OwnSame, PgFields, DisputeTables, NumberedTables, TenantTables, MemFields
<1>7. Holds(db, m, nd, nm)
  BY <1>2, <1>4, <1>5, <1>6, SeesTable DEF Alike, Holds
<1>. QED  BY <1>1, <1>7

LEMMA FilesWrite ==
  ASSUME NEW db, NEW m, Alike(db, m), NEW X, NEW Y, FilesAlike(X, Y), PgOK([db EXCEPT !.files = X])
  PROVE  Holds(db, m, [db EXCEPT !.files = X], [m EXCEPT !.files = Y])
<1>1. PICK nd, nm : nd = [db EXCEPT !.files = X] /\ nm = [m EXCEPT !.files = Y]
  OBVIOUS
<1>2. DOMAIN db = PgFields /\ DOMAIN m = MemFields /\ PgOK(nd)
  BY <1>1 DEF Alike, PgOK
<1>3. nd.files = X /\ \A f \in PgFields \ {"files"} : nd[f] = db[f]
  BY <1>1, <1>2 DEF PgFields, DisputeTables, NumberedTables, TenantTables
<1>4. nm.files = Y /\ DOMAIN nm = MemFields /\ \A f \in MemFields \ {"files"} : nm[f] = m[f]
  BY <1>1, <1>2 DEF MemFields
<1>5. Restored(nd, nm)
  BY <1>3, <1>4 DEF Alike, Restored, PgFields, DisputeTables, NumberedTables, TenantTables, MemFields
<1>6. Own(nd, nm) /\ nd.noticeId = nm.nextNotice /\ OwnSame(m, nm) /\ nd.disputes = db.disputes
  BY <1>3, <1>4 DEF Alike, Own, SettingsAlike, OwnSame, PgFields, DisputeTables, NumberedTables, TenantTables, MemFields
<1>7. Holds(db, m, nd, nm)
  BY <1>2, <1>4, <1>5, <1>6, SeesTable DEF Alike, Holds
<1>. QED  BY <1>1, <1>7

-----------------------------------------------------------------------------
(* Disputes *)

LEMMA GetDisputeSame ==
  ASSUME NEW db, NEW m, Alike(db, m), NEW s, NEW id
  PROVE  /\ Same(db, m, Pg!GetDispute(db, s, id), Fake!GetDispute(m, s, id))
         /\ Pg!GetDispute(db, s, id).err = "ok" <=> Pg!Q!Sees(db, s, id)
         /\ Pg!GetDispute(db, s, id).err \in {"ok", "notfound"}
<1>1. DisputesAlike(db.disputes, m.disputes)
  BY DEF Alike, Restored
<1>2. PICK S : S = Pg!Q!GetDispute(db, s, id)
  OBVIOUS
<1>3. \A d : d \in S <=> d \in db.disputes /\ d.tenant = s.tenant /\ Pg!Q!in_team(s, d.team) /\ d.id = id
  BY <1>2 DEF Pg!Q!GetDispute, Pg!Q!Scoped, Pg!Q!InTenant
<1>4. Pg!Q!Sees(db, s, id) <=> S # {}
  BY <1>2 DEF Pg!Q!Sees, Pg!Q!GetDispute
<1>5. PICK p, q : p = Pg!GetDispute(db, s, id) /\ q = Fake!GetDispute(m, s, id)
  OBVIOUS
<1>6. p = IF S = {} THEN Pg!Failure(db, "notfound") ELSE Pg!Answer(db, CHOOSE r \in S : TRUE)
  BY <1>2, <1>5 DEF Pg!GetDispute, Pg!One
<1>7. CASE S = {}
  <2>1. p.err = "notfound" /\ p.db = db
    BY <1>6, <1>7 DEF Pg!Failure
  <2>2. q.err = "notfound" /\ q.db = m
    <3>1. ~(id \in DOMAIN m.disputes /\ m.disputes[id].tenant = s.tenant /\ Fake!visible(s, m.disputes[id]))
      BY <1>1, <1>3, <1>7 DEF DisputesAlike, Fake!visible, Pg!Q!in_team
    <3>. QED BY <1>5, <3>1 DEF Fake!GetDispute, Fake!Failure
  <2>3. Same(db, m, p, q)
    BY <2>1, <2>2, ReadSame DEF Said
  <2>. QED BY <1>4, <1>5, <1>7, <2>1, <2>3
<1>8. CASE S # {}
  <2>1. PICK d : d \in S
    BY <1>8
  <2>2. \A e \in S : e = d
    BY <1>1, <1>3, <2>1 DEF DisputesAlike, TableOK
  <2>3. (CHOOSE r \in S : TRUE) = d
    BY <2>1, <2>2
  <2>4. p.err = "ok" /\ p.db = db /\ p.val = d
    BY <1>6, <1>8, <2>3 DEF Pg!Answer
  <2>5. id \in DOMAIN m.disputes /\ m.disputes[id] = d /\ m.disputes[id].tenant = s.tenant /\ Fake!visible(s, m.disputes[id])
    BY <1>1, <1>3, <2>1 DEF DisputesAlike, Fake!visible, Pg!Q!in_team
  <2>6. q.err = "ok" /\ q.db = m /\ q.val = d
    BY <1>5, <2>5 DEF Fake!GetDispute, Fake!Answer
  <2>7. Same(db, m, p, q)
    BY <2>4, <2>6, ReadSame DEF Said
  <2>. QED BY <1>4, <1>5, <1>8, <2>4, <2>7
<1>. QED BY <1>7, <1>8

LEMMA WithinAnswers ==
  ASSUME NEW db, NEW m, Alike(db, m), NEW s, NEW id, Pg!Q!Sees(db, s, id), NEW a
  PROVE  Fake!Within(m, s, id, a) = a
<1>1. Fake!GetDispute(m, s, id).err = "ok"
  BY GetDisputeSame DEF Same, Said
<1>. QED BY <1>1 DEF Fake!Within

\* A table of disputes that evolves, in both.
LEMMA DisputesWrite ==
  ASSUME NEW db, NEW m, Alike(db, m), NEW X, NEW Y, DisputesAlike(X, Y), PgOK([db EXCEPT !.disputes = X]),
         \A d \in db.disputes : \E e \in X : e.id = d.id /\ e.tenant = d.tenant
  PROVE  /\ Alike([db EXCEPT !.disputes = X], [m EXCEPT !.disputes = Y])
         /\ OwnSame(m, [m EXCEPT !.disputes = Y])
<1>1. PICK nd, nm : nd = [db EXCEPT !.disputes = X] /\ nm = [m EXCEPT !.disputes = Y]
  OBVIOUS
<1>2. DOMAIN db = PgFields /\ DOMAIN m = MemFields /\ PgOK(nd)
  BY <1>1 DEF Alike, PgOK
<1>3. nd.disputes = X /\ \A f \in PgFields \ {"disputes"} : nd[f] = db[f]
  BY <1>1, <1>2 DEF PgFields, DisputeTables, NumberedTables, TenantTables
<1>4. nm.disputes = Y /\ DOMAIN nm = MemFields /\ \A f \in MemFields \ {"disputes"} : nm[f] = m[f]
  BY <1>1, <1>2 DEF MemFields
<1>5. DeadlinesAlike(X, db.deadlines, m.deadlines)
  <2>1. \A id : Belongs(db.disputes, id) => Belongs(X, id)
    BY DEF Belongs
  <2>2. DeadlinesAlike(db.disputes, db.deadlines, m.deadlines)
    BY DEF Alike, Restored
  <2>3. \A r \in db.deadlines : Belongs(X, r.dispute)
    BY <2>1, <2>2 DEF DeadlinesAlike
  <2>. QED BY <2>2, <2>3 DEF DeadlinesAlike
<1>6. LedgerAlike(X, db.ledger, m.ledger)
  <2>1. LedgerAlike(db.disputes, db.ledger, m.ledger)
    BY DEF Alike, Restored
  <2>2. \A i \in DOMAIN db.ledger : \E e \in X : e.id = db.ledger[i].dispute /\ e.tenant = db.ledger[i].tenant
    <3>. SUFFICES ASSUME NEW i \in DOMAIN db.ledger
                 PROVE \E e \in X : e.id = db.ledger[i].dispute /\ e.tenant = db.ledger[i].tenant
      OBVIOUS
    <3>1. PICK d \in db.disputes : d.id = db.ledger[i].dispute /\ d.tenant = db.ledger[i].tenant
      BY <2>1 DEF LedgerAlike
    <3>. QED BY <3>1
  <2>. QED BY <2>1, <2>2 DEF LedgerAlike
<1>7. Restored(nd, nm)
  BY <1>3, <1>4, <1>5, <1>6 DEF Alike, Restored, PgFields, DisputeTables, NumberedTables, TenantTables, MemFields
<1>8. Own(nd, nm) /\ nd.noticeId = nm.nextNotice /\ OwnSame(m, nm)
  BY <1>3, <1>4 DEF Alike, Own, SettingsAlike, OwnSame, PgFields, DisputeTables, NumberedTables, TenantTables, MemFields
<1>9. Alike(nd, nm)
  BY <1>2, <1>4, <1>7, <1>8 DEF Alike
<1>. QED  BY <1>1, <1>8, <1>9

LEMMA InsertDisputeSame ==
  ASSUME NEW db, NEW m, Alike(db, m), NEW s, NEW d, d.id \in Ids, d.opened \in Int, d.tenant = s.tenant, [d EXCEPT !.tenant = s.tenant] = d,
         DOMAIN d = {"id", "tenant", "team", "state", "version", "account", "opened"},
         \A r \in db.disputes : r.id # d.id, Pg!Q!in_team(s, d.team)
  PROVE  /\ Same(db, m, Pg!InsertDispute(db, s, d), Fake!InsertDispute(m, s, d))
         /\ Pg!Q!Sees(Pg!InsertDispute(db, s, d).db, s, d.id)
<1>0. [d EXCEPT !.tenant = s.tenant] = d
  OBVIOUS
<1>1. PICK X : X = db.disputes \cup {d}
  OBVIOUS
<1>2. PICK nd : nd = [db EXCEPT !.disputes = X]
  OBVIOUS
<1>3. PICK p : p = Pg!InsertDispute(db, s, d)
  OBVIOUS
<1>4. p.err = "ok" /\ p.val = 0 /\ p.db = nd
  BY <1>0, <1>1, <1>2, <1>3 DEF Pg!InsertDispute, Pg!Exec, Pg!mapErr, Pg!Q!InsertDispute, Pg!Q!Refused, Pg!Q!Done
<1>5. PICK f : f = m.disputes
  OBVIOUS
<1>6. PICK Y : Y = Fake!Put(f, d.id, d)
  OBVIOUS
<1>7. PICK q : q = Fake!InsertDispute(m, s, d)
  OBVIOUS
<1>8. q.err = "ok" /\ q.val = 0 /\ q.db = [m EXCEPT !.disputes = Y]
  BY <1>0, <1>5, <1>6, <1>7 DEF Fake!InsertDispute, Fake!Answer
<1>9. DisputesAlike(db.disputes, f) /\ PgOK(db) /\ "disputes" \in DOMAIN db
  BY <1>5 DEF Alike, Restored, PgOK, PgFields
<1>10. DisputesAlike(X, Y)
  <2>1. DOMAIN Y = DOMAIN f \cup {d.id} /\ Y[d.id] = d /\ \A i \in DOMAIN f \ {d.id} : Y[i] = f[i]
    BY <1>6 DEF Fake!Put
  <2>2. d.id \notin DOMAIN f
    BY <1>9 DEF DisputesAlike
  <2>3. TableOK(X)
    <3>1. IsFiniteSet(X)
      BY <1>1, <1>9, FS_AddElement DEF DisputesAlike, TableOK
    <3>2. d.id \in Int
      BY StoreAssumption
    <3>. QED BY <1>1, <1>9, <3>1, <3>2 DEF DisputesAlike, TableOK
  <2>4. \A e \in X : /\ DOMAIN e = {"id", "tenant", "team", "state", "version", "account", "opened"}
                     /\ e.id \in Ids /\ e.id \in DOMAIN Y /\ Y[e.id] = e
    BY <1>1, <1>9, <2>1, <2>2 DEF DisputesAlike
  <2>5. \A i \in DOMAIN Y : Y[i] \in X /\ Y[i].id = i
    BY <1>1, <1>9, <2>1, <2>2 DEF DisputesAlike
  <2>. QED BY <2>3, <2>4, <2>5 DEF DisputesAlike
<1>11. PgOK(nd)
  BY <1>3, <1>4, <1>9, InsertDisputeKeeps DEF Keeps
<1>12. Alike(nd, q.db) /\ OwnSame(m, q.db)
  <2>1. \A r \in db.disputes : \E e \in X : e.id = r.id /\ e.tenant = r.tenant
    BY <1>1
  <2>. QED BY <1>2, <1>8, <1>10, <1>11, <2>1, DisputesWrite
<1>13. nd.disputes = X
  BY <1>2, <1>9
<1>14. \A t, id : Pg!Q!Sees(db, t, id) => Pg!Q!Sees(nd, t, id)
  BY <1>1, <1>13 DEF Pg!Q!Sees, Pg!Q!Scoped, Pg!Q!InTenant
<1>15. Pg!Q!Sees(nd, s, d.id)
  BY <1>1, <1>13 DEF Pg!Q!Sees, Pg!Q!Scoped, Pg!Q!InTenant
<1>. QED BY <1>3, <1>4, <1>7, <1>8, <1>12, <1>14, <1>15 DEF Same, Said, Holds

\* One row is replaced by another of the same key, in both.
LEMMA ReplaceAlike ==
  ASSUME NEW rows, NEW f, DisputesAlike(rows, f), NEW d \in rows, NEW e, e.id = d.id, e.opened = d.opened,
         DOMAIN e = {"id", "tenant", "team", "state", "version", "account", "opened"},
         NEW g, DOMAIN g = DOMAIN f, g[d.id] = e, \A i \in DOMAIN f \ {d.id} : g[i] = f[i]
  PROVE  DisputesAlike((rows \ {d}) \cup {e}, g)
<1>1. PICK X : X = (rows \ {d}) \cup {e}
  OBVIOUS
<1>2. IsFiniteSet(X)
  <2>1. IsFiniteSet(rows \ {d})
    BY FS_RemoveElement DEF DisputesAlike, TableOK
  <2>. QED BY <1>1, <2>1, FS_AddElement
<1>3. \A x \in X : /\ DOMAIN x = {"id", "tenant", "team", "state", "version", "account", "opened"}
                   /\ x.id \in Ids /\ x.id \in DOMAIN g /\ g[x.id] = x
  <2>. SUFFICES ASSUME NEW x \in X
               PROVE /\ DOMAIN x = {"id", "tenant", "team", "state", "version", "account", "opened"}
                     /\ x.id \in Ids /\ x.id \in DOMAIN g /\ g[x.id] = x
    OBVIOUS
  <2>1. CASE x = e
    BY <2>1 DEF DisputesAlike
  <2>2. CASE x # e
    <3>1. x \in rows /\ x # d
      BY <1>1, <2>2
    <3>2. x.id # d.id
      BY <3>1 DEF DisputesAlike, TableOK
    <3>. QED BY <3>1, <3>2 DEF DisputesAlike
  <2>. QED BY <2>1, <2>2
<1>4. \A i \in DOMAIN g : g[i] \in X /\ g[i].id = i
  <2>. SUFFICES ASSUME NEW i \in DOMAIN g PROVE g[i] \in X /\ g[i].id = i
    OBVIOUS
  <2>1. CASE i = d.id
    BY <1>1, <2>1
  <2>2. CASE i # d.id
    BY <1>1, <2>2 DEF DisputesAlike
  <2>. QED BY <2>1, <2>2
<1>5. TableOK(X)
  <2>1. \A x \in X : {"id", "opened"} \subseteq DOMAIN x /\ x.id \in Int /\ x.opened \in Int
    BY <1>1, <1>3, StoreAssumption DEF DisputesAlike, TableOK
  <2>2. \A x, y \in X : x.id = y.id => x = y
    BY <1>3
  <2>. QED BY <1>2, <2>1, <2>2 DEF TableOK
<1>. QED BY <1>1, <1>3, <1>4, <1>5 DEF DisputesAlike

\* An update of a dispute the session sees, by id and version.
RowsAt(db, s, id, v) == {d \in Pg!Q!GetDispute(db, s, id) : d.version = v}

LEMMA UpdateSame ==
  ASSUME NEW db, NEW m, Alike(db, m), NEW s, NEW id, Pg!Q!Sees(db, s, id), NEW expected
  PROVE  \/ /\ RowsAt(db, s, id, expected) = {} /\ ~Fake!Current(m, s, id, expected)
         \/ \E d \in db.disputes : /\ RowsAt(db, s, id, expected) = {d} /\ d.id = id /\ d.version = expected
                                   /\ Fake!Current(m, s, id, expected) /\ id \in DOMAIN m.disputes /\ m.disputes[id] = d
                                   /\ DOMAIN d = {"id", "tenant", "team", "state", "version", "account", "opened"}
<1>1. DisputesAlike(db.disputes, m.disputes)
  BY DEF Alike, Restored
<1>2. PICK d : d \in db.disputes /\ d.tenant = s.tenant /\ Pg!Q!in_team(s, d.team) /\ d.id = id
  BY DEF Pg!Q!Sees, Pg!Q!Scoped, Pg!Q!InTenant
<1>3. \A e : e \in Pg!Q!GetDispute(db, s, id) <=> e = d
  BY <1>1, <1>2 DEF Pg!Q!GetDispute, Pg!Q!Scoped, Pg!Q!InTenant, DisputesAlike, TableOK
<1>4. id \in DOMAIN m.disputes /\ m.disputes[id] = d
  BY <1>1, <1>2 DEF DisputesAlike
<1>5. CASE d.version = expected
  <2>1. RowsAt(db, s, id, expected) = {d}
    BY <1>3, <1>5 DEF RowsAt
  <2>2. Fake!Current(m, s, id, expected)
    BY <1>2, <1>4, <1>5 DEF Fake!Current
  <2>. QED BY <1>1, <1>2, <1>4, <1>5, <2>1, <2>2 DEF DisputesAlike
<1>6. CASE d.version # expected
  <2>1. RowsAt(db, s, id, expected) = {}
    BY <1>3, <1>6 DEF RowsAt
  <2>2. ~Fake!Current(m, s, id, expected)
    BY <1>2, <1>4, <1>6 DEF Fake!Current
  <2>. QED BY <2>1, <2>2
<1>. QED BY <1>5, <1>6

LEMMA SameTables ==
  ASSUME NEW db, NEW m, Alike(db, m), NEW nd, PgOK(nd), \A f \in PgFields : nd[f] = db[f]
  PROVE  Holds(db, m, nd, m)
<1>1. /\ nd.disputes = db.disputes /\ nd.events = db.events /\ nd.keys = db.keys /\ nd.deadlines = db.deadlines
      /\ nd.ledger = db.ledger /\ nd.questionnaires = db.questionnaires /\ nd.notices = db.notices
      /\ nd.risk = db.risk /\ nd.files = db.files /\ nd.templates = db.templates /\ nd.logos = db.logos
      /\ nd.avatars = db.avatars /\ nd.transactions = db.transactions /\ nd.accounts = db.accounts
      /\ nd.settings = db.settings /\ nd.noticeId = db.noticeId
  BY DEF PgFields, DisputeTables, NumberedTables, TenantTables
<1>2. Alike(nd, m)
  BY <1>1 DEF Alike, Restored, Own, SettingsAlike
<1>. QED BY <1>1, <1>2, SeesTable DEF Holds, OwnSame

LEMMA UpdateDisputeSame ==
  ASSUME NEW db, NEW m, Alike(db, m), NEW s, NEW id, Pg!Q!Sees(db, s, id), NEW v, NEW x
  PROVE  /\ Same(db, m, Pg!UpdateDisputeState(db, s, id, v, x), Fake!UpdateDisputeState(m, s, id, v, x))
         /\ LET p == Pg!UpdateDisputeTeam(db, s, id, v, x)
                q == Fake!UpdateDisputeTeam(m, s, id, v, x)
            IN Said(p, q) /\ Alike(p.db, q.db) /\ OwnSame(m, q.db)
               /\ \A t, i : i # id /\ Pg!Q!Sees(db, t, i) => Pg!Q!Sees(p.db, t, i)
<1>0. PICK rows : rows = RowsAt(db, s, id, v)
  OBVIOUS
<1>1. rows = {d \in Pg!Q!GetDispute(db, s, id) : d.version = v}
  BY <1>0 DEF RowsAt
<1>2. PICK fs, ft : /\ fs = [d \in rows |-> [d EXCEPT !.state = x, !.version = @ + 1]]
                    /\ ft = [d \in rows |-> [d EXCEPT !.team = x, !.version = @ + 1]]
  OBVIOUS
<1>3. PICK ps, qs, pt, qt : /\ ps = Pg!UpdateDisputeState(db, s, id, v, x) /\ qs = Fake!UpdateDisputeState(m, s, id, v, x)
                            /\ pt = Pg!UpdateDisputeTeam(db, s, id, v, x) /\ qt = Fake!UpdateDisputeTeam(m, s, id, v, x)
  OBVIOUS
<1>4. PICK ds, dt : /\ ds = [db EXCEPT !.disputes = (@ \ rows) \cup {fs[d] : d \in rows}]
                    /\ dt = [db EXCEPT !.disputes = (@ \ rows) \cup {ft[d] : d \in rows}]
  OBVIOUS
<1>5. /\ ps.db = ds /\ ps.err = (IF Cardinality(rows) = 0 THEN "conflict" ELSE "ok") /\ ps.val = 0
      /\ pt.db = dt /\ pt.err = (IF Cardinality(rows) = 0 THEN "conflict" ELSE "ok") /\ pt.val = 0
  <2>1. Pg!Q!UpdateDisputeState(db, s, id, v, x) = [code |-> "00000", db |-> ds, n |-> Cardinality(rows)]
    BY <1>1, <1>2, <1>4, Sizes DEF Pg!Q!UpdateDisputeState, Pg!Q!Replace, Pg!Q!Done
  <2>2. Pg!Q!UpdateDisputeTeam(db, s, id, v, x) = [code |-> "00000", db |-> dt, n |-> Cardinality(rows)]
    BY <1>1, <1>2, <1>4, Sizes DEF Pg!Q!UpdateDisputeTeam, Pg!Q!Replace, Pg!Q!Done
  <2>. QED BY <1>3, <2>1, <2>2 DEF Pg!UpdateDisputeState, Pg!UpdateDisputeTeam, Pg!Touched, Pg!Failure, Pg!Exec, Pg!mapErr
<1>6. PgOK(ds) /\ PgOK(dt) /\ "disputes" \in DOMAIN db
  BY <1>3, <1>5, UpdateDisputeKeeps DEF Keeps, Alike, PgOK, PgFields
<1>7. CASE rows = {}
  <2>1. ~Fake!Current(m, s, id, v) /\ Cardinality(rows) = 0
    <3>1. RowsAt(db, s, id, v) = {} /\ \A e : RowsAt(db, s, id, v) # {e}
      BY <1>0, <1>7
    <3>2. ~Fake!Current(m, s, id, v)
      BY <3>1, UpdateSame
    <3>3. Cardinality(rows) = 0
      BY <1>7, FS_EmptySet
    <3>. QED BY <3>2, <3>3
  <2>2. qs = Fake!Failure(m, "conflict") /\ qt = Fake!Failure(m, "conflict")
    BY <1>3, <2>1 DEF Fake!UpdateDisputeState, Fake!UpdateDisputeTeam
  <2>3. qs.db = m /\ qt.db = m /\ qs.err = "conflict" /\ qt.err = "conflict"
    BY <2>2 DEF Fake!Failure
  <2>4. (db.disputes \ rows) \cup {fs[d] : d \in rows} = db.disputes /\ (db.disputes \ rows) \cup {ft[d] : d \in rows} = db.disputes
    BY <1>7
  <2>5. \A f \in PgFields : ds[f] = db[f] /\ dt[f] = db[f]
    BY <1>4, <2>4 DEF Alike, PgOK
  <2>6. Holds(db, m, ds, m) /\ Holds(db, m, dt, m)
    BY <1>6, <2>5, SameTables
  <2>. QED BY <1>3, <1>5, <2>1, <2>3, <2>6 DEF Same, Said, Holds
<1>8. CASE rows # {}
  <2>1. PICK d \in db.disputes : /\ rows = {d} /\ d.id = id /\ d.version = v
                                 /\ Fake!Current(m, s, id, v) /\ id \in DOMAIN m.disputes /\ m.disputes[id] = d
                                 /\ DOMAIN d = {"id", "tenant", "team", "state", "version", "account", "opened"}
    BY <1>0, <1>8, UpdateSame
  <2>2. Cardinality(rows) = 1
    BY <2>1, FS_Singleton
  <2>3. PICK f : f = m.disputes
    OBVIOUS
  <2>4. DisputesAlike(db.disputes, f)
    BY <2>3 DEF Alike, Restored
  <2>5. PICK es, et : es = [d EXCEPT !.state = x, !.version = v + 1] /\ et = [d EXCEPT !.team = x, !.version = v + 1]
    OBVIOUS
  <2>6. PICK gs, gt : gs = [f EXCEPT ![id] = es] /\ gt = [f EXCEPT ![id] = et]
    OBVIOUS
  <2>7. qs.db = [m EXCEPT !.disputes = gs] /\ qs.err = "ok" /\ qs.val = 0
    BY <1>3, <2>1, <2>3, <2>5, <2>6 DEF Fake!UpdateDisputeState, Fake!Answer, Alike, MemFields
  <2>8. qt.db = [m EXCEPT !.disputes = gt] /\ qt.err = "ok" /\ qt.val = 0
    BY <1>3, <2>1, <2>3, <2>5, <2>6 DEF Fake!UpdateDisputeTeam, Fake!Answer, Alike, MemFields
  <2>9. es = fs[d] /\ et = ft[d] /\ \A e \in {es, et} : /\ e.id = d.id /\ e.opened = d.opened /\ e.tenant = d.tenant
          /\ DOMAIN e = {"id", "tenant", "team", "state", "version", "account", "opened"}
    BY <1>2, <2>1, <2>5
  <2>10. ds = [db EXCEPT !.disputes = (@ \ {d}) \cup {es}] /\ dt = [db EXCEPT !.disputes = (@ \ {d}) \cup {et}]
    <3>1. {fs[r] : r \in rows} = {es} /\ {ft[r] : r \in rows} = {et}
      BY <2>1, <2>9
    <3>. QED BY <1>4, <2>1, <3>1
  <2>11. /\ DOMAIN gs = DOMAIN f /\ gs[d.id] = es /\ \A i \in DOMAIN f \ {d.id} : gs[i] = f[i]
         /\ DOMAIN gt = DOMAIN f /\ gt[d.id] = et /\ \A i \in DOMAIN f \ {d.id} : gt[i] = f[i]
    BY <2>1, <2>3, <2>6
  <2>12. PICK Xs, Xt : Xs = (db.disputes \ {d}) \cup {es} /\ Xt = (db.disputes \ {d}) \cup {et}
    OBVIOUS
  <2>13. DisputesAlike(Xs, gs)
    <3>1. es.id = d.id /\ es.opened = d.opened /\ DOMAIN es = {"id", "tenant", "team", "state", "version", "account", "opened"}
      BY <2>9
    <3>2. DisputesAlike((db.disputes \ {d}) \cup {es}, gs)
      BY <2>4, <2>11, <3>1, ReplaceAlike
    <3>. QED BY <2>12, <3>2
  <2>14. DisputesAlike(Xt, gt)
    <3>1. et.id = d.id /\ et.opened = d.opened /\ DOMAIN et = {"id", "tenant", "team", "state", "version", "account", "opened"}
      BY <2>9
    <3>2. DisputesAlike((db.disputes \ {d}) \cup {et}, gt)
      BY <2>4, <2>11, <3>1, ReplaceAlike
    <3>. QED BY <2>12, <3>2
  <2>15. /\ \A r \in db.disputes : \E e \in Xs : e.id = r.id /\ e.tenant = r.tenant
         /\ \A r \in db.disputes : \E e \in Xt : e.id = r.id /\ e.tenant = r.tenant
    BY <2>9, <2>12
  <2>16. ds = [db EXCEPT !.disputes = Xs] /\ dt = [db EXCEPT !.disputes = Xt]
    BY <2>10, <2>12
  <2>17. Alike(ds, qs.db) /\ OwnSame(m, qs.db)
    BY <1>6, <2>7, <2>13, <2>15, <2>16, DisputesWrite
  <2>18. Alike(dt, qt.db) /\ OwnSame(m, qt.db)
    BY <1>6, <2>8, <2>14, <2>15, <2>16, DisputesWrite
  <2>19. ds.disputes = Xs /\ dt.disputes = Xt
    BY <1>6, <2>16
  <2>20. \A t, i : Pg!Q!Sees(db, t, i) => Pg!Q!Sees(ds, t, i)
    <3>1. es.team = d.team
      BY <2>1, <2>5
    <3>. QED BY <2>9, <2>12, <2>19, <3>1 DEF Pg!Q!Sees, Pg!Q!Scoped, Pg!Q!InTenant
  <2>21. \A t, i : i # id /\ Pg!Q!Sees(db, t, i) => Pg!Q!Sees(dt, t, i)
    BY <2>1, <2>12, <2>19 DEF Pg!Q!Sees, Pg!Q!Scoped, Pg!Q!InTenant
  <2>22. ps.err = "ok" /\ pt.err = "ok"
    BY <1>5, <2>2
  <2>. QED BY <1>3, <1>5, <2>7, <2>8, <2>17, <2>18, <2>20, <2>21, <2>22 DEF Same, Said, Holds
<1>. QED BY <1>7, <1>8

-----------------------------------------------------------------------------
(* Reads that find one row, or what the tenant has set *)

LEMMA OneSame ==
  ASSUME NEW db, NEW m, Alike(db, m), NEW S, NEW q, q.db = m,
         \/ S = {} /\ q.err = "notfound"
         \/ S = {q.val} /\ q.err = "ok"
  PROVE  Same(db, m, Pg!One(db, S), q)
<1>1. PICK p : p = Pg!One(db, S)
  OBVIOUS
<1>2. CASE S = {} /\ q.err = "notfound"
  <2>1. p.err = "notfound" /\ p.db = db
    BY <1>1, <1>2 DEF Pg!One, Pg!Failure
  <2>. QED BY <1>1, <1>2, <2>1, ReadSame DEF Said
<1>3. CASE S = {q.val} /\ q.err = "ok"
  <2>1. S # {} /\ (CHOOSE r \in S : TRUE) = q.val
    BY <1>3
  <2>2. p.err = "ok" /\ p.db = db /\ p.val = q.val
    BY <1>1, <2>1 DEF Pg!One, Pg!Answer
  <2>. QED BY <1>1, <1>3, <2>2, ReadSame DEF Said
<1>. QED BY <1>2, <1>3

LEMMA AnswersSame ==
  ASSUME NEW db, NEW m, Alike(db, m), NEW v
  PROVE  Same(db, m, Pg!Answer(db, v), Fake!Answer(m, v))
<1>1. PICK p, q : p = Pg!Answer(db, v) /\ q = Fake!Answer(m, v)
  OBVIOUS
<1>2. p.db = db /\ q.db = m /\ Said(p, q)
  BY <1>1 DEF Pg!Answer, Fake!Answer, Said
<1>. QED BY <1>1, <1>2, ReadSame

LEMMA SettingsSame ==
  ASSUME NEW db, NEW m, Alike(db, m), NEW s \in Sessions, NEW t \in Tenants
  PROVE  /\ Same(db, m, Pg!GetTransaction(db, s, t), Fake!GetTransaction(m, s, t))
         /\ Same(db, m, Pg!GetAccount(db, s, s.tenant), Fake!GetAccount(m, s, s.tenant))
         /\ Same(db, m, Pg!TenantName(db, s), Fake!TenantName(m, s))
         /\ Same(db, m, Pg!TenantCalendar(db, s), Fake!TenantCalendar(m, s))
         /\ Same(db, m, Pg!TenantCore(db, s), Fake!TenantCore(m, s))
<1>0. SettingsAlike(db, m) /\ s.tenant \in Tenants
  BY DEF Alike, Own, Tenants
<1>1. Same(db, m, Pg!GetTransaction(db, s, t), Fake!GetTransaction(m, s, t))
  <2>1. PICK S : S = Pg!Q!GetTransaction(db, s, t)
    OBVIOUS
  <2>2. PICK row : row = [id |-> t, tenant |-> t, account |-> t]
    OBVIOUS
  <2>3. db.transactions = {[id |-> i, tenant |-> i, account |-> i] : i \in Tenants}
    BY <1>0 DEF SettingsAlike, EmptyPg
  <2>4. \A r : r \in S <=> r = row /\ t = s.tenant
    BY <2>1, <2>2, <2>3 DEF Pg!Q!GetTransaction, Pg!Q!InTenant
  <2>5. m.transactions[t] = row /\ t \in DOMAIN m.transactions /\ row.tenant = t
    BY <1>0, <2>2 DEF SettingsAlike
  <2>6. PICK q : q = Fake!GetTransaction(m, s, t)
    OBVIOUS
  <2>7. q.db = m /\ IF t = s.tenant THEN q.err = "ok" /\ q.val = row ELSE q.err = "notfound"
    BY <2>5, <2>6 DEF Fake!GetTransaction, Fake!Answer, Fake!Failure
  <2>8. IF t = s.tenant THEN S = {row} ELSE S = {}
    BY <2>4
  <2>. QED BY <2>1, <2>6, <2>7, <2>8, OneSame DEF Pg!GetTransaction
<1>2. Same(db, m, Pg!GetAccount(db, s, s.tenant), Fake!GetAccount(m, s, s.tenant))
  <2>1. PICK S : S = Pg!Q!GetAccount(db, s, s.tenant)
    OBVIOUS
  <2>2. PICK row : row = [id |-> s.tenant, tenant |-> s.tenant]
    OBVIOUS
  <2>3. db.accounts = {[id |-> i, tenant |-> i] : i \in Tenants}
    BY <1>0 DEF SettingsAlike, EmptyPg
  <2>4. \A r : r \in S <=> r = row
    BY <1>0, <2>1, <2>2, <2>3 DEF Pg!Q!GetAccount, Pg!Q!InTenant
  <2>5. m.accounts[s.tenant] = row /\ s.tenant \in DOMAIN m.accounts
    BY <1>0, <2>2 DEF SettingsAlike
  <2>6. PICK q : q = Fake!GetAccount(m, s, s.tenant)
    OBVIOUS
  <2>7. q.db = m /\ q.err = "ok" /\ q.val = row
    BY <2>5, <2>6 DEF Fake!GetAccount, Fake!Lookup, Fake!Answer
  <2>8. S = {row}
    BY <2>4
  <2>. QED BY <2>1, <2>6, <2>7, <2>8, OneSame DEF Pg!GetAccount
<1>3. Same(db, m, Pg!TenantName(db, s), Fake!TenantName(m, s))
  <2>1. Fake!TenantName(m, s) = Fake!Answer(m, s.tenant) /\ Pg!TenantName(db, s) = Pg!Answer(db, s.tenant)
    BY <1>0 DEF SettingsAlike, Fake!TenantName, Pg!TenantName, Pg!Q!GetTenantName
  <2>. QED BY <2>1, AnswersSame
<1>4. Same(db, m, Pg!TenantCalendar(db, s), Fake!TenantCalendar(m, s))
  <2>1. Fake!TenantCalendar(m, s) = Fake!Answer(m, "default") /\ Pg!TenantCalendar(db, s) = Pg!Answer(db, "default")
    BY <1>0 DEF SettingsAlike, EmptyPg, Fake!TenantCalendar, Pg!TenantCalendar, Pg!Q!GetTenantCalendar
  <2>. QED BY <2>1, AnswersSame
<1>5. Same(db, m, Pg!TenantCore(db, s), Fake!TenantCore(m, s))
  <2>1. Fake!TenantCore(m, s) = Fake!Answer(m, "none") /\ Pg!TenantCore(db, s) = Pg!Answer(db, "none")
    BY <1>0 DEF SettingsAlike, EmptyPg, Fake!TenantCore, Pg!TenantCore, Pg!Q!GetTenantCore
  <2>. QED BY <2>1, AnswersSame
<1>. QED BY <1>1, <1>2, <1>3, <1>4, <1>5

LEMMA OwnReadsSame ==
  ASSUME NEW db, NEW m, Alike(db, m), NEW s \in Sessions, NEW u
  PROVE  /\ Same(db, m, Pg!TenantTemplates(db, s), Fake!TenantTemplates(m, s))
         /\ Same(db, m, Pg!GetTenantMetadata(db, s), Fake!GetTenantMetadata(m, s))
         /\ Same(db, m, Pg!GetTenantLogo(db, s), Fake!GetTenantLogo(m, s))
         /\ Same(db, m, Pg!GetAnalystAvatar(db, s, u), Fake!GetAnalystAvatar(m, s, u))
<1>0. PICK tenant : tenant = s.tenant /\ tenant \in Tenants
  BY DEF Tenants
<1>1. Same(db, m, Pg!TenantTemplates(db, s), Fake!TenantTemplates(m, s))
  <2>1. PICK f : f = m.templates[tenant]
    OBVIOUS
  <2>2. TemplatesAlike(db.templates, m.templates)
    BY DEF Alike, Own
  <2>3. \A r : r \in Pg!Q!ListTenantTemplates(db, s) <=> \E k \in DOMAIN f : r = [tenant |-> tenant, kind |-> k, text |-> f[k]]
    BY <1>0, <2>1, <2>2 DEF TemplatesAlike, Pg!Q!ListTenantTemplates, Pg!Q!InTenant
  <2>4. Pg!Q!ListTenantTemplates(db, s) = {[tenant |-> tenant, kind |-> k, text |-> f[k]] : k \in DOMAIN f}
    BY <2>3
  <2>. QED BY <1>0, <2>1, <2>4, AnswersSame DEF Pg!TenantTemplates, Fake!TenantTemplates
<1>2. PICK L : L = Pg!Q!InTenant(s, db.logos)
  OBVIOUS
<1>3. PICK f, at : f = m.logos /\ at = m.logoAt /\ LogosAlike(db.logos, f, at)
  BY DEF Alike, Own
<1>4. IF tenant \in DOMAIN f THEN L = {[tenant |-> tenant, image |-> f[tenant], at |-> at[tenant]]} ELSE L = {}
  <2>1. \A r \in L : r \in db.logos /\ r.tenant = tenant
    BY <1>0, <1>2 DEF Pg!Q!InTenant
  <2>2. \A r \in L : tenant \in DOMAIN f /\ r = [tenant |-> tenant, image |-> f[tenant], at |-> at[tenant]]
    BY <1>3, <2>1 DEF LogosAlike
  <2>3. tenant \in DOMAIN f => [tenant |-> tenant, image |-> f[tenant], at |-> at[tenant]] \in L
    BY <1>0, <1>2, <1>3 DEF LogosAlike, Pg!Q!InTenant
  <2>. QED BY <2>2, <2>3
<1>5. Same(db, m, Pg!GetTenantMetadata(db, s), Fake!GetTenantMetadata(m, s))
  <2>1. Pg!Q!GetTenantMetadata(db, s) = IF tenant \in DOMAIN f THEN {[at |-> at[tenant]]} ELSE {}
    <3>1. PICK row : row = [tenant |-> tenant, image |-> f[tenant], at |-> at[tenant]]
      OBVIOUS
    <3>2. row.at = at[tenant] /\ IF tenant \in DOMAIN f THEN L = {row} ELSE L = {}
      BY <1>4, <3>1
    <3>3. {[at |-> l.at] : l \in L} = IF tenant \in DOMAIN f THEN {[at |-> at[tenant]]} ELSE {}
      BY <3>2
    <3>. QED BY <1>2, <3>3 DEF Pg!Q!GetTenantMetadata
  <2>. QED BY <1>0, <1>3, <2>1, AnswersSame DEF Pg!GetTenantMetadata, Fake!GetTenantMetadata
<1>6. Same(db, m, Pg!GetTenantLogo(db, s), Fake!GetTenantLogo(m, s))
  <2>1. PICK S : S = {l.image : l \in L}
    OBVIOUS
  <2>2. PICK q : q = Fake!GetTenantLogo(m, s)
    OBVIOUS
  <2>3. q.db = m /\ IF tenant \in DOMAIN f THEN q.err = "ok" /\ q.val = f[tenant] ELSE q.err = "notfound"
    BY <1>0, <1>3, <2>2 DEF Fake!GetTenantLogo, Fake!Lookup, Fake!Answer, Fake!Failure
  <2>4. IF tenant \in DOMAIN f THEN S = {f[tenant]} ELSE S = {}
    <3>1. PICK row : row = [tenant |-> tenant, image |-> f[tenant], at |-> at[tenant]]
      OBVIOUS
    <3>2. row.image = f[tenant] /\ IF tenant \in DOMAIN f THEN L = {row} ELSE L = {}
      BY <1>4, <3>1
    <3>. QED BY <2>1, <3>2
  <2>. QED BY <1>2, <2>1, <2>2, <2>3, <2>4, OneSame DEF Pg!GetTenantLogo, Pg!Q!GetTenantLogo
<1>7. Same(db, m, Pg!GetAnalystAvatar(db, s, u), Fake!GetAnalystAvatar(m, s, u))
  <2>0. PICK g, k : g = m.avatars /\ AvatarsAlike(db.avatars, g) /\ k = <<tenant, u>>
    BY DEF Alike, Own
  <2>1. PICK S : S = {a.image : a \in Pg!Q!GetAnalystAvatar(db, s, u)}
    OBVIOUS
  <2>2. PICK q : q = Fake!GetAnalystAvatar(m, s, u)
    OBVIOUS
  <2>3. q.db = m /\ IF k \in DOMAIN g THEN q.err = "ok" /\ q.val = g[k] ELSE q.err = "notfound"
    BY <1>0, <2>0, <2>2 DEF Fake!GetAnalystAvatar, Fake!Lookup, Fake!Answer, Fake!Failure
  <2>4. \A x : x \in S <=> \E a \in db.avatars : a.tenant = tenant /\ a.subject = u /\ x = a.image
    BY <1>0, <2>1 DEF Pg!Q!GetAnalystAvatar, Pg!Q!InTenant
  <2>5. \A x \in S : k \in DOMAIN g /\ x = g[k]
    BY <2>0, <2>4 DEF AvatarsAlike
  <2>6. k \in DOMAIN g => g[k] \in S
    <3>. SUFFICES ASSUME k \in DOMAIN g PROVE g[k] \in S
      OBVIOUS
    <3>1. PICK r \in db.avatars : k = <<r.tenant, r.subject>>
      BY <2>0 DEF AvatarsAlike
    <3>2. r.tenant = tenant /\ r.subject = u /\ g[k] = r.image
      BY <2>0, <3>1 DEF AvatarsAlike
    <3>. QED BY <2>4, <3>2
  <2>7. IF k \in DOMAIN g THEN S = {g[k]} ELSE S = {}
    BY <2>5, <2>6
  <2>. QED BY <2>1, <2>2, <2>3, <2>7, OneSame DEF Pg!GetAnalystAvatar
<1>. QED BY <1>1, <1>5, <1>6, <1>7

-----------------------------------------------------------------------------
(* Writes of what a tenant keeps of its own *)

\* Both answer alike and hold alike after the last call of a transaction.
SameLast(db, p, q) ==
  Said(p, q) /\ Alike(p.db, q.db) /\ \A s, id : Pg!Q!Sees(db, s, id) => Pg!Q!Sees(p.db, s, id)

RestoredSame(m, new) ==
  /\ new.disputes = m.disputes /\ new.events = m.events /\ new.idempotent = m.idempotent
  /\ new.deadlines = m.deadlines /\ new.ledger = m.ledger /\ new.questions = m.questions
  /\ new.notices = m.notices /\ new.risk = m.risk /\ new.files = m.files

LEMMA OwnWrite ==
  ASSUME NEW db, NEW m, Alike(db, m), NEW nd, NEW nm, PgOK(nd), DOMAIN nm = MemFields,
         NEW F, F \in {"templates", "logos", "avatars"}, \A f \in PgFields \ {F} : nd[f] = db[f],
         RestoredSame(m, nm), nm.nextNotice = m.nextNotice, Own(nd, nm)
  PROVE  Alike(nd, nm) /\ \A s, id : Pg!Q!Sees(db, s, id) => Pg!Q!Sees(nd, s, id)
<1>1. /\ nd.disputes = db.disputes /\ nd.events = db.events /\ nd.keys = db.keys /\ nd.deadlines = db.deadlines
      /\ nd.ledger = db.ledger /\ nd.questionnaires = db.questionnaires /\ nd.notices = db.notices
      /\ nd.risk = db.risk /\ nd.files = db.files /\ nd.noticeId = db.noticeId
  BY DEF PgFields, DisputeTables, NumberedTables, TenantTables
<1>2. Restored(nd, nm)
  BY <1>1 DEF RestoredSame, Alike, Restored
<1>. QED BY <1>1, <1>2, SeesTable DEF Alike

LEMMA PutTenantTemplateSame ==
  ASSUME NEW db, NEW m, Alike(db, m), NEW s \in Sessions, NEW kind, NEW text
  PROVE  SameLast(db, Pg!PutTenantTemplate(db, s, kind, text), Fake!PutTenantTemplate(m, s, kind, text))
<1>0. PICK tenant : tenant = s.tenant /\ tenant \in Tenants
  BY DEF Tenants
<1>1. PICK row : row = [tenant |-> tenant, kind |-> kind, text |-> text]
  OBVIOUS
<1>2. PICK X : X = {t \in db.templates : ~(t.tenant = tenant /\ t.kind = kind)} \cup {row}
  OBVIOUS
<1>3. PICK p, q : p = Pg!PutTenantTemplate(db, s, kind, text) /\ q = Fake!PutTenantTemplate(m, s, kind, text)
  OBVIOUS
<1>4. PICK nd : nd = [db EXCEPT !.templates = X]
  OBVIOUS
<1>5. p.err = "ok" /\ p.val = 0 /\ p.db = nd
  BY <1>0, <1>1, <1>2, <1>3, <1>4 DEF Pg!PutTenantTemplate, Pg!Exec, Pg!mapErr, Pg!Q!UpsertTenantTemplate, Pg!Q!Done
<1>6. PICK f, g : f = m.templates /\ g = Fake!Put(f[tenant], kind, text)
  OBVIOUS
<1>7. PICK Y, nm : Y = [f EXCEPT ![tenant] = g] /\ nm = [m EXCEPT !.templates = Y]
  OBVIOUS
<1>8. q.err = "ok" /\ q.val = 0 /\ q.db = nm
  BY <1>0, <1>3, <1>6, <1>7 DEF Fake!PutTenantTemplate, Fake!Answer
<1>9. TemplatesAlike(db.templates, f) /\ PgOK(db) /\ DOMAIN db = PgFields /\ DOMAIN m = MemFields
  BY <1>6 DEF Alike, Own, PgOK
<1>10. TemplatesAlike(X, Y)
  <2>1. DOMAIN g = DOMAIN f[tenant] \cup {kind} /\ g[kind] = text /\ \A k \in DOMAIN f[tenant] \ {kind} : g[k] = f[tenant][k]
    BY <1>6 DEF Fake!Put
  <2>2. DOMAIN f = Tenants /\ DOMAIN Y = Tenants /\ Y[tenant] = g /\ \A t \in Tenants \ {tenant} : Y[t] = f[t]
    BY <1>0, <1>7, <1>9 DEF TemplatesAlike
  <2>3. ASSUME NEW r \in X
        PROVE  /\ r = [tenant |-> r.tenant, kind |-> r.kind, text |-> r.text] /\ r.tenant \in Tenants
               /\ r.kind \in DOMAIN Y[r.tenant] /\ Y[r.tenant][r.kind] = r.text
    <3>1. CASE r = row
      BY <1>0, <1>1, <2>1, <2>2, <3>1
    <3>2. CASE r # row
      <4>1. r \in db.templates /\ ~(r.tenant = tenant /\ r.kind = kind)
        BY <1>2, <3>2
      <4>. QED BY <1>9, <2>1, <2>2, <4>1 DEF TemplatesAlike
    <3>. QED BY <3>1, <3>2
  <2>4. ASSUME NEW t \in Tenants, NEW k \in DOMAIN Y[t] PROVE [tenant |-> t, kind |-> k, text |-> Y[t][k]] \in X
    <3>1. CASE t = tenant /\ k = kind
      BY <1>1, <1>2, <2>1, <2>2, <3>1
    <3>2. CASE ~(t = tenant /\ k = kind)
      <4>1. k \in DOMAIN f[t] /\ Y[t][k] = f[t][k]
        BY <2>1, <2>2, <2>4, <3>2
      <4>2. PICK r : r = [tenant |-> t, kind |-> k, text |-> f[t][k]]
        OBVIOUS
      <4>3. r \in db.templates /\ r.tenant = t /\ r.kind = k
        BY <1>9, <4>1, <4>2 DEF TemplatesAlike
      <4>4. r \in X
        BY <1>2, <3>2, <4>3
      <4>. QED BY <4>1, <4>2, <4>4
    <3>. QED BY <3>1, <3>2
  <2>. QED BY <2>2, <2>3, <2>4 DEF TemplatesAlike
<1>11. PgOK(nd)
  BY <1>3, <1>5, <1>9, TenantWritesKeep DEF Keeps
<1>12. nd.templates = X /\ \A h \in PgFields \ {"templates"} : nd[h] = db[h]
  BY <1>4, <1>9 DEF PgFields, TenantTables
<1>13. nm.templates = Y /\ DOMAIN nm = MemFields /\ \A h \in MemFields \ {"templates"} : nm[h] = m[h]
  BY <1>7, <1>9 DEF MemFields
<1>14. Own(nd, nm) /\ RestoredSame(m, nm) /\ nm.nextNotice = m.nextNotice
  BY <1>10, <1>12, <1>13 DEF Alike, Own, SettingsAlike, RestoredSame, PgFields, DisputeTables, NumberedTables, TenantTables, MemFields
<1>15. Alike(nd, nm) /\ \A t, id : Pg!Q!Sees(db, t, id) => Pg!Q!Sees(nd, t, id)
  BY <1>11, <1>12, <1>13, <1>14, OwnWrite
<1>. QED BY <1>3, <1>5, <1>8, <1>15 DEF SameLast, Said

LEMMA DeleteTenantTemplateSame ==
  ASSUME NEW db, NEW m, Alike(db, m), NEW s \in Sessions, NEW kind
  PROVE  SameLast(db, Pg!DeleteTenantTemplate(db, s, kind), Fake!DeleteTenantTemplate(m, s, kind))
<1>0. PICK tenant : tenant = s.tenant /\ tenant \in Tenants
  BY DEF Tenants
<1>1. PICK rows : rows = {t \in Pg!Q!InTenant(s, db.templates) : t.kind = kind}
  OBVIOUS
<1>2. PICK X : X = db.templates \ rows
  OBVIOUS
<1>3. PICK p, q : p = Pg!DeleteTenantTemplate(db, s, kind) /\ q = Fake!DeleteTenantTemplate(m, s, kind)
  OBVIOUS
<1>4. PICK nd : nd = [db EXCEPT !.templates = X]
  OBVIOUS
<1>5. p.err = "ok" /\ p.val = (Cardinality(rows) > 0) /\ p.db = nd
  BY <1>1, <1>2, <1>3, <1>4, Sizes DEF Pg!DeleteTenantTemplate, Pg!Answer, Pg!Q!DeleteTenantTemplate, Pg!Q!Done
<1>6. PICK f, g : f = m.templates /\ g = Fake!Without(f[tenant], {kind})
  OBVIOUS
<1>7. PICK Y, nm : Y = [f EXCEPT ![tenant] = g] /\ nm = [m EXCEPT !.templates = Y]
  OBVIOUS
<1>8. q.err = "ok" /\ q.val = (kind \in DOMAIN f[tenant]) /\ q.db = nm
  BY <1>0, <1>3, <1>6, <1>7 DEF Fake!DeleteTenantTemplate, Fake!Answer
<1>9. TemplatesAlike(db.templates, f) /\ PgOK(db) /\ DOMAIN db = PgFields /\ DOMAIN m = MemFields
  BY <1>6 DEF Alike, Own, PgOK
<1>10. \A r : r \in rows <=> r \in db.templates /\ r.tenant = tenant /\ r.kind = kind
  BY <1>0, <1>1 DEF Pg!Q!InTenant
<1>11. TemplatesAlike(X, Y)
  <2>1. DOMAIN g = DOMAIN f[tenant] \ {kind} /\ \A k \in DOMAIN g : g[k] = f[tenant][k]
    BY <1>6 DEF Fake!Without
  <2>2. DOMAIN f = Tenants /\ DOMAIN Y = Tenants /\ Y[tenant] = g /\ \A t \in Tenants \ {tenant} : Y[t] = f[t]
    BY <1>0, <1>7, <1>9 DEF TemplatesAlike
  <2>3. ASSUME NEW r \in X
        PROVE  /\ r = [tenant |-> r.tenant, kind |-> r.kind, text |-> r.text] /\ r.tenant \in Tenants
               /\ r.kind \in DOMAIN Y[r.tenant] /\ Y[r.tenant][r.kind] = r.text
    <3>1. r \in db.templates /\ ~(r.tenant = tenant /\ r.kind = kind)
      BY <1>2, <1>10
    <3>. QED BY <1>9, <2>1, <2>2, <3>1 DEF TemplatesAlike
  <2>4. ASSUME NEW t \in Tenants, NEW k \in DOMAIN Y[t] PROVE [tenant |-> t, kind |-> k, text |-> Y[t][k]] \in X
    <3>1. k \in DOMAIN f[t] /\ Y[t][k] = f[t][k] /\ ~(t = tenant /\ k = kind)
      BY <2>1, <2>2, <2>4
    <3>2. PICK r : r = [tenant |-> t, kind |-> k, text |-> f[t][k]]
      OBVIOUS
    <3>3. r \in db.templates /\ r.tenant = t /\ r.kind = k
      BY <1>9, <3>1, <3>2 DEF TemplatesAlike
    <3>4. r \in X
      BY <1>2, <1>10, <3>1, <3>3
    <3>. QED BY <3>1, <3>2, <3>4
  <2>. QED BY <2>2, <2>3, <2>4 DEF TemplatesAlike
<1>12. (Cardinality(rows) > 0) = (kind \in DOMAIN f[tenant])
  <2>1. CASE kind \in DOMAIN f[tenant]
    <3>1. PICK r : r = [tenant |-> tenant, kind |-> kind, text |-> f[tenant][kind]]
      OBVIOUS
    <3>2. r \in rows
      BY <1>0, <1>9, <1>10, <2>1, <3>1 DEF TemplatesAlike
    <3>3. \A o \in rows : o = r
      BY <1>0, <1>9, <1>10, <3>1 DEF TemplatesAlike
    <3>4. rows = {r}
      BY <3>2, <3>3
    <3>5. Cardinality(rows) = 1
      BY <3>4, FS_Singleton
    <3>. QED BY <2>1, <3>5
  <2>2. CASE kind \notin DOMAIN f[tenant]
    <3>1. rows = {}
      BY <1>9, <1>10, <2>2 DEF TemplatesAlike
    <3>2. Cardinality(rows) = 0
      BY <3>1, FS_EmptySet
    <3>. QED BY <2>2, <3>2
  <2>. QED BY <2>1, <2>2
<1>13. PgOK(nd)
  BY <1>3, <1>5, <1>9, TenantWritesKeep DEF Keeps
<1>14. nd.templates = X /\ \A h \in PgFields \ {"templates"} : nd[h] = db[h]
  BY <1>4, <1>9 DEF PgFields, TenantTables
<1>15. nm.templates = Y /\ DOMAIN nm = MemFields /\ \A h \in MemFields \ {"templates"} : nm[h] = m[h]
  BY <1>7, <1>9 DEF MemFields
<1>16. Own(nd, nm) /\ RestoredSame(m, nm) /\ nm.nextNotice = m.nextNotice
  BY <1>11, <1>14, <1>15 DEF Alike, Own, SettingsAlike, RestoredSame, PgFields, DisputeTables, NumberedTables, TenantTables, MemFields
<1>17. Alike(nd, nm) /\ \A t, id : Pg!Q!Sees(db, t, id) => Pg!Q!Sees(nd, t, id)
  BY <1>13, <1>14, <1>15, <1>16, OwnWrite
<1>. QED BY <1>3, <1>5, <1>8, <1>12, <1>17 DEF SameLast, Said

LEMMA PutTenantLogoSame ==
  ASSUME NEW db, NEW m, Alike(db, m), NEW s \in Sessions, NEW image, NEW t
  PROVE  SameLast(db, Pg!PutTenantLogo(db, s, image, t), Fake!PutTenantLogo(m, s, image, t))
<1>0. PICK tenant : tenant = s.tenant
  OBVIOUS
<1>1. PICK row : row = [tenant |-> tenant, image |-> image, at |-> t]
  OBVIOUS
<1>2. PICK X : X = (db.logos \ Pg!Q!InTenant(s, db.logos)) \cup {row}
  OBVIOUS
<1>3. PICK p, q : p = Pg!PutTenantLogo(db, s, image, t) /\ q = Fake!PutTenantLogo(m, s, image, t)
  OBVIOUS
<1>4. PICK nd : nd = [db EXCEPT !.logos = X]
  OBVIOUS
<1>5. p.err = "ok" /\ p.val = 0 /\ p.db = nd
  BY <1>0, <1>1, <1>2, <1>3, <1>4 DEF Pg!PutTenantLogo, Pg!Exec, Pg!mapErr, Pg!Q!PutTenantLogo, Pg!Q!Done
<1>6. PICK f, at : f = m.logos /\ at = m.logoAt
  OBVIOUS
<1>7. PICK Y, Z, nm : Y = Fake!Put(f, tenant, image) /\ Z = Fake!Put(at, tenant, t) /\ nm = [m EXCEPT !.logos = Y, !.logoAt = Z]
  OBVIOUS
<1>8. q.err = "ok" /\ q.val = 0 /\ q.db = nm
  BY <1>0, <1>3, <1>6, <1>7 DEF Fake!PutTenantLogo, Fake!Answer
<1>9. LogosAlike(db.logos, f, at) /\ PgOK(db) /\ DOMAIN db = PgFields /\ DOMAIN m = MemFields
  BY <1>6 DEF Alike, Own, PgOK
<1>10. LogosAlike(X, Y, Z)
  <2>1. /\ DOMAIN Y = DOMAIN f \cup {tenant} /\ Y[tenant] = image /\ \A k \in DOMAIN f \ {tenant} : Y[k] = f[k]
        /\ DOMAIN Z = DOMAIN at \cup {tenant} /\ Z[tenant] = t /\ \A k \in DOMAIN at \ {tenant} : Z[k] = at[k]
    BY <1>7 DEF Fake!Put
  <2>2. \A r : r \in X <=> r = row \/ (r \in db.logos /\ r.tenant # tenant)
    BY <1>0, <1>2 DEF Pg!Q!InTenant
  <2>3. ASSUME NEW r \in X
        PROVE  /\ r = [tenant |-> r.tenant, image |-> r.image, at |-> r.at]
               /\ r.tenant \in DOMAIN Y /\ Y[r.tenant] = r.image
               /\ r.tenant \in DOMAIN Z /\ Z[r.tenant] = r.at
    <3>1. CASE r = row
      BY <1>1, <2>1, <3>1
    <3>2. CASE r # row
      BY <1>9, <2>1, <2>2, <3>2 DEF LogosAlike
    <3>. QED BY <3>1, <3>2
  <2>4. ASSUME NEW k \in DOMAIN Y PROVE [tenant |-> k, image |-> Y[k], at |-> Z[k]] \in X
    <3>1. CASE k = tenant
      BY <1>1, <2>1, <2>2, <3>1
    <3>2. CASE k # tenant
      <4>1. PICK r : r = [tenant |-> k, image |-> f[k], at |-> at[k]]
        OBVIOUS
      <4>2. r \in db.logos /\ r.tenant = k /\ k \in DOMAIN f
        BY <1>9, <2>1, <2>4, <3>2, <4>1 DEF LogosAlike
      <4>3. k \in DOMAIN at
        BY <1>9, <4>2 DEF LogosAlike
      <4>4. Y[k] = f[k] /\ Z[k] = at[k]
        BY <2>1, <3>2, <4>2, <4>3
      <4>. QED BY <2>2, <3>2, <4>1, <4>2, <4>4
    <3>. QED BY <3>1, <3>2
  <2>. QED BY <2>3, <2>4 DEF LogosAlike
<1>11. PgOK(nd)
  BY <1>3, <1>5, <1>9, TenantWritesKeep DEF Keeps
<1>12. nd.logos = X /\ \A h \in PgFields \ {"logos"} : nd[h] = db[h]
  BY <1>4, <1>9 DEF PgFields, TenantTables
<1>13. nm.logos = Y /\ nm.logoAt = Z /\ DOMAIN nm = MemFields /\ \A h \in MemFields \ {"logos", "logoAt"} : nm[h] = m[h]
  BY <1>7, <1>9 DEF MemFields
<1>14. Own(nd, nm) /\ RestoredSame(m, nm) /\ nm.nextNotice = m.nextNotice
  BY <1>10, <1>12, <1>13 DEF Alike, Own, SettingsAlike, RestoredSame, PgFields, DisputeTables, NumberedTables, TenantTables, MemFields
<1>15. Alike(nd, nm) /\ \A x, id : Pg!Q!Sees(db, x, id) => Pg!Q!Sees(nd, x, id)
  BY <1>11, <1>12, <1>13, <1>14, OwnWrite
<1>. QED BY <1>3, <1>5, <1>8, <1>15 DEF SameLast, Said

LEMMA PutAnalystAvatarSame ==
  ASSUME NEW db, NEW m, Alike(db, m), NEW s \in Sessions, NEW u, NEW image
  PROVE  SameLast(db, Pg!PutAnalystAvatar(db, s, u, image), Fake!PutAnalystAvatar(m, s, u, image))
<1>0. PICK tenant, key : tenant = s.tenant /\ key = <<tenant, u>>
  OBVIOUS
<1>1. PICK row : row = [tenant |-> tenant, subject |-> u, image |-> image]
  OBVIOUS
<1>2. PICK X : X = (db.avatars \ Pg!Q!GetAnalystAvatar(db, s, u)) \cup {row}
  OBVIOUS
<1>3. PICK p, q : p = Pg!PutAnalystAvatar(db, s, u, image) /\ q = Fake!PutAnalystAvatar(m, s, u, image)
  OBVIOUS
<1>4. PICK nd : nd = [db EXCEPT !.avatars = X]
  OBVIOUS
<1>5. p.err = "ok" /\ p.val = 0 /\ p.db = nd
  BY <1>0, <1>1, <1>2, <1>3, <1>4 DEF Pg!PutAnalystAvatar, Pg!Exec, Pg!mapErr, Pg!Q!PutAnalystAvatar, Pg!Q!Done
<1>6. PICK f : f = m.avatars
  OBVIOUS
<1>7. PICK Y, nm : Y = Fake!Put(f, key, image) /\ nm = [m EXCEPT !.avatars = Y]
  OBVIOUS
<1>8. q.err = "ok" /\ q.val = 0 /\ q.db = nm
  BY <1>0, <1>3, <1>6, <1>7 DEF Fake!PutAnalystAvatar, Fake!Answer
<1>9. AvatarsAlike(db.avatars, f) /\ PgOK(db) /\ DOMAIN db = PgFields /\ DOMAIN m = MemFields
  BY <1>6 DEF Alike, Own, PgOK
<1>10. AvatarsAlike(X, Y)
  <2>1. DOMAIN Y = DOMAIN f \cup {key} /\ Y[key] = image /\ \A k \in DOMAIN f \ {key} : Y[k] = f[k]
    BY <1>7 DEF Fake!Put
  <2>2. \A r : r \in X <=> r = row \/ (r \in db.avatars /\ ~(r.tenant = tenant /\ r.subject = u))
    BY <1>0, <1>2 DEF Pg!Q!GetAnalystAvatar, Pg!Q!InTenant
  <2>3. ASSUME NEW r \in X
        PROVE  /\ r = [tenant |-> r.tenant, subject |-> r.subject, image |-> r.image]
               /\ <<r.tenant, r.subject>> \in DOMAIN Y /\ Y[<<r.tenant, r.subject>>] = r.image
    <3>1. CASE r = row
      BY <1>0, <1>1, <2>1, <3>1
    <3>2. CASE r # row
      <4>1. r \in db.avatars /\ <<r.tenant, r.subject>> # key
        BY <1>0, <2>2, <3>2
      <4>. QED BY <1>9, <2>1, <4>1 DEF AvatarsAlike
    <3>. QED BY <3>1, <3>2
  <2>4. ASSUME NEW k \in DOMAIN Y PROVE \E r \in X : k = <<r.tenant, r.subject>>
    <3>1. CASE k = key
      BY <1>0, <1>1, <2>2, <3>1
    <3>2. CASE k # key
      <4>1. PICK r \in db.avatars : k = <<r.tenant, r.subject>>
        BY <1>9, <2>1, <3>2 DEF AvatarsAlike
      <4>2. r \in X
        BY <1>0, <2>2, <3>2, <4>1
      <4>. QED BY <4>1, <4>2
    <3>. QED BY <3>1, <3>2
  <2>. QED BY <2>3, <2>4 DEF AvatarsAlike
<1>11. PgOK(nd)
  BY <1>3, <1>5, <1>9, TenantWritesKeep DEF Keeps
<1>12. nd.avatars = X /\ \A h \in PgFields \ {"avatars"} : nd[h] = db[h]
  BY <1>4, <1>9 DEF PgFields, TenantTables
<1>13. nm.avatars = Y /\ DOMAIN nm = MemFields /\ \A h \in MemFields \ {"avatars"} : nm[h] = m[h]
  BY <1>7, <1>9 DEF MemFields
<1>14. Own(nd, nm) /\ RestoredSame(m, nm) /\ nm.nextNotice = m.nextNotice
  BY <1>10, <1>12, <1>13 DEF Alike, Own, SettingsAlike, RestoredSame, PgFields, DisputeTables, NumberedTables, TenantTables, MemFields
<1>15. Alike(nd, nm) /\ \A x, id : Pg!Q!Sees(db, x, id) => Pg!Q!Sees(nd, x, id)
  BY <1>11, <1>12, <1>13, <1>14, OwnWrite
<1>. QED BY <1>3, <1>5, <1>8, <1>15 DEF SameLast, Said

-----------------------------------------------------------------------------
(* Questionnaires *)

LEMMA OfSeen ==
  ASSUME NEW db, NEW s, NEW id, Pg!Q!Sees(db, s, id), NEW rows, NEW r
  PROVE  r \in Pg!Q!Of(db, s, rows, id) <=> r \in rows /\ r.dispute = id
BY DEF Pg!Q!Of

LEMMA GetQuestionnaireSame ==
  ASSUME NEW db, NEW m, Alike(db, m), NEW s, NEW id, Pg!Q!Sees(db, s, id)
  PROVE  /\ Same(db, m, Pg!GetQuestionnaire(db, s, id), Fake!GetQuestionnaire(m, s, id))
         /\ IF id \in DOMAIN m.questions
            THEN /\ Pg!Q!GetQuestionnaire(db, s, id) = {m.questions[id]}
                 /\ Fake!GetQuestionnaire(m, s, id) = Fake!Answer(m, m.questions[id])
            ELSE /\ Pg!Q!GetQuestionnaire(db, s, id) = {}
                 /\ Fake!GetQuestionnaire(m, s, id) = Fake!Failure(m, "notfound")
<1>1. PICK f : f = m.questions /\ QuestionsAlike(db.questionnaires, f)
  BY DEF Alike, Restored
<1>2. PICK S : S = Pg!Q!GetQuestionnaire(db, s, id)
  OBVIOUS
<1>3. \A r : r \in S <=> r \in db.questionnaires /\ r.dispute = id
  BY <1>2, OfSeen DEF Pg!Q!GetQuestionnaire
<1>4. IF id \in DOMAIN f THEN S = {f[id]} ELSE S = {}
  BY <1>1, <1>3 DEF QuestionsAlike
<1>5. PICK q : q = Fake!GetQuestionnaire(m, s, id)
  OBVIOUS
<1>6. q = IF id \in DOMAIN f THEN Fake!Answer(m, f[id]) ELSE Fake!Failure(m, "notfound")
  BY <1>1, <1>5, WithinAnswers DEF Fake!GetQuestionnaire, Fake!Lookup
<1>7. q.db = m /\ IF id \in DOMAIN f THEN q.err = "ok" /\ q.val = f[id] ELSE q.err = "notfound"
  BY <1>6 DEF Fake!Answer, Fake!Failure
<1>8. Same(db, m, Pg!One(db, S), q)
  BY <1>4, <1>7, OneSame
<1>. QED BY <1>1, <1>2, <1>4, <1>5, <1>6, <1>8 DEF Pg!GetQuestionnaire

LEMMA SendQuestionnaireSame ==
  ASSUME NEW db, NEW m, Alike(db, m), NEW s, NEW id, Pg!Q!Sees(db, s, id), NEW q
  PROVE  Same(db, m, Pg!SendQuestionnaire(db, s, id, q), Fake!SendQuestionnaire(m, s, id, q))
<1>1. PICK row : row = [dispute |-> id, asked |-> q, answers |-> {}]
  OBVIOUS
<1>2. PICK X : X = {r \in db.questionnaires : r.dispute # id} \cup {row}
  OBVIOUS
<1>3. PICK p, a : p = Pg!SendQuestionnaire(db, s, id, q) /\ a = Fake!SendQuestionnaire(m, s, id, q)
  OBVIOUS
<1>4. PICK nd : nd = [db EXCEPT !.questionnaires = X]
  OBVIOUS
<1>5. p.err = "ok" /\ p.val = 0 /\ p.db = nd
  BY <1>1, <1>2, <1>3, <1>4 DEF Pg!SendQuestionnaire, Pg!Exec, Pg!mapErr, Pg!Q!UpsertQuestionnaire, Pg!Q!Done
<1>6. PICK f : f = m.questions /\ QuestionsAlike(db.questionnaires, f)
  BY DEF Alike, Restored
<1>7. PICK Y, nm : Y = Fake!Put(f, id, row) /\ nm = [m EXCEPT !.questions = Y]
  OBVIOUS
<1>8. a = Fake!Answer(nm, 0)
  BY <1>1, <1>3, <1>6, <1>7, WithinAnswers DEF Fake!SendQuestionnaire
<1>9. a.err = "ok" /\ a.val = 0 /\ a.db = nm
  BY <1>8 DEF Fake!Answer
<1>10. QuestionsAlike(X, Y)
  <2>1. DOMAIN Y = DOMAIN f \cup {id} /\ Y[id] = row /\ \A i \in DOMAIN f \ {id} : Y[i] = f[i]
    BY <1>7 DEF Fake!Put
  <2>2. row.dispute = id /\ DOMAIN row = {"dispute", "asked", "answers"}
    BY <1>1
  <2>3. \A r \in X : r = row \/ (r \in db.questionnaires /\ r.dispute # id)
    BY <1>2
  <2>4. \A r \in X : DOMAIN r = {"dispute", "asked", "answers"} /\ r.dispute \in DOMAIN Y /\ Y[r.dispute] = r
    BY <1>6, <2>1, <2>2, <2>3 DEF QuestionsAlike
  <2>5. \A i \in DOMAIN Y : Y[i] \in X /\ Y[i].dispute = i
    BY <1>2, <1>6, <2>1, <2>2 DEF QuestionsAlike
  <2>. QED BY <2>4, <2>5 DEF QuestionsAlike
<1>11. PgOK(nd)
  BY <1>3, <1>5, SendQuestionnaireKeeps DEF Keeps, Alike
<1>12. Holds(db, m, nd, nm)
  BY <1>4, <1>7, <1>10, <1>11, QuestionsWrite
<1>. QED BY <1>3, <1>5, <1>9, <1>12 DEF Same, Said

LEMMA AnswerQuestionnaireSame ==
  ASSUME NEW db, NEW m, Alike(db, m), NEW s, NEW id, Pg!Q!Sees(db, s, id), NEW x
  PROVE  Same(db, m, Pg!AnswerQuestionnaire(db, s, id, x), Fake!AnswerQuestionnaire(m, s, id, x))
<1>1. PICK f : f = m.questions /\ QuestionsAlike(db.questionnaires, f)
  BY DEF Alike, Restored
<1>2. PICK rows : rows = {r \in Pg!Q!GetQuestionnaire(db, s, id) : r.answers = {}}
  OBVIOUS
<1>3. PICK changed : changed = {[r EXCEPT !.answers = {x}] : r \in rows}
  OBVIOUS
<1>4. PICK nd : nd = [db EXCEPT !.questionnaires = (@ \ rows) \cup changed]
  OBVIOUS
<1>5. PICK p, q : p = Pg!AnswerQuestionnaire(db, s, id, x) /\ q = Fake!AnswerQuestionnaire(m, s, id, x)
  OBVIOUS
<1>6. p.db = nd /\ p.err = (IF Cardinality(rows) = 0 THEN "notfound" ELSE "ok") /\ p.val = 0
  <2>1. Pg!Q!AnswerQuestionnaire(db, s, id, x) = [code |-> "00000", db |-> nd, n |-> Cardinality(rows)]
    BY <1>2, <1>3, <1>4, Sizes DEF Pg!Q!AnswerQuestionnaire, Pg!Q!Done
  <2>. QED BY <1>5, <2>1 DEF Pg!AnswerQuestionnaire, Pg!Touched, Pg!Failure, Pg!Exec, Pg!mapErr
<1>7. PgOK(nd)
  BY <1>5, <1>6, AnswerQuestionnaireKeeps DEF Keeps, Alike
<1>8. IF id \in DOMAIN f
      THEN Pg!Q!GetQuestionnaire(db, s, id) = {f[id]} /\ Fake!GetQuestionnaire(m, s, id) = Fake!Answer(m, f[id])
      ELSE Pg!Q!GetQuestionnaire(db, s, id) = {} /\ Fake!GetQuestionnaire(m, s, id) = Fake!Failure(m, "notfound")
  BY <1>1, GetQuestionnaireSame
<1>9. CASE ~(id \in DOMAIN f /\ f[id].answers = {})
  <2>1. rows = {}
    BY <1>2, <1>8, <1>9
  <2>2. Cardinality(rows) = 0 /\ changed = {}
    BY <1>3, <2>1, FS_EmptySet
  <2>3. (db.questionnaires \ rows) \cup changed = db.questionnaires
    BY <2>1, <2>2
  <2>4. \A h \in PgFields : nd[h] = db[h]
    BY <1>4, <2>3 DEF Alike, PgOK
  <2>5. Holds(db, m, nd, m)
    BY <1>7, <2>4, SameTables
  <2>6. q.err = "notfound" /\ q.db = m
    BY <1>5, <1>8, <1>9 DEF Fake!AnswerQuestionnaire, Fake!Answer, Fake!Failure
  <2>. QED BY <1>5, <1>6, <2>2, <2>5, <2>6 DEF Same, Said
<1>10. CASE id \in DOMAIN f /\ f[id].answers = {}
  <2>1. PICK d : d = f[id]
    OBVIOUS
  <2>2. rows = {d} /\ d \in db.questionnaires /\ d.dispute = id /\ DOMAIN d = {"dispute", "asked", "answers"}
    BY <1>1, <1>2, <1>8, <1>10, <2>1 DEF QuestionsAlike
  <2>3. PICK e : e = [d EXCEPT !.answers = {x}]
    OBVIOUS
  <2>4. DOMAIN e = {"dispute", "asked", "answers"} /\ e.dispute = id
    BY <2>2, <2>3
  <2>5. changed = {e} /\ Cardinality(rows) = 1
    <3>1. changed = {e}
      BY <1>3, <2>2, <2>3
    <3>2. Cardinality(rows) = 1
      BY <2>2, FS_Singleton
    <3>. QED BY <3>1, <3>2
  <2>6. PICK X, Y, nm : X = (db.questionnaires \ {d}) \cup {e} /\ Y = [f EXCEPT ![id] = e] /\ nm = [m EXCEPT !.questions = Y]
    OBVIOUS
  <2>7. nd = [db EXCEPT !.questionnaires = X]
    BY <1>4, <2>2, <2>5, <2>6
  <2>8. q = Fake!Answer(nm, 0)
    <3>1. Fake!GetQuestionnaire(m, s, id).err = "ok" /\ Fake!GetQuestionnaire(m, s, id).val.answers = {}
      BY <1>8, <1>10 DEF Fake!Answer
    <3>2. [m EXCEPT !.questions[id].answers = {x}] = nm
      BY <1>1, <2>1, <2>3, <2>6
    <3>. QED BY <1>5, <3>1, <3>2 DEF Fake!AnswerQuestionnaire
  <2>9. q.err = "ok" /\ q.val = 0 /\ q.db = nm
    BY <2>8 DEF Fake!Answer
  <2>10. QuestionsAlike(X, Y)
    <3>1. DOMAIN Y = DOMAIN f /\ Y[id] = e /\ \A i \in DOMAIN f \ {id} : Y[i] = f[i]
      BY <1>10, <2>6
    <3>2. ASSUME NEW r \in X
          PROVE DOMAIN r = {"dispute", "asked", "answers"} /\ r.dispute \in DOMAIN Y /\ Y[r.dispute] = r
      <4>1. CASE r = e
        BY <1>10, <2>4, <3>1, <4>1
      <4>2. CASE r # e
        <5>1. r \in db.questionnaires /\ r # d
          BY <2>6, <4>2
        <5>2. r.dispute # id
          BY <1>1, <2>1, <5>1 DEF QuestionsAlike
        <5>. QED BY <1>1, <3>1, <5>1, <5>2 DEF QuestionsAlike
      <4>. QED BY <4>1, <4>2
    <3>3. ASSUME NEW i \in DOMAIN Y PROVE Y[i] \in X /\ Y[i].dispute = i
      <4>1. CASE i = id
        BY <2>4, <2>6, <3>1, <4>1
      <4>2. CASE i # id
        BY <1>1, <2>2, <2>6, <3>1, <4>2 DEF QuestionsAlike
      <4>. QED BY <4>1, <4>2
    <3>. QED BY <3>2, <3>3 DEF QuestionsAlike
  <2>11. Holds(db, m, nd, nm)
    BY <1>7, <2>6, <2>7, <2>10, QuestionsWrite
  <2>. QED BY <1>5, <1>6, <2>5, <2>9, <2>11 DEF Same, Said
<1>. QED BY <1>9, <1>10

-----------------------------------------------------------------------------
(* Attachments *)

LEMMA FileReadsSame ==
  ASSUME NEW db, NEW m, Alike(db, m), NEW s, NEW id, Pg!Q!Sees(db, s, id), NEW notices, NEW x
  PROVE  /\ Same(db, m, Pg!ListAttachmentMeta(db, s, id, notices), Fake!ListAttachmentMeta(m, s, id, notices))
         /\ Same(db, m, Pg!GetAttachment(db, s, id, x), Fake!GetAttachment(m, s, id, x))
<1>1. PICK f : f = m.files /\ FilesAlike(db.files, f)
  BY DEF Alike, Restored
<1>2. Fake!Elements(f) = db.files
  BY <1>1 DEF FilesAlike, Fake!Elements
<1>3. Same(db, m, Pg!ListAttachmentMeta(db, s, id, notices), Fake!ListAttachmentMeta(m, s, id, notices))
  <2>1. Pg!Q!ListAttachmentMeta(db, s, id, notices) = {r \in db.files : r.dispute = id /\ r.notice \in notices \cup {0}}
    BY OfSeen DEF Pg!Q!ListAttachmentMeta
  <2>. QED BY <1>1, <1>2, <2>1, AnswersSame DEF Pg!ListAttachmentMeta, Fake!ListAttachmentMeta
<1>4. Same(db, m, Pg!GetAttachment(db, s, id, x), Fake!GetAttachment(m, s, id, x))
  <2>1. PICK S, q : S = Pg!Q!GetAttachment(db, s, id, x) /\ q = Fake!GetAttachment(m, s, id, x)
    OBVIOUS
  <2>2. \A r : r \in S <=> r \in db.files /\ r.dispute = id /\ r.id = x
    BY <2>1, OfSeen DEF Pg!Q!GetAttachment
  <2>3. IF x \in DOMAIN f /\ f[x].dispute = id THEN S = {f[x]} ELSE S = {}
    BY <1>1, <2>2 DEF FilesAlike
  <2>4. q.db = m /\ IF x \in DOMAIN f /\ f[x].dispute = id THEN q.err = "ok" /\ q.val = f[x] ELSE q.err = "notfound"
    BY <1>1, <2>1 DEF Fake!GetAttachment, Fake!Answer, Fake!Failure
  <2>. QED BY <2>1, <2>3, <2>4, OneSame DEF Pg!GetAttachment
<1>. QED BY <1>3, <1>4

LEMMA NoticeAttachmentsSame ==
  ASSUME NEW db, NEW m, Alike(db, m), NEW n \in Ids
  PROVE  Same(db, m, Pg!NoticeAttachments(db, n), Fake!NoticeAttachments(m, n))
<1>1. PICK f : f = m.files /\ FilesAlike(db.files, f)
  BY DEF Alike, Restored
<1>2. Fake!Elements(f) = db.files /\ n # 0
  BY <1>1, StoreAssumption DEF FilesAlike, Fake!Elements
<1>3. {g \in Fake!Elements(f) : g.notice = n /\ g.notice # 0} = Pg!Q!NoticeAttachments(db, n)
  BY <1>2 DEF Pg!Q!NoticeAttachments
<1>. QED BY <1>1, <1>3, AnswersSame DEF Pg!NoticeAttachments, Fake!NoticeAttachments

LEMMA InsertAttachmentSame ==
  ASSUME NEW db, NEW m, Alike(db, m), NEW s, NEW id, Pg!Q!Sees(db, s, id), NEW x, NEW t, \A r \in db.files : r.id # x
  PROVE  Same(db, m, Pg!InsertAttachment(db, s, id, x, t), Fake!InsertAttachment(m, s, id, x, t))
<1>1. PICK row : row = [id |-> x, dispute |-> id, notice |-> 0, at |-> t]
  OBVIOUS
<1>2. PICK X : X = db.files \cup {row}
  OBVIOUS
<1>3. PICK p, a : p = Pg!InsertAttachment(db, s, id, x, t) /\ a = Fake!InsertAttachment(m, s, id, x, t)
  OBVIOUS
<1>4. PICK nd : nd = [db EXCEPT !.files = X]
  OBVIOUS
<1>5. p.err = "ok" /\ p.val = 0 /\ p.db = nd
  BY <1>1, <1>2, <1>3, <1>4 DEF Pg!InsertAttachment, Pg!Exec, Pg!mapErr, Pg!Q!InsertAttachment, Pg!Q!Done
<1>6. PICK f : f = m.files /\ FilesAlike(db.files, f)
  BY DEF Alike, Restored
<1>7. PICK Y, nm : Y = Fake!Put(f, x, row) /\ nm = [m EXCEPT !.files = Y]
  OBVIOUS
<1>8. a = Fake!Answer(nm, 0)
  BY <1>1, <1>3, <1>6, <1>7, WithinAnswers DEF Fake!InsertAttachment
<1>9. a.err = "ok" /\ a.val = 0 /\ a.db = nm
  BY <1>8 DEF Fake!Answer
<1>10. FilesAlike(X, Y)
  <2>1. DOMAIN Y = DOMAIN f \cup {x} /\ Y[x] = row /\ \A i \in DOMAIN f \ {x} : Y[i] = f[i]
    BY <1>7 DEF Fake!Put
  <2>2. row.id = x /\ DOMAIN row = {"id", "dispute", "notice", "at"}
    BY <1>1
  <2>3. IsFiniteSet(X)
    BY <1>2, <1>6, FS_AddElement DEF FilesAlike
  <2>4. \A r \in X : DOMAIN r = {"id", "dispute", "notice", "at"} /\ r.id \in DOMAIN Y /\ Y[r.id] = r
    BY <1>2, <1>6, <2>1, <2>2 DEF FilesAlike
  <2>5. \A i \in DOMAIN Y : Y[i] \in X /\ Y[i].id = i
    BY <1>2, <1>6, <2>1, <2>2 DEF FilesAlike
  <2>. QED BY <2>3, <2>4, <2>5 DEF FilesAlike
<1>11. PgOK(nd)
  BY <1>3, <1>5, InsertAttachmentKeeps DEF Keeps, Alike
<1>12. Holds(db, m, nd, nm)
  BY <1>4, <1>7, <1>10, <1>11, FilesWrite
<1>. QED BY <1>3, <1>5, <1>9, <1>12 DEF Same, Said

\* Two sets in one-to-one correspondence have a size.
LEMMA SameSize ==
  ASSUME NEW S, IsFiniteSet(S), NEW T, NEW f \in [S -> T],
         \A x, y \in S : f[x] = f[y] => x = y, \A t \in T : \E x \in S : f[x] = t
  PROVE  IsFiniteSet(T) /\ Cardinality(T) = Cardinality(S)
<1>1. f \in Bijection(S, T)
  BY DEF Bijection, Injection, Surjection, IsInjective
<1>. QED BY <1>1, FS_Bijection DEF ExistsBijection

LEMMA ClaimAttachmentsSame ==
  ASSUME NEW db, NEW m, Alike(db, m), NEW s, NEW id, Pg!Q!Sees(db, s, id), NEW n, NEW ids
  PROVE  Same(db, m, Pg!ClaimAttachments(db, s, id, n, ids), Fake!ClaimAttachments(m, s, id, n, ids))
<1>1. PICK rows : rows = {f \in Pg!Q!Of(db, s, db.files, id) : f.notice = 0 /\ f.id \in ids}
  OBVIOUS
<1>2. PICK new, changed : /\ new = [f \in rows |-> [f EXCEPT !.notice = n]]
                          /\ changed = {new[f] : f \in rows}
  OBVIOUS
<1>3. PICK X : X = (db.files \ rows) \cup changed
  OBVIOUS
<1>4. PICK nd : nd = [db EXCEPT !.files = X]
  OBVIOUS
<1>5. PICK p, q : p = Pg!ClaimAttachments(db, s, id, n, ids) /\ q = Fake!ClaimAttachments(m, s, id, n, ids)
  OBVIOUS
<1>6. p.db = nd /\ p.err = "ok" /\ p.val = Cardinality(rows)
  <2>1. Pg!Q!ClaimAttachments(db, s, id, n, ids) = [code |-> "00000", db |-> nd, n |-> Cardinality(rows)]
    BY <1>1, <1>2, <1>3, <1>4, Sizes DEF Pg!Q!ClaimAttachments, Pg!Q!Done
  <2>. QED BY <1>5, <2>1 DEF Pg!ClaimAttachments, Pg!Counted, Pg!Exec, Pg!mapErr
<1>7. PICK f : f = m.files /\ FilesAlike(db.files, f)
  BY DEF Alike, Restored
<1>8. PICK mine : mine = {i \in ids \cap DOMAIN f : f[i].notice = 0 /\ f[i].dispute = id}
  OBVIOUS
<1>9. PICK Y, nm : Y = [i \in DOMAIN f |-> IF i \in mine THEN [f[i] EXCEPT !.notice = n] ELSE f[i]] /\ nm = [m EXCEPT !.files = Y]
  OBVIOUS
<1>10. q = Fake!Answer(nm, Cardinality(mine))
  <2>1. q = Fake!Answer(nm, Fake!Cardinality(mine))
    BY <1>5, <1>7, <1>8, <1>9 DEF Fake!ClaimAttachments
  <2>. QED BY <2>1, Sizes
<1>11. q.db = nm /\ q.err = "ok" /\ q.val = Cardinality(mine)
  BY <1>10 DEF Fake!Answer
<1>12. \A r : r \in rows <=> r \in db.files /\ r.dispute = id /\ r.notice = 0 /\ r.id \in ids
  BY <1>1, OfSeen
<1>13. \A r \in db.files : r \in rows <=> r.id \in mine
  BY <1>7, <1>8, <1>12 DEF FilesAlike
<1>14. IsFiniteSet(rows)
  <2>1. rows \in SUBSET db.files
    BY <1>12
  <2>. QED BY <1>7, <2>1, FS_Subset DEF FilesAlike
<1>15. Cardinality(mine) = Cardinality(rows)
  <2>1. PICK g : g = [r \in rows |-> r.id]
    OBVIOUS
  <2>2. g \in [rows -> mine]
    BY <1>12, <1>13, <2>1
  <2>3. \A x, y \in rows : g[x] = g[y] => x = y
    BY <1>7, <1>12, <2>1 DEF FilesAlike
  <2>4. ASSUME NEW i \in mine PROVE \E x \in rows : g[x] = i
    <3>1. f[i] \in db.files /\ f[i].id = i
      BY <1>7, <1>8 DEF FilesAlike
    <3>2. f[i] \in rows
      BY <1>13, <3>1
    <3>. QED BY <2>1, <3>1, <3>2
  <2>. QED BY <1>14, <2>2, <2>3, <2>4, SameSize
<1>16. FilesAlike(X, Y)
  <2>1. IsFiniteSet(X)
    <3>1. IsFiniteSet(changed)
      <4>1. new \in Surjection(rows, changed)
        BY <1>2 DEF Surjection
      <4>. QED BY <1>14, <4>1, FS_Surjection
    <3>2. IsFiniteSet(db.files \ rows)
      BY <1>7, FS_Difference DEF FilesAlike
    <3>. QED BY <1>3, <3>1, <3>2, FS_Union
  <2>2. \A r \in rows : new[r].id = r.id /\ DOMAIN new[r] = {"id", "dispute", "notice", "at"} /\ new[r] = [r EXCEPT !.notice = n]
    BY <1>2, <1>7, <1>12 DEF FilesAlike
  <2>3. ASSUME NEW r \in X PROVE DOMAIN r = {"id", "dispute", "notice", "at"} /\ r.id \in DOMAIN Y /\ Y[r.id] = r
    <3>1. CASE r \in changed
      <4>1. PICK o \in rows : r = new[o]
        BY <1>2, <3>1
      <4>2. o \in db.files /\ o.id \in mine /\ o.id \in DOMAIN f /\ f[o.id] = o
        BY <1>7, <1>12, <1>13, <4>1 DEF FilesAlike
      <4>. QED BY <1>9, <2>2, <4>1, <4>2
    <3>2. CASE r \notin changed
      <4>1. r \in db.files /\ r.id \notin mine
        BY <1>3, <1>13, <3>2
      <4>. QED BY <1>7, <1>9, <4>1 DEF FilesAlike
    <3>. QED BY <3>1, <3>2
  <2>4. ASSUME NEW i \in DOMAIN Y PROVE Y[i] \in X /\ Y[i].id = i
    <3>0. i \in DOMAIN f /\ f[i] \in db.files /\ f[i].id = i
      BY <1>7, <1>9 DEF FilesAlike
    <3>1. CASE i \in mine
      <4>1. f[i] \in rows
        BY <1>13, <3>0, <3>1
      <4>2. Y[i] = new[f[i]]
        BY <1>9, <2>2, <3>0, <3>1, <4>1
      <4>. QED BY <1>2, <1>3, <2>2, <3>0, <4>1, <4>2
    <3>2. CASE i \notin mine
      BY <1>3, <1>9, <1>13, <3>0, <3>2
    <3>. QED BY <3>1, <3>2
  <2>. QED BY <2>1, <2>3, <2>4 DEF FilesAlike
<1>17. PgOK(nd)
  BY <1>5, <1>6, ClaimAttachmentsKeeps DEF Keeps, Alike
<1>18. Holds(db, m, nd, nm)
  BY <1>4, <1>9, <1>16, <1>17, FilesWrite
<1>. QED BY <1>5, <1>6, <1>11, <1>15, <1>18 DEF Same, Said

LEMMA PurgeDraftAttachmentsSame ==
  ASSUME NEW db, NEW m, Alike(db, m), NEW t
  PROVE  Same(db, m, Pg!PurgeDraftAttachments(db, t), Fake!PurgeDraftAttachments(m, t))
<1>1. PICK rows : rows = {f \in db.files : f.notice = 0 /\ f.at < t}
  OBVIOUS
<1>2. PICK X, nd : X = db.files \ rows /\ nd = [db EXCEPT !.files = X]
  OBVIOUS
<1>3. PICK p, q : p = Pg!PurgeDraftAttachments(db, t) /\ q = Fake!PurgeDraftAttachments(m, t)
  OBVIOUS
<1>4. p.db = nd /\ p.err = "ok" /\ p.val = Cardinality(rows)
  <2>1. Pg!Q!PurgeDraftAttachments(db, t) = [code |-> "00000", db |-> nd, n |-> Cardinality(rows)]
    BY <1>1, <1>2, Sizes DEF Pg!Q!PurgeDraftAttachments, Pg!Q!Done
  <2>. QED BY <1>3, <2>1 DEF Pg!PurgeDraftAttachments, Pg!Counted, Pg!Exec, Pg!mapErr
<1>5. PICK f : f = m.files /\ FilesAlike(db.files, f)
  BY DEF Alike, Restored
<1>6. PICK old : old = {i \in DOMAIN f : f[i].notice = 0 /\ f[i].at < t}
  OBVIOUS
<1>7. PICK Y, nm : Y = Fake!Without(f, old) /\ nm = [m EXCEPT !.files = Y]
  OBVIOUS
<1>8. q.db = nm /\ q.err = "ok" /\ q.val = Cardinality(old)
  <2>1. q = Fake!Answer(nm, Fake!Cardinality(old))
    BY <1>3, <1>5, <1>6, <1>7 DEF Fake!PurgeDraftAttachments
  <2>. QED BY <2>1, Sizes DEF Fake!Answer
<1>9. \A r \in db.files : r \in rows <=> r.id \in old
  BY <1>1, <1>5, <1>6 DEF FilesAlike
<1>10. IsFiniteSet(rows) /\ IsFiniteSet(X)
  <2>1. rows \in SUBSET db.files /\ X \in SUBSET db.files
    BY <1>1, <1>2
  <2>. QED BY <1>5, <2>1, FS_Subset DEF FilesAlike
<1>11. Cardinality(old) = Cardinality(rows)
  <2>1. PICK g : g = [r \in rows |-> r.id]
    OBVIOUS
  <2>2. g \in [rows -> old]
    BY <1>1, <1>9, <2>1
  <2>3. \A x, y \in rows : g[x] = g[y] => x = y
    BY <1>1, <1>5, <2>1 DEF FilesAlike
  <2>4. ASSUME NEW i \in old PROVE \E x \in rows : g[x] = i
    <3>1. f[i] \in db.files /\ f[i].id = i
      BY <1>5, <1>6 DEF FilesAlike
    <3>2. f[i] \in rows
      BY <1>9, <3>1
    <3>. QED BY <2>1, <3>1, <3>2
  <2>. QED BY <1>10, <2>2, <2>3, <2>4, SameSize
<1>12. FilesAlike(X, Y)
  <2>1. DOMAIN Y = DOMAIN f \ old /\ \A i \in DOMAIN Y : Y[i] = f[i]
    BY <1>7 DEF Fake!Without
  <2>2. \A r \in X : DOMAIN r = {"id", "dispute", "notice", "at"} /\ r.id \in DOMAIN Y /\ Y[r.id] = r
    BY <1>2, <1>5, <1>9, <2>1 DEF FilesAlike
  <2>3. \A i \in DOMAIN Y : Y[i] \in X /\ Y[i].id = i
    BY <1>2, <1>5, <1>9, <2>1 DEF FilesAlike
  <2>. QED BY <1>10, <2>2, <2>3 DEF FilesAlike
<1>13. PgOK(nd)
  <2>0. PgOK(db)
    BY DEF Alike
  <2>1. DOMAIN nd = PgFields /\ nd.files = X /\ \A h \in PgFields \ {"files"} : nd[h] = db[h]
    BY <1>2, <2>0 DEF PgOK, PgFields, DisputeTables
  <2>2. \A h \in {"disputes"} \cup NumberedTables \cup (DisputeTables \ {"files"}) : nd[h] = db[h]
    BY <2>1 DEF PgFields, DisputeTables, NumberedTables
  <2>3. \A r \in nd.files : r \in db.files
    BY <1>2, <2>1
  <2>. QED BY <2>0, <2>1, <2>2, <2>3 DEF PgOK
<1>14. Holds(db, m, nd, nm)
  BY <1>2, <1>7, <1>12, <1>13, FilesWrite
<1>. QED BY <1>3, <1>4, <1>8, <1>11, <1>14 DEF Same, Said

-----------------------------------------------------------------------------
(* Idempotency keys *)

LEMMA GetIdempotentSame ==
  ASSUME NEW db, NEW m, Alike(db, m), NEW s, NEW scope, NEW key
  PROVE  Same(db, m, Pg!GetIdempotent(db, s, scope, key), Fake!GetIdempotent(m, s, scope, key))
<1>1. PICK f : f = m.idempotent /\ KeysAlike(db.keys, f)
  BY DEF Alike, Restored
<1>2. PICK k : k = <<s.tenant, scope, key>>
  OBVIOUS
<1>3. PICK S : S = {[hash |-> r.hash, at |-> r.at] : r \in Pg!Q!GetIdempotencyKey(db, s, scope, key)}
  OBVIOUS
<1>4. \A x : x \in S <=> \E r \in db.keys : r.tenant = s.tenant /\ r.scope = scope /\ r.key = key /\ x = [hash |-> r.hash, at |-> r.at]
  BY <1>3 DEF Pg!Q!GetIdempotencyKey, Pg!Q!InTenant
<1>5. \A x \in S : k \in DOMAIN f /\ x = f[k]
  BY <1>1, <1>2, <1>4 DEF KeysAlike, KeyOf
<1>6. k \in DOMAIN f => f[k] \in S
  <2>. SUFFICES ASSUME k \in DOMAIN f PROVE f[k] \in S
    OBVIOUS
  <2>1. PICK r \in db.keys : KeyOf(r) = k
    BY <1>1 DEF KeysAlike
  <2>2. r.tenant = s.tenant /\ r.scope = scope /\ r.key = key
    BY <1>2, <2>1 DEF KeyOf
  <2>3. f[k] = [hash |-> r.hash, at |-> r.at]
    BY <1>1, <2>1 DEF KeysAlike
  <2>. QED BY <1>4, <2>2, <2>3
<1>7. IF k \in DOMAIN f THEN S = {f[k]} ELSE S = {}
  BY <1>5, <1>6
<1>8. PICK q : q = Fake!GetIdempotent(m, s, scope, key)
  OBVIOUS
<1>9. q.db = m /\ IF k \in DOMAIN f THEN q.err = "ok" /\ q.val = f[k] ELSE q.err = "notfound"
  BY <1>1, <1>2, <1>8 DEF Fake!GetIdempotent, Fake!Lookup, Fake!Answer, Fake!Failure
<1>. QED BY <1>3, <1>7, <1>8, <1>9, OneSame DEF Pg!GetIdempotent

LEMMA PutIdempotentSame ==
  ASSUME NEW db, NEW m, Alike(db, m), NEW s, NEW scope, NEW key, NEW hash, NEW t,
         Pg!Q!GetIdempotencyKey(db, s, scope, key) = {}
  PROVE  Same(db, m, Pg!PutIdempotent(db, s, scope, key, hash, t), Fake!PutIdempotent(m, s, scope, key, hash, t))
<1>1. PICK f : f = m.idempotent /\ KeysAlike(db.keys, f)
  BY DEF Alike, Restored
<1>2. PICK k, v : k = <<s.tenant, scope, key>> /\ v = [hash |-> hash, at |-> t]
  OBVIOUS
<1>3. PICK row : row = [tenant |-> s.tenant, scope |-> scope, key |-> key, hash |-> hash, at |-> t]
  OBVIOUS
<1>4. PICK X, nd : X = db.keys \cup {row} /\ nd = [db EXCEPT !.keys = X]
  OBVIOUS
<1>5. PICK p, q : p = Pg!PutIdempotent(db, s, scope, key, hash, t) /\ q = Fake!PutIdempotent(m, s, scope, key, hash, t)
  OBVIOUS
<1>6. p.err = "ok" /\ p.val = 0 /\ p.db = nd
  BY <1>3, <1>4, <1>5 DEF Pg!PutIdempotent, Pg!Exec, Pg!mapErr, Pg!Q!InsertIdempotencyKey, Pg!Q!Done
<1>7. PICK Y, nm : Y = Fake!Put(f, k, v) /\ nm = [m EXCEPT !.idempotent = Y]
  OBVIOUS
<1>8. q.err = "ok" /\ q.val = 0 /\ q.db = nm
  BY <1>1, <1>2, <1>5, <1>7 DEF Fake!PutIdempotent, Fake!Answer
<1>9. KeyOf(row) = k /\ v = [hash |-> row.hash, at |-> row.at]
  BY <1>2, <1>3 DEF KeyOf
<1>10. \A r \in db.keys : KeyOf(r) # k
  BY <1>2 DEF KeyOf, Pg!Q!GetIdempotencyKey, Pg!Q!InTenant
<1>11. KeysAlike(X, Y)
  <2>1. DOMAIN Y = DOMAIN f \cup {k} /\ Y[k] = v /\ \A i \in DOMAIN f \ {k} : Y[i] = f[i]
    BY <1>7 DEF Fake!Put
  <2>2. IsFiniteSet(X)
    BY <1>1, <1>4, FS_AddElement DEF KeysAlike
  <2>3. \A r \in X : KeyOf(r) \in DOMAIN Y /\ Y[KeyOf(r)] = [hash |-> r.hash, at |-> r.at]
    BY <1>1, <1>4, <1>9, <1>10, <2>1 DEF KeysAlike
  <2>4. \A r, o \in X : KeyOf(r) = KeyOf(o) => r = o
    BY <1>1, <1>4, <1>9, <1>10 DEF KeysAlike
  <2>5. \A i \in DOMAIN Y : \E r \in X : KeyOf(r) = i
    BY <1>1, <1>4, <1>9, <2>1 DEF KeysAlike
  <2>. QED BY <2>2, <2>3, <2>4, <2>5 DEF KeysAlike
<1>12. PgOK(nd)
  BY <1>5, <1>6, PutIdempotentKeeps DEF Keeps, Alike
<1>13. Holds(db, m, nd, nm)
  BY <1>4, <1>7, <1>11, <1>12, KeysWrite
<1>. QED BY <1>5, <1>6, <1>8, <1>13 DEF Same, Said

LEMMA PurgeIdempotencyKeysSame ==
  ASSUME NEW db, NEW m, Alike(db, m), NEW t
  PROVE  Same(db, m, Pg!PurgeIdempotencyKeys(db, t), Fake!PurgeIdempotencyKeys(m, t))
<1>1. PICK rows : rows = {k \in db.keys : k.at < t}
  OBVIOUS
<1>2. PICK X, nd : X = db.keys \ rows /\ nd = [db EXCEPT !.keys = X]
  OBVIOUS
<1>3. PICK p, q : p = Pg!PurgeIdempotencyKeys(db, t) /\ q = Fake!PurgeIdempotencyKeys(m, t)
  OBVIOUS
<1>4. p.db = nd /\ p.err = "ok" /\ p.val = Cardinality(rows)
  <2>1. Pg!Q!PurgeIdempotencyKeys(db, t) = [code |-> "00000", db |-> nd, n |-> Cardinality(rows)]
    BY <1>1, <1>2, Sizes DEF Pg!Q!PurgeIdempotencyKeys, Pg!Q!Done
  <2>. QED BY <1>3, <2>1 DEF Pg!PurgeIdempotencyKeys, Pg!Counted, Pg!Exec, Pg!mapErr
<1>5. PICK f : f = m.idempotent /\ KeysAlike(db.keys, f)
  BY DEF Alike, Restored
<1>6. PICK old : old = {i \in DOMAIN f : f[i].at < t}
  OBVIOUS
<1>7. PICK Y, nm : Y = Fake!Without(f, old) /\ nm = [m EXCEPT !.idempotent = Y]
  OBVIOUS
<1>8. q.db = nm /\ q.err = "ok" /\ q.val = Cardinality(old)
  <2>1. q = Fake!Answer(nm, Fake!Cardinality(old))
    BY <1>3, <1>5, <1>6, <1>7 DEF Fake!PurgeIdempotencyKeys
  <2>. QED BY <2>1, Sizes DEF Fake!Answer
<1>9. ASSUME NEW r \in db.keys
      PROVE KeyOf(r) \in DOMAIN f /\ f[KeyOf(r)].at = r.at /\ f[KeyOf(r)] = [hash |-> r.hash, at |-> r.at]
  <2>1. KeyOf(r) \in DOMAIN f /\ f[KeyOf(r)] = [hash |-> r.hash, at |-> r.at]
    BY <1>5 DEF KeysAlike
  <2>. QED BY <2>1
<1>10. \A r \in db.keys : r \in rows <=> KeyOf(r) \in old
  BY <1>1, <1>6, <1>9
<1>11. IsFiniteSet(rows) /\ IsFiniteSet(X)
  <2>1. rows \in SUBSET db.keys /\ X \in SUBSET db.keys
    BY <1>1, <1>2
  <2>. QED BY <1>5, <2>1, FS_Subset DEF KeysAlike
<1>12. Cardinality(old) = Cardinality(rows)
  <2>1. PICK g : g = [r \in rows |-> KeyOf(r)]
    OBVIOUS
  <2>2. g \in [rows -> old]
    BY <1>1, <1>10, <2>1
  <2>3. \A x, y \in rows : g[x] = g[y] => x = y
    BY <1>1, <1>5, <2>1 DEF KeysAlike
  <2>4. ASSUME NEW i \in old PROVE \E x \in rows : g[x] = i
    <3>1. PICK r \in db.keys : KeyOf(r) = i
      BY <1>5, <1>6 DEF KeysAlike
    <3>2. r \in rows
      BY <1>10, <3>1
    <3>. QED BY <2>1, <3>1, <3>2
  <2>. QED BY <1>11, <2>2, <2>3, <2>4, SameSize
<1>13. KeysAlike(X, Y)
  <2>1. DOMAIN Y = DOMAIN f \ old /\ \A i \in DOMAIN Y : Y[i] = f[i]
    BY <1>7 DEF Fake!Without
  <2>2. \A r \in X : r \in db.keys /\ KeyOf(r) \notin old
    BY <1>2, <1>10
  <2>3. \A r \in X : KeyOf(r) \in DOMAIN Y /\ Y[KeyOf(r)] = [hash |-> r.hash, at |-> r.at]
    BY <1>9, <2>1, <2>2
  <2>4. \A i \in DOMAIN Y : \E r \in X : KeyOf(r) = i
    BY <1>2, <1>5, <1>10, <2>1 DEF KeysAlike
  <2>5. \A r, o \in X : KeyOf(r) = KeyOf(o) => r = o
    BY <1>5, <2>2 DEF KeysAlike
  <2>. QED BY <1>11, <2>3, <2>4, <2>5 DEF KeysAlike
<1>14. PgOK(nd)
  <2>1. "keys" \in PgFields \ ({"disputes"} \cup DisputeTables \cup NumberedTables)
    BY DEF PgFields, DisputeTables, NumberedTables, TenantTables
  <2>2. PgOK([db EXCEPT !["keys"] = X])
    BY <2>1, FieldOK DEF Alike
  <2>. QED BY <1>2, <2>2
<1>15. Holds(db, m, nd, nm)
  BY <1>2, <1>7, <1>13, <1>14, KeysWrite
<1>. QED BY <1>3, <1>4, <1>8, <1>12, <1>15 DEF Same, Said

-----------------------------------------------------------------------------
(* Events: a dispute's are numbered from one *)

LEMMA UpTo == ASSUME NEW n \in Nat PROVE IsFiniteSet(1 .. n) /\ Cardinality(1 .. n) = n
<1>1. IsFiniteSet(1 .. n) /\ Cardinality(1 .. n) = IF 1 > n THEN 0 ELSE n - 1 + 1
  BY FS_Interval
<1>. QED BY <1>1

EventsFor(rows, id) == {e \in rows : e.dispute = id}
EventAt(f, id, k) == [dispute |-> id, seq |-> k, to |-> f[id][k].to]

LEMMA EventsCounted ==
  ASSUME NEW rows, NEW f, EventsAlike(rows, f), NEW id \in Ids
  PROVE  /\ Len(f[id]) \in Nat /\ DOMAIN f[id] = 1 .. Len(f[id])
         /\ IsFiniteSet(EventsFor(rows, id)) /\ Cardinality(EventsFor(rows, id)) = Len(f[id])
         /\ \A k \in 1 .. Len(f[id]) : EventAt(f, id, k) \in EventsFor(rows, id) /\ f[id][k] = [seq |-> k, to |-> f[id][k].to]
         /\ \A r \in EventsFor(rows, id) : r.seq \in 1 .. Len(f[id]) /\ r = EventAt(f, id, r.seq)
         /\ \A k \in DOMAIN f[id] : f[id][k].seq = k
<1>1. PICK T, g : f[id] \in Seq(T) /\ g = f[id]
  BY DEF EventsAlike
<1>2. PICK n : n = Len(g) /\ n \in Nat /\ DOMAIN g = 1 .. n
  BY <1>1
<1>3. PICK E : E = EventsFor(rows, id)
  OBVIOUS
<1>4. \A k \in 1 .. n : EventAt(f, id, k) \in E /\ g[k] = [seq |-> k, to |-> g[k].to]
  BY <1>1, <1>2, <1>3 DEF EventsAlike, EventsFor, EventAt
<1>5. ASSUME NEW r \in E PROVE r.seq \in 1 .. n /\ r = EventAt(f, id, r.seq)
  <2>1. r \in rows /\ r.dispute = id
    BY <1>3 DEF EventsFor
  <2>2. r = [dispute |-> r.dispute, seq |-> r.seq, to |-> r.to] /\ r.seq \in DOMAIN f[id] /\ f[id][r.seq] = Pg!EventOf(r)
    BY <2>1 DEF EventsAlike
  <2>3. f[id][r.seq].to = r.to
    BY <2>2 DEF Pg!EventOf
  <2>4. r.seq \in 1 .. n
    BY <1>1, <1>2, <2>2
  <2>. QED BY <2>1, <2>2, <2>3, <2>4 DEF EventAt
<1>6. PICK D, h : D = 1 .. n /\ h = [k \in D |-> EventAt(f, id, k)]
  OBVIOUS
<1>7. \A k \in D : h[k].seq = k
  BY <1>6 DEF EventAt
<1>8. h \in [D -> E] /\ (\A x, y \in D : h[x] = h[y] => x = y) /\ \A r \in E : \E k \in D : h[k] = r
  <2>1. h \in [D -> E]
    BY <1>4, <1>6
  <2>2. \A x, y \in D : h[x] = h[y] => x = y
    BY <1>7
  <2>3. \A r \in E : \E k \in D : h[k] = r
    BY <1>5, <1>6
  <2>. QED BY <2>1, <2>2, <2>3
<1>9. IsFiniteSet(D) /\ Cardinality(D) = n
  BY <1>2, <1>6, UpTo
<1>10. IsFiniteSet(E) /\ Cardinality(E) = n
  BY <1>8, <1>9, SameSize
<1>11. ASSUME NEW k \in DOMAIN f[id] PROVE f[id][k].seq = k
  <2>1. PICK t : f[id][k] = [seq |-> k, to |-> t]
    BY <1>1, <1>2, <1>4
  <2>. QED BY <2>1
<1>. QED BY <1>1, <1>2, <1>3, <1>4, <1>5, <1>10, <1>11

LEMMA AppendEventSame ==
  ASSUME NEW db, NEW m, Alike(db, m), NEW s, NEW id \in Ids, Pg!Q!Sees(db, s, id), NEW seq \in 1 .. 2, NEW to,
         seq <= Cardinality({e \in db.events : e.dispute = id}) + 1
  PROVE  LET e == [seq |-> seq, to |-> to]
         IN Same(db, m, Pg!AppendEvent(db, s, id, e), Fake!AppendEvent(m, s, id, e))
<1>1. PICK f, g : f = m.events /\ EventsAlike(db.events, f) /\ g = f[id]
  BY DEF Alike, Restored
<1>2. PICK n : /\ n \in Nat /\ n = Len(g) /\ DOMAIN g = 1 .. n
               /\ Cardinality(EventsFor(db.events, id)) = n
               /\ \A k \in 1 .. n : EventAt(f, id, k) \in EventsFor(db.events, id) /\ g[k] = [seq |-> k, to |-> g[k].to]
               /\ \A r \in EventsFor(db.events, id) : r.seq \in 1 .. n /\ r = EventAt(f, id, r.seq)
               /\ \A k \in DOMAIN g : g[k].seq = k
  BY <1>1, EventsCounted
<1>3. PICK e : e = [seq |-> seq, to |-> to]
  OBVIOUS
<1>4. PICK p, q : p = Pg!AppendEvent(db, s, id, e) /\ q = Fake!AppendEvent(m, s, id, e)
  OBVIOUS
<1>5. seq <= n + 1
  BY <1>2 DEF EventsFor
<1>6. CASE seq \in 1 .. n
  <2>1. PICK r : r \in db.events /\ r.dispute = id /\ r.seq = seq
    <3>1. PICK r : r = EventAt(f, id, seq)
      OBVIOUS
    <3>2. r \in EventsFor(db.events, id)
      BY <1>2, <1>6, <3>1
    <3>3. r.seq = seq
      BY <3>1 DEF EventAt
    <3>. QED BY <3>2, <3>3 DEF EventsFor
  <2>2. p.err = "conflict" /\ p.db = db
    BY <1>3, <1>4, <2>1 DEF Pg!AppendEvent, Pg!Exec, Pg!mapErr, Pg!Q!InsertDisputeEvent, Pg!Q!Refused, Pg!Q!UniqueViolation
  <2>3. \E i \in DOMAIN m.events[id] : m.events[id][i].seq = e.seq
    <3>1. g[seq].seq = seq /\ seq \in DOMAIN g /\ e.seq = seq
      BY <1>2, <1>3, <1>6
    <3>. QED BY <1>1, <3>1
  <2>4. q.err = "conflict" /\ q.db = m
    BY <1>4, <2>3 DEF Fake!AppendEvent, Fake!Failure
  <2>. QED BY <1>3, <1>4, <2>2, <2>4, ReadSame DEF Said
<1>7. CASE seq \notin 1 .. n
  <2>0. seq = n + 1
    BY <1>2, <1>5, <1>7
  <2>1. PICK row : row = [dispute |-> id, seq |-> seq, to |-> to]
    OBVIOUS
  <2>2. \A r \in db.events : ~(r.dispute = id /\ r.seq = seq)
    BY <1>2, <1>7 DEF EventsFor
  <2>3. PICK X, nd : X = db.events \cup {row} /\ nd = [db EXCEPT !.events = X]
    OBVIOUS
  <2>4. p.err = "ok" /\ p.val = 0 /\ p.db = nd
    BY <1>3, <1>4, <2>1, <2>2, <2>3 DEF Pg!AppendEvent, Pg!Exec, Pg!mapErr, Pg!Q!InsertDisputeEvent, Pg!Q!Done
  <2>5. PICK a, Y, nm : a = Append(g, e) /\ Y = [f EXCEPT ![id] = a] /\ nm = [m EXCEPT !.events = Y]
    OBVIOUS
  <2>6. q.err = "ok" /\ q.val = 0 /\ q.db = nm
    <3>1. ~\E i \in DOMAIN m.events[id] : m.events[id][i].seq = e.seq
      <4>1. e.seq = seq /\ \A k \in DOMAIN g : g[k].seq = k
        BY <1>2, <1>3
      <4>. QED BY <1>1, <1>2, <1>7, <4>1
    <3>2. [m EXCEPT !.events[id] = Append(@, e)] = nm
      BY <1>1, <2>5
    <3>. QED BY <1>4, <3>1, <3>2 DEF Fake!AppendEvent, Fake!Answer
  <2>7. PICK T : g \in Seq(T)
    BY <1>1 DEF EventsAlike
  <2>8. /\ a \in Seq(T \cup {e}) /\ Len(a) = n + 1 /\ DOMAIN a = 1 .. n + 1 /\ a[n + 1] = e
        /\ \A k \in 1 .. n : a[k] = g[k]
    <3>1. g \in Seq(T \cup {e})
      BY <2>7
    <3>2. PICK U : U = T \cup {e} /\ e \in U
      OBVIOUS
    <3>. QED BY <1>2, <2>5, <3>1, <3>2
  <2>9. DOMAIN f = Ids /\ DOMAIN Y = Ids /\ Y[id] = a /\ \A i \in Ids \ {id} : Y[i] = f[i]
    BY <1>1, <2>5 DEF EventsAlike
  <2>10. EventsAlike(X, Y)
    <3>1. ASSUME NEW r \in X
          PROVE /\ r = [dispute |-> r.dispute, seq |-> r.seq, to |-> r.to] /\ r.dispute \in Ids
                /\ r.seq \in DOMAIN Y[r.dispute] /\ Y[r.dispute][r.seq] = Pg!EventOf(r)
      <4>1. CASE r = row
        BY <1>2, <1>3, <2>0, <2>1, <2>8, <2>9, <4>1 DEF Pg!EventOf
      <4>2. CASE r # row
        <5>1. r \in db.events
          BY <2>3, <4>2
        <5>2. /\ r = [dispute |-> r.dispute, seq |-> r.seq, to |-> r.to] /\ r.dispute \in Ids
              /\ r.seq \in DOMAIN f[r.dispute] /\ f[r.dispute][r.seq] = Pg!EventOf(r)
          BY <1>1, <5>1 DEF EventsAlike
        <5>3. CASE r.dispute = id
          <6>1. r.seq \in 1 .. n /\ r.seq \in 1 .. n + 1
            BY <1>1, <1>2, <5>2, <5>3
          <6>2. Y[r.dispute][r.seq] = f[r.dispute][r.seq] /\ r.seq \in DOMAIN Y[r.dispute]
            BY <1>1, <2>8, <2>9, <5>3, <6>1
          <6>. QED BY <5>2, <6>2
        <5>4. CASE r.dispute # id
          BY <2>9, <5>2, <5>4
        <5>. QED BY <5>3, <5>4
      <4>. QED BY <4>1, <4>2
    <3>2. ASSUME NEW i \in Ids
          PROVE /\ \E U : Y[i] \in Seq(U)
                /\ \A k \in DOMAIN Y[i] : /\ [dispute |-> i, seq |-> k, to |-> Y[i][k].to] \in X
                                          /\ Y[i][k] = [seq |-> k, to |-> Y[i][k].to]
      <4>1. CASE i = id
        <5>1. \E U : Y[i] \in Seq(U)
          BY <2>8, <2>9, <4>1
        <5>2. ASSUME NEW k \in DOMAIN Y[i]
              PROVE [dispute |-> i, seq |-> k, to |-> Y[i][k].to] \in X /\ Y[i][k] = [seq |-> k, to |-> Y[i][k].to]
          <6>1. k \in 1 .. n + 1 /\ Y[i][k] = a[k]
            BY <2>8, <2>9, <4>1, <5>2
          <6>2. CASE k = n + 1
            BY <1>3, <2>0, <2>1, <2>3, <2>8, <4>1, <6>1, <6>2
          <6>3. CASE k # n + 1
            <7>1. k \in 1 .. n
              BY <1>2, <6>1, <6>3
            <7>2. Y[i][k] = g[k] /\ EventAt(f, id, k) \in db.events /\ g[k] = [seq |-> k, to |-> g[k].to]
              BY <1>2, <2>8, <6>1, <7>1 DEF EventsFor
            <7>. QED BY <1>1, <2>3, <4>1, <7>2 DEF EventAt
          <6>. QED BY <6>2, <6>3
        <5>. QED BY <5>1, <5>2
      <4>2. CASE i # id
        <5>1. Y[i] = f[i]
          BY <2>9, <4>2
        <5>2. /\ \E U : f[i] \in Seq(U)
              /\ \A k \in DOMAIN f[i] : /\ [dispute |-> i, seq |-> k, to |-> f[i][k].to] \in db.events
                                        /\ f[i][k] = [seq |-> k, to |-> f[i][k].to]
          BY <1>1 DEF EventsAlike
        <5>. QED BY <2>3, <5>1, <5>2
      <4>. QED BY <4>1, <4>2
    <3>. QED BY <2>9, <3>1, <3>2 DEF EventsAlike
  <2>11. PgOK(nd)
    BY <1>4, <2>4, AppendEventKeeps DEF Keeps, Alike
  <2>12. Holds(db, m, nd, nm)
    BY <2>3, <2>5, <2>10, <2>11, EventsWrite
  <2>. QED BY <1>3, <1>4, <2>4, <2>6, <2>12 DEF Same, Said
<1>. QED BY <1>6, <1>7

LEMMA ListEventsSame ==
  ASSUME NEW db, NEW m, Alike(db, m), NEW s, NEW id \in Ids, Pg!Q!Sees(db, s, id)
  PROVE  Same(db, m, Pg!ListEvents(db, s, id), Fake!ListEvents(m, s, id))
<1>1. PICK f, g : f = m.events /\ EventsAlike(db.events, f) /\ g = f[id]
  BY DEF Alike, Restored
<1>2. PICK S : S = EventsFor(db.events, id)
  OBVIOUS
<1>3. PICK n : /\ n \in Nat /\ n = Len(g) /\ DOMAIN g = 1 .. n /\ IsFiniteSet(S) /\ Cardinality(S) = n
               /\ \A k \in 1 .. n : EventAt(f, id, k) \in S /\ g[k] = [seq |-> k, to |-> g[k].to]
               /\ \A r \in S : r.seq \in 1 .. n /\ r = EventAt(f, id, r.seq)
  BY <1>1, <1>2, EventsCounted
<1>4. PICK h : h = [k \in 1 .. n |-> EventAt(f, id, k)]
  OBVIOUS
<1>5. h \in [1 .. n -> S] /\ \A k \in 1 .. n : h[k].seq = k
  BY <1>3, <1>4 DEF EventAt
<1>. DEFINE P(l) == \A i, j \in DOMAIN l : i < j => l[i].seq < l[j].seq
<1>6. P(h)
  BY <1>5
<1>7. PICK l : l = Pg!Q!ListDisputeEvents(db, s, id)
  OBVIOUS
<1>8. l = CHOOSE x \in [1 .. n -> S] : P(x)
  <2>1. Pg!Q!Of(db, s, db.events, id) = S
    BY <1>2, OfSeen DEF EventsFor
  <2>2. Pg!Q!Cardinality(S) = n
    BY <1>3, Sizes
  <2>. QED BY <1>7, <2>1, <2>2, Zenon DEF Pg!Q!ListDisputeEvents, Pg!Q!BySeq, Pg!Q!OrderBy
<1>9. l \in [1 .. n -> S] /\ P(l)
  BY <1>5, <1>6, <1>8
<1>. DEFINE R == {p \in S \X S : p[1].seq < p[2].seq}
<1>10. \A x, y \in S : <<x, y>> \in R <=> x.seq < y.seq
  OBVIOUS
<1>11. Orders(R, S)
  <2>1. \A x, y \in S : x.seq \in Int /\ (x.seq = y.seq => x = y)
    BY <1>3
  <2>. HIDE DEF R
  <2>. QED BY <1>10, <2>1 DEF Orders
<1>12. InOrder(R, S, l) /\ InOrder(R, S, h)
  <2>. HIDE DEF R
  <2>. QED BY <1>3, <1>5, <1>6, <1>9, <1>10 DEF InOrder
<1>13. l = h
  <2>. HIDE DEF R
  <2>. QED BY <1>3, <1>11, <1>12, SortedOnce
<1>14. [i \in DOMAIN l |-> Pg!EventOf(l[i])] = g
  <2>1. \A k \in 1 .. n : Pg!EventOf(h[k]) = g[k]
    BY <1>1, <1>3, <1>4 DEF EventAt, Pg!EventOf
  <2>2. [i \in DOMAIN h |-> Pg!EventOf(h[i])] = [k \in 1 .. n |-> g[k]]
    BY <1>5, <2>1
  <2>3. g = [k \in 1 .. n |-> g[k]]
    <3>1. PICK T : g \in Seq(T)
      BY <1>1 DEF EventsAlike
    <3>. QED BY <1>3, <3>1
  <2>. QED BY <1>13, <2>2, <2>3
<1>15. Pg!ListEvents(db, s, id) = Pg!Answer(db, g)
  BY <1>7, <1>14 DEF Pg!ListEvents
<1>. QED BY <1>1, <1>15, AnswersSame DEF Fake!ListEvents

-----------------------------------------------------------------------------
(* Counts and lists of disputes *)

LEMMA AccountHistorySame ==
  ASSUME NEW db, NEW m, Alike(db, m), NEW s, NEW account, NEW x, NEW since
  PROVE  LET p == Pg!AccountHistory(db, s, account, x, since)
             q == Fake!AccountHistory(m, s, account, x, since)
         IN /\ p.err = "ok" /\ q.err = "ok" /\ p.db = db /\ q.db = m
            /\ \A i \in 1 .. 2 : p.val[i] <= q.val[i] /\ (s.kind = "key" => p.val[i] = q.val[i])
<1>1. PICK f : f = m.disputes /\ DisputesAlike(db.disputes, f)
  BY DEF Alike, Restored
<1>2. Fake!Elements(f) = db.disputes /\ IsFiniteSet(db.disputes)
  BY <1>1 DEF DisputesAlike, Fake!Elements, TableOK
<1>3. PICK g : g = m.events /\ EventsAlike(db.events, g)
  BY DEF Alike, Restored
<1>4. PICK A, B : /\ A = {d \in Pg!Q!Scoped(db, s) : d.account = account /\ d.opened >= since /\ d.id # x}
                  /\ B = {d \in db.disputes : d.tenant = s.tenant /\ d.account = account /\ d.opened >= since /\ d.id # x}
  OBVIOUS
<1>5. PICK C, D : /\ C = {d \in Pg!Q!Scoped(db, s) : /\ d.account = account /\ d.id # x
                                                     /\ \E e \in Pg!Q!Of(db, s, db.events, d.id) : e.to = "CHARGEBACK_LOST"}
                  /\ D = {d \in db.disputes : /\ d.tenant = s.tenant /\ d.account = account /\ d.id # x
                                              /\ \E i \in DOMAIN g[d.id] : g[d.id][i].to = "CHARGEBACK_LOST"}
  OBVIOUS
<1>6. PICK p, q : p = Pg!AccountHistory(db, s, account, x, since) /\ q = Fake!AccountHistory(m, s, account, x, since)
  OBVIOUS
<1>7. p.err = "ok" /\ p.db = db /\ p.val = <<Cardinality(A), Cardinality(C)>>
  <2>1. Pg!Q!CountAccountDisputesSince(db, s, account, since, x) = Cardinality(A)
    BY <1>4, Sizes DEF Pg!Q!CountAccountDisputesSince
  <2>2. Pg!Q!CountAccountLostChargebacks(db, s, account, x) = Cardinality(C)
    BY <1>5, Sizes DEF Pg!Q!CountAccountLostChargebacks
  <2>. QED BY <1>6, <2>1, <2>2 DEF Pg!AccountHistory, Pg!Answer
<1>8. q.err = "ok" /\ q.db = m /\ q.val = <<Cardinality(B), Cardinality(D)>>
  <2>1. PICK others : others = {d \in Fake!Elements(m.disputes) : d.tenant = s.tenant /\ d.account = account /\ d.id # x}
    OBVIOUS
  <2>2. {d \in others : d.opened >= since} = B
    BY <1>1, <1>2, <1>4, <2>1
  <2>3. {d \in others : \E i \in DOMAIN m.events[d.id] : m.events[d.id][i].to = "CHARGEBACK_LOST"} = D
    BY <1>1, <1>2, <1>3, <1>5, <2>1
  <2>4. q = Fake!Answer(m, <<Fake!Cardinality(B), Fake!Cardinality(D)>>)
    BY <1>6, <2>1, <2>2, <2>3 DEF Fake!AccountHistory
  <2>. QED BY <2>4, Sizes DEF Fake!Answer
<1>9. IsFiniteSet(B) /\ IsFiniteSet(D)
  <2>1. B \in SUBSET db.disputes /\ D \in SUBSET db.disputes
    BY <1>4, <1>5
  <2>. QED BY <1>2, <2>1, FS_Subset
<1>10. \A d : d \in Pg!Q!Scoped(db, s) <=> d \in db.disputes /\ d.tenant = s.tenant /\ Pg!Q!in_team(s, d.team)
  BY DEF Pg!Q!Scoped, Pg!Q!InTenant
<1>11. A \in SUBSET B /\ (s.kind = "key" => A = B)
  BY <1>4, <1>10 DEF Pg!Q!in_team
<1>12. ASSUME NEW d \in Pg!Q!Scoped(db, s)
       PROVE (\E e \in Pg!Q!Of(db, s, db.events, d.id) : e.to = "CHARGEBACK_LOST")
             <=> \E i \in DOMAIN g[d.id] : g[d.id][i].to = "CHARGEBACK_LOST"
  <2>1. Pg!Q!Sees(db, s, d.id) /\ d.id \in Ids
    BY <1>1, <1>10 DEF Pg!Q!Sees, DisputesAlike
  <2>2. \A e : e \in Pg!Q!Of(db, s, db.events, d.id) <=> e \in EventsFor(db.events, d.id)
    BY <2>1, OfSeen DEF EventsFor
  <2>n. PICK n : n = Len(g[d.id])
    OBVIOUS
  <2>3. /\ DOMAIN g[d.id] = 1 .. n
        /\ \A k \in 1 .. n : EventAt(g, d.id, k) \in EventsFor(db.events, d.id)
        /\ \A r \in EventsFor(db.events, d.id) : r.seq \in 1 .. n /\ r = EventAt(g, d.id, r.seq)
    <3>1. PICK i \in Ids : i = d.id
      BY <2>1
    <3>2. PICK X : X = db.events /\ EventsAlike(X, g)
      BY <1>3
    <3>3. DOMAIN g[i] = 1 .. Len(g[i])
      BY <3>2, EventsCounted
    <3>4. \A k \in 1 .. Len(g[i]) : EventAt(g, i, k) \in EventsFor(X, i)
      BY <3>2, EventsCounted
    <3>5. \A r \in EventsFor(X, i) : r.seq \in 1 .. Len(g[i]) /\ r = EventAt(g, i, r.seq)
      BY <3>2, EventsCounted
    <3>. QED BY <2>n, <3>1, <3>2, <3>3, <3>4, <3>5
  <2>4. \A k : EventAt(g, d.id, k).to = g[d.id][k].to
    BY DEF EventAt
  <2>5. ASSUME NEW e \in Pg!Q!Of(db, s, db.events, d.id), e.to = "CHARGEBACK_LOST"
        PROVE \E i \in DOMAIN g[d.id] : g[d.id][i].to = "CHARGEBACK_LOST"
    <3>1. PICK k \in 1 .. n : e = EventAt(g, d.id, k)
      BY <2>2, <2>3, <2>5
    <3>. QED BY <2>3, <2>4, <2>5, <3>1
  <2>6. ASSUME NEW i \in DOMAIN g[d.id], g[d.id][i].to = "CHARGEBACK_LOST"
        PROVE \E e \in Pg!Q!Of(db, s, db.events, d.id) : e.to = "CHARGEBACK_LOST"
    <3>1. EventAt(g, d.id, i) \in EventsFor(db.events, d.id)
      BY <2>3
    <3>2. EventAt(g, d.id, i).to = "CHARGEBACK_LOST"
      BY <2>4, <2>6
    <3>. QED BY <2>2, <3>1, <3>2
  <2>. QED BY <2>5, <2>6
<1>13. C \in SUBSET D /\ (s.kind = "key" => C = D)
  BY <1>5, <1>10, <1>12 DEF Pg!Q!in_team
<1>14. /\ Cardinality(A) <= Cardinality(B) /\ (s.kind = "key" => Cardinality(A) = Cardinality(B))
       /\ Cardinality(C) <= Cardinality(D) /\ (s.kind = "key" => Cardinality(C) = Cardinality(D))
  BY <1>9, <1>11, <1>13, FS_Subset
<1>15. \A i \in 1 .. 2 : p.val[i] <= q.val[i] /\ (s.kind = "key" => p.val[i] = q.val[i])
  <2>1. p.val[1] <= q.val[1] /\ (s.kind = "key" => p.val[1] = q.val[1])
    BY <1>7, <1>8, <1>14
  <2>2. p.val[2] <= q.val[2] /\ (s.kind = "key" => p.val[2] = q.val[2])
    BY <1>7, <1>8, <1>14
  <2>3. \A i \in 1 .. 2 : i = 1 \/ i = 2
    OBVIOUS
  <2>. QED BY <2>1, <2>2, <2>3
<1>. QED BY <1>6, <1>7, <1>8, <1>15

LEMMA CountByStateSame ==
  ASSUME NEW db, NEW m, Alike(db, m)
  PROVE  Same(db, m, Pg!CountByState(db), Fake!CountByState(m))
<1>1. Fake!Elements(m.disputes) = db.disputes
  BY DEF Alike, Restored, DisputesAlike, Fake!Elements
<1>2. PICK v : v = {[tenant |-> d.tenant, state |-> d.state,
                     n |-> Cardinality({o \in db.disputes : o.tenant = d.tenant /\ o.state = d.state})] : d \in db.disputes}
  OBVIOUS
<1>3. Pg!CountByState(db) = Pg!Answer(db, v)
  BY <1>2, Sizes DEF Pg!CountByState, Pg!Q!CountDisputesByState
<1>4. Fake!CountByState(m) = Fake!Answer(m, v)
  BY <1>1, <1>2, Sizes DEF Fake!CountByState
<1>. QED BY <1>3, <1>4, AnswersSame

LEMMA OverdueSame ==
  ASSUME NEW db, NEW m, Alike(db, m), NEW id \in Ids, NEW t
  PROVE  Pg!Q!Overdue(db.deadlines, id, t) <=> Fake!overdue(m, id, t)
<1>1. PICK f : f = m.deadlines /\ DeadlinesAlike(db.disputes, db.deadlines, f)
  BY DEF Alike, Restored
<1>2. ASSUME NEW r \in db.deadlines, r.dispute = id, Pg!Q!Open(r), r.due < t PROVE Fake!overdue(m, id, t)
  <2>1. PICK k \in DOMAIN f[id] : f[id][k] = Pg!deadlineOf(r)
    BY <1>1, <1>2 DEF DeadlinesAlike
  <2>2. f[id][k].end = "open" /\ f[id][k].due = r.due
    BY <1>2, <2>1 DEF Pg!deadlineOf, Pg!Q!Open
  <2>. QED BY <1>1, <1>2, <2>2 DEF Fake!overdue, Fake!Open
<1>3. ASSUME NEW k \in DOMAIN f[id], Fake!Open(f[id][k]), t > f[id][k].due PROVE Pg!Q!Overdue(db.deadlines, id, t)
  <2>1. PICK r \in db.deadlines : r.dispute = id /\ f[id][k] = Pg!deadlineOf(r)
    BY <1>1 DEF DeadlinesAlike
  <2>2. r.end = "open" /\ r.due < t
    BY <1>3, <2>1 DEF Pg!deadlineOf, Fake!Open
  <2>. QED BY <2>1, <2>2 DEF Pg!Q!Overdue, Pg!Q!Open
<1>4. Pg!Q!Overdue(db.deadlines, id, t) => Fake!overdue(m, id, t)
  BY <1>2 DEF Pg!Q!Overdue
<1>5. Fake!overdue(m, id, t) => Pg!Q!Overdue(db.deadlines, id, t)
  BY <1>1, <1>3 DEF Fake!overdue
<1>. QED BY <1>4, <1>5

LEMMA FakeOrdersByKeyset ==
  ASSUME NEW S, TableOK(S)
  PROVE  Fake!NewestFirst(S) = Pg!Q!NewestFirst(S)
<1>1. \A a, b : Fake!Newer(a, b) <=> Pg!Q!Newer(a, b)
  BY DEF Fake!Newer, Pg!Q!Newer
<1>2. IsFiniteSet(S) /\ Orders(NewerPairs(S), S)
  BY KeysetOrders
<1>3. PICK n : n = Cardinality(S)
  OBVIOUS
<1>4. PICK g : g = Pg!Q!NewestFirst(S)
  OBVIOUS
<1>5. Listed(S, g)
  BY <1>4, OrderedByKeyset
<1>. DEFINE P(h) == \A i, j \in DOMAIN h : i < j => Fake!Newer(h[i], h[j])
<1>6. g \in [1 .. n -> S] /\ P(g)
  BY <1>1, <1>3, <1>5 DEF Listed
<1>7. PICK f : f = Fake!NewestFirst(S)
  OBVIOUS
<1>8. f = CHOOSE list \in [1 .. n -> S] : P(list)
  <2>1. Fake!Cardinality(S) = n
    BY <1>3, Sizes
  <2>. QED BY <1>7, <2>1, Zenon DEF Fake!NewestFirst
<1>9. f \in [1 .. n -> S] /\ P(f)
  BY <1>6, <1>8
<1>10. InOrder(NewerPairs(S), S, f) /\ InOrder(NewerPairs(S), S, g)
  BY <1>1, <1>3, <1>6, <1>9 DEF InOrder, NewerPairs
<1>11. f = g
  BY <1>2, <1>10, SortedOnce
<1>. QED BY <1>4, <1>7, <1>11

\* A cursor compares.
CursorOK(after) == \A c \in after : c.opened \in Int /\ c.id \in Int

LEMMA ListDisputesSame ==
  ASSUME NEW db, NEW m, Alike(db, m), NEW s, NEW q, CursorOK(q.after), q.limit \in Nat
  PROVE  Same(db, m, Pg!ListDisputes(db, s, q), Fake!ListDisputes(m, s, q))
<1>1. PICK f : f = m.disputes /\ DisputesAlike(db.disputes, f)
  BY DEF Alike, Restored
<1>2. Fake!Elements(f) = db.disputes /\ TableOK(db.disputes) /\ \A d \in db.disputes : d.id \in Ids
  BY <1>1 DEF DisputesAlike, Fake!Elements
<1>3. PICK S : S = {d \in Pg!Q!Scoped(db, s) :
                      /\ q.state \in {"any", d.state}
                      /\ q.overdue => Pg!Q!Overdue(db.deadlines, d.id, q.now)
                      /\ \A c \in q.after : Pg!Q!Newer(c, d)}
  OBVIOUS
<1>4. PICK all : all = {d \in Fake!Elements(m.disputes) :
                /\ d.tenant = s.tenant /\ Fake!visible(s, d)
                /\ q.state \in {"any", d.state}
                /\ q.overdue => Fake!overdue(m, d.id, q.now)
                /\ \A c \in q.after : d.opened <= c.opened /\ (d.opened = c.opened => d.id < c.id)}
  OBVIOUS
<1>5. all = S
  <2>1. \A d \in db.disputes : (d.tenant = s.tenant /\ Fake!visible(s, d)) <=> d \in Pg!Q!Scoped(db, s)
    BY DEF Fake!visible, Pg!Q!in_team, Pg!Q!Scoped, Pg!Q!InTenant
  <2>2. \A d \in db.disputes : Fake!overdue(m, d.id, q.now) <=> Pg!Q!Overdue(db.deadlines, d.id, q.now)
    BY <1>2, OverdueSame
  <2>3. ASSUME NEW d \in db.disputes, NEW c \in q.after
        PROVE (d.opened <= c.opened /\ (d.opened = c.opened => d.id < c.id)) <=> Pg!Q!Newer(c, d)
    <3>1. d.opened \in Int /\ d.id \in Int /\ c.opened \in Int /\ c.id \in Int
      BY <1>2 DEF TableOK, CursorOK
    <3>. QED BY <3>1 DEF Pg!Q!Newer
  <2>4. \A d \in db.disputes : d \in all <=> d \in S
    BY <1>1, <1>2, <1>3, <1>4, <2>1, <2>2, <2>3
  <2>5. all \subseteq db.disputes /\ S \subseteq db.disputes
    BY <1>1, <1>2, <1>3, <1>4 DEF Pg!Q!Scoped, Pg!Q!InTenant
  <2>. QED BY <2>4, <2>5
<1>6. S \subseteq db.disputes
  BY <1>3 DEF Pg!Q!Scoped, Pg!Q!InTenant
<1>7. PICK T : T = {Pg!Summary(d) : d \in S}
  OBVIOUS
<1>8. PICK n, g : n = Cardinality(S) /\ g = Pg!Q!NewestFirst(S)
  OBVIOUS
<1>9. n \in Nat /\ Listed(S, g) /\ IsFiniteSet(S)
  BY <1>2, <1>6, <1>8, OrderedByKeyset, KeysetOrders
<1>10. \A d \in S : /\ Pg!Summary(d).id = d.id /\ Pg!Summary(d).opened = d.opened /\ d.id \in Int /\ d.opened \in Int
                    /\ {"id", "opened"} \subseteq DOMAIN Pg!Summary(d)
  BY <1>2, <1>6 DEF Pg!Summary, TableOK
<1>11. \A d, e \in S : d.id = e.id => d = e
  BY <1>2, <1>6 DEF TableOK
<1>12. IsFiniteSet(T) /\ Cardinality(T) = n
  <2>1. PICK h : h = [d \in S |-> Pg!Summary(d)]
    OBVIOUS
  <2>2. h \in [S -> T] /\ \A t \in T : \E d \in S : h[d] = t
    BY <1>7, <2>1
  <2>3. \A d, e \in S : h[d] = h[e] => d = e
    BY <1>10, <1>11, <2>1
  <2>. QED BY <1>8, <1>9, <2>2, <2>3, SameSize
<1>13. TableOK(T)
  <2>1. \A t \in T : {"id", "opened"} \subseteq DOMAIN t /\ t.id \in Int /\ t.opened \in Int
    BY <1>7, <1>10
  <2>2. \A t, u \in T : t.id = u.id => t = u
    BY <1>7, <1>10, <1>11
  <2>. QED BY <1>12, <2>1, <2>2 DEF TableOK
<1>14. PICK l : l = Pg!Q!NewestFirst(T)
  OBVIOUS
<1>15. PICK h : h = [i \in 1 .. n |-> Pg!Summary(g[i])]
  OBVIOUS
<1>16. g \in [1 .. n -> S]
  BY <1>8, <1>9 DEF Listed
<1>17. l = h
  <2>1. Listed(T, l)
    BY <1>13, <1>14, OrderedByKeyset
  <2>2. InOrder(NewerPairs(T), T, l)
    BY <2>1 DEF Listed, InOrder, NewerPairs
  <2>3. \A i \in 1 .. n : h[i] \in T /\ g[i] \in S
    BY <1>7, <1>15, <1>16
  <2>4. ASSUME NEW i \in 1 .. n, NEW j \in 1 .. n, i < j PROVE Pg!Q!Newer(h[i], h[j])
    <3>1. Pg!Q!Newer(g[i], g[j])
      BY <1>8, <1>9, <2>4 DEF Listed
    <3>2. h[i].id = g[i].id /\ h[i].opened = g[i].opened /\ h[j].id = g[j].id /\ h[j].opened = g[j].opened
      BY <1>10, <1>15, <2>3
    <3>. QED BY <3>1, <3>2 DEF Pg!Q!Newer
  <2>5. InOrder(NewerPairs(T), T, h)
    <3>1. h \in [1 .. n -> T]
      BY <1>15, <2>3
    <3>. QED BY <1>12, <2>3, <2>4, <3>1 DEF InOrder, NewerPairs
  <2>6. Orders(NewerPairs(T), T)
    BY <1>13, KeysetOrders
  <2>. QED BY <1>12, <2>2, <2>5, <2>6, SortedOnce
<1>18. PICK top : top = IF n < q.limit THEN n ELSE q.limit
  OBVIOUS
<1>19. top \in Nat /\ top <= n
  BY <1>9, <1>18
<1>20. PICK v : v = [i \in 1 .. top |-> Pg!Summary(g[i])]
  OBVIOUS
<1>21. Pg!ListDisputes(db, s, q) = Pg!Answer(db, v)
  <2>1. g \in Seq(S) /\ Len(g) = n
    BY <1>9, <1>16
  <2>2. PICK rows : rows = Pg!Q!ListDisputes(db, s, q)
    OBVIOUS
  <2>3. rows = SubSeq(Pg!Q!NewestFirst(S), 1, IF Len(Pg!Q!NewestFirst(S)) < q.limit THEN Len(Pg!Q!NewestFirst(S)) ELSE q.limit)
    BY <1>3, <2>2, Zenon DEF Pg!Q!ListDisputes
  <2>4. rows = SubSeq(g, 1, top)
    BY <1>8, <1>18, <2>1, <2>3
  <2>5. DOMAIN rows = 1 .. top /\ \A i \in 1 .. top : rows[i] = g[i]
    BY <1>19, <2>1, <2>4
  <2>6. [i \in DOMAIN rows |-> Pg!Summary(rows[i])] = v
    BY <1>20, <2>5
  <2>. QED BY <2>2, <2>6 DEF Pg!ListDisputes
<1>22. Fake!ListDisputes(m, s, q) = Fake!Answer(m, v)
  <2>1. h \in Seq(T) /\ Len(h) = n
    <3>1. h \in [1 .. n -> T]
      BY <1>7, <1>15, <1>16
    <3>. QED BY <1>9, <3>1
  <2>2. {[id |-> d.id, state |-> d.state, team |-> d.team, opened |-> d.opened] : d \in all} = T
    BY <1>5, <1>7 DEF Pg!Summary
  <2>3. Fake!NewestFirst(T) = h
    BY <1>13, <1>14, <1>17, FakeOrdersByKeyset
  <2>4. Fake!ListDisputes(m, s, q) = Fake!Answer(m, IF Len(h) > q.limit THEN SubSeq(h, 1, q.limit) ELSE h)
    BY <1>4, <2>2, <2>3 DEF Fake!ListDisputes
  <2>5. (IF Len(h) > q.limit THEN SubSeq(h, 1, q.limit) ELSE h) = v
    <3>1. CASE n > q.limit
      <4>1. top = q.limit /\ q.limit <= n
        BY <1>9, <1>18, <3>1
      <4>2. SubSeq(h, 1, top) = [i \in 1 .. top |-> h[i]]
        BY <1>19, <2>1
      <4>3. \A i \in 1 .. top : h[i] = Pg!Summary(g[i])
        BY <1>9, <1>15, <1>19
      <4>. QED BY <1>20, <2>1, <3>1, <4>1, <4>2, <4>3
    <3>2. CASE ~(n > q.limit)
      <4>1. top = n
        BY <1>9, <1>18, <3>2
      <4>. QED BY <1>15, <1>20, <2>1, <3>2, <4>1
    <3>. QED BY <3>1, <3>2
  <2>. QED BY <2>4, <2>5
<1>. QED BY <1>21, <1>22, AnswersSame

-----------------------------------------------------------------------------
(* Clocks *)

LEMMA ListDeadlinesSame ==
  ASSUME NEW db, NEW m, Alike(db, m), NEW s, NEW id \in Ids, Pg!Q!Sees(db, s, id)
  PROVE  Same(db, m, Pg!ListDeadlines(db, s, id), Fake!ListDeadlines(m, s, id))
<1>1. PICK f : f = m.deadlines /\ DeadlinesAlike(db.disputes, db.deadlines, f)
  BY DEF Alike, Restored
<1>2. PICK V : V = {Pg!deadlineOf(c) : c \in Pg!Q!Of(db, s, db.deadlines, id)}
  OBVIOUS
<1>3. \A v \in V : \E r \in db.deadlines : r.dispute = id /\ v = Pg!deadlineOf(r)
  BY <1>2, OfSeen
<1>4. \A r \in db.deadlines : r.dispute = id => Pg!deadlineOf(r) \in V
  BY <1>2, OfSeen
<1>5. \A v \in V : v \in Fake!Elements(f[id])
  <2>. SUFFICES ASSUME NEW v \in V PROVE v \in Fake!Elements(f[id])
    OBVIOUS
  <2>1. PICK r \in db.deadlines : r.dispute = id /\ v = Pg!deadlineOf(r)
    BY <1>3
  <2>2. PICK k \in DOMAIN f[id] : f[id][k] = v
    BY <1>1, <2>1 DEF DeadlinesAlike
  <2>. QED BY <2>2 DEF Fake!Elements
<1>6. \A v \in Fake!Elements(f[id]) : v \in V
  <2>. SUFFICES ASSUME NEW k \in DOMAIN f[id] PROVE f[id][k] \in V
    BY DEF Fake!Elements
  <2>1. PICK r \in db.deadlines : r.dispute = id /\ f[id][k] = Pg!deadlineOf(r)
    BY <1>1 DEF DeadlinesAlike
  <2>. QED BY <1>4, <2>1
<1>7. V = Fake!Elements(f[id])
  BY <1>5, <1>6
<1>8. Pg!ListDeadlines(db, s, id) = Pg!Answer(db, V)
  BY <1>2 DEF Pg!ListDeadlines, Pg!Q!ListDeadlines
<1>9. Fake!ListDeadlines(m, s, id) = Fake!Answer(m, V)
  BY <1>1, <1>7, WithinAnswers DEF Fake!ListDeadlines
<1>. QED BY <1>8, <1>9, AnswersSame

\* The clocks of a dispute that run, in the database and in the fake.
OpenIn(rows, id) == {c \in rows : c.dispute = id /\ c.end = "open"}
OpenOf(list) == {c \in Fake!Elements(list) : c.end = "open"}

LEMMA OpenSame ==
  ASSUME NEW disputes, NEW rows, NEW f, DeadlinesAlike(disputes, rows, f), NEW id \in Ids
  PROVE  {c.due : c \in OpenIn(rows, id)} = {c.due : c \in OpenOf(f[id])}
<1>1. ASSUME NEW r \in OpenIn(rows, id) PROVE \E c \in OpenOf(f[id]) : c.due = r.due
  <2>1. PICK k \in DOMAIN f[id] : f[id][k] = Pg!deadlineOf(r)
    BY DEF DeadlinesAlike, OpenIn
  <2>2. f[id][k].due = r.due /\ f[id][k].end = "open" /\ f[id][k] \in Fake!Elements(f[id])
    BY <2>1 DEF Pg!deadlineOf, OpenIn, Fake!Elements
  <2>. QED BY <2>2 DEF OpenOf
<1>2. ASSUME NEW c \in OpenOf(f[id]) PROVE \E r \in OpenIn(rows, id) : r.due = c.due
  <2>1. PICK k \in DOMAIN f[id] : f[id][k] = c
    BY DEF OpenOf, Fake!Elements
  <2>2. PICK r \in rows : r.dispute = id /\ c = Pg!deadlineOf(r)
    BY <2>1 DEF DeadlinesAlike
  <2>3. r.end = "open" /\ r.due = c.due
    BY <2>2 DEF OpenOf, Pg!deadlineOf
  <2>. QED BY <2>2, <2>3 DEF OpenIn
<1>. QED BY <1>1, <1>2

LEMMA NextDeadlinesSame ==
  ASSUME NEW db, NEW m, Alike(db, m), NEW s, NEW ids, \A id \in ids : id \in Ids /\ Pg!Q!Sees(db, s, id)
  PROVE  Same(db, m, Pg!NextDeadlines(db, s, ids), Fake!NextDeadlines(m, s, ids))
<1>1. PICK f : f = m.deadlines /\ DeadlinesAlike(db.disputes, db.deadlines, f)
  BY DEF Alike, Restored
<1>2. ASSUME NEW id \in ids
      PROVE /\ {c \in Pg!Q!Of(db, s, db.deadlines, id) : Pg!Q!Open(c)} = OpenIn(db.deadlines, id)
            /\ {c \in Fake!Elements(m.deadlines[id]) : Fake!Open(c)} = OpenOf(f[id])
            /\ Fake!InTenant(m, s, id)
  <2>1. {c \in Pg!Q!Of(db, s, db.deadlines, id) : Pg!Q!Open(c)} = OpenIn(db.deadlines, id)
    BY OfSeen DEF OpenIn, Pg!Q!Open
  <2>2. {c \in Fake!Elements(m.deadlines[id]) : Fake!Open(c)} = OpenOf(f[id])
    BY <1>1 DEF OpenOf, Fake!Open
  <2>3. Fake!InTenant(m, s, id)
    <3>1. PICK d \in db.disputes : d.tenant = s.tenant /\ d.id = id
      BY DEF Pg!Q!Sees, Pg!Q!Scoped, Pg!Q!InTenant
    <3>. QED BY <3>1 DEF Fake!InTenant, Alike, Restored, DisputesAlike
  <2>. QED BY <2>1, <2>2, <2>3
<1>3. \A id \in ids : {c.due : c \in OpenIn(db.deadlines, id)} = {c.due : c \in OpenOf(f[id])}
  BY <1>1, OpenSame
<1>4. PICK P : P = [id \in ids |-> {c \in Pg!Q!Of(db, s, db.deadlines, id) : Pg!Q!Open(c)}]
  OBVIOUS
<1>5. PICK O : O = [id \in ids |-> {c \in Fake!Elements(m.deadlines[id]) : Fake!Open(c)}]
  OBVIOUS
<1>6. \A id \in ids : {c.due : c \in P[id]} = {c.due : c \in O[id]}
  BY <1>2, <1>3, <1>4, <1>5
<1>7. ASSUME NEW id \in ids PROVE P[id] # {} <=> O[id] # {}
  <2>1. PICK A, B, C : A = P[id] /\ B = O[id] /\ C = {c.due : c \in A} /\ C = {c.due : c \in B}
    BY <1>6
  <2>2. (A # {} <=> C # {}) /\ (B # {} <=> C # {})
    BY <2>1
  <2>. QED BY <2>1, <2>2
<1>8. PICK D : D = {id \in ids : P[id] # {}}
  OBVIOUS
<1>9. Pg!Q!NextDeadlines(db, s, ids) = [id \in D |-> Pg!Q!Min({c.due : c \in P[id]})]
  BY <1>4, <1>8 DEF Pg!Q!NextDeadlines
<1>10. Fake!NextDeadlines(m, s, ids) = Fake!Answer(m, [id \in D |-> Fake!Min({c.due : c \in O[id]})])
  <2>1. {i \in ids : Fake!InTenant(m, s, i) /\ {c \in Fake!Elements(m.deadlines[i]) : Fake!Open(c)} # {}} = D
    BY <1>2, <1>5, <1>7, <1>8
  <2>2. \A id \in D : {c \in Fake!Elements(m.deadlines[id]) : Fake!Open(c)} = O[id]
    BY <1>5, <1>8
  <2>. QED BY <2>1, <2>2 DEF Fake!NextDeadlines
<1>11. \A S : Pg!Q!Min(S) = Fake!Min(S)
  BY DEF Pg!Q!Min, Fake!Min
<1>12. [id \in D |-> Pg!Q!Min({c.due : c \in P[id]})] = [id \in D |-> Fake!Min({c.due : c \in O[id]})]
  BY <1>6, <1>8, <1>11
<1>13. PICK v : v = [id \in D |-> Pg!Q!Min({c.due : c \in P[id]})]
  OBVIOUS
<1>14. Pg!NextDeadlines(db, s, ids) = Pg!Answer(db, v) /\ Fake!NextDeadlines(m, s, ids) = Fake!Answer(m, v)
  BY <1>9, <1>10, <1>12, <1>13, Zenon DEF Pg!NextDeadlines
<1>. QED BY <1>14, AnswersSame

LEMMA SettleDeadlineSame ==
  ASSUME NEW db, NEW m, Alike(db, m), NEW s, NEW id \in Ids, Pg!Q!Sees(db, s, id), NEW kind, NEW cycle, NEW met
  PROVE  Same(db, m, Pg!SettleDeadline(db, s, id, kind, cycle, met), Fake!SettleDeadline(m, s, id, kind, cycle, met))
<1>1. PICK f, g : f = m.deadlines /\ DeadlinesAlike(db.disputes, db.deadlines, f) /\ g = f[id]
  BY DEF Alike, Restored
<1>2. PICK e : e = IF met THEN "met" ELSE "void"
  OBVIOUS
<1>3. PICK rows : rows = {c \in Pg!Q!Of(db, s, db.deadlines, id) : c.kind = kind /\ c.cycle = cycle /\ Pg!Q!Open(c)}
  OBVIOUS
<1>4. \A r : r \in rows <=> r \in db.deadlines /\ r.dispute = id /\ r.kind = kind /\ r.cycle = cycle /\ r.end = "open"
  BY <1>3, OfSeen DEF Pg!Q!Open
<1>5. PICK X, nd : X = (db.deadlines \ rows) \cup {[c EXCEPT !.end = e] : c \in rows} /\ nd = [db EXCEPT !.deadlines = X]
  OBVIOUS
<1>6. PICK p, q : p = Pg!SettleDeadline(db, s, id, kind, cycle, met) /\ q = Fake!SettleDeadline(m, s, id, kind, cycle, met)
  OBVIOUS
<1>7. p.db = nd /\ p.err = "ok" /\ p.val = 0
  BY <1>2, <1>3, <1>5, <1>6 DEF Pg!SettleDeadline, Pg!Q!SettleDeadline, Pg!Q!Done, Pg!Exec, Pg!mapErr
<1>8. PICK L, Y, nm : /\ L = [i \in DOMAIN g |-> IF g[i].kind = kind /\ g[i].cycle = cycle /\ g[i].end = "open"
                                                 THEN [g[i] EXCEPT !.end = e] ELSE g[i]]
                      /\ Y = [f EXCEPT ![id] = L] /\ nm = [m EXCEPT !.deadlines = Y]
  OBVIOUS
<1>9. q = Fake!Answer(nm, 0)
  <2>1. [m EXCEPT !.deadlines[id] = L] = nm
    BY <1>1, <1>8
  <2>. QED BY <1>1, <1>2, <1>6, <1>8, <2>1, WithinAnswers DEF Fake!SettleDeadline, Fake!Open
<1>10. q.db = nm /\ q.err = "ok" /\ q.val = 0
  BY <1>9 DEF Fake!Answer
<1>11. PICK N : N = [o \in db.deadlines |-> IF o \in rows THEN [o EXCEPT !.end = e] ELSE o]
  OBVIOUS
<1>12. X = {N[o] : o \in db.deadlines}
  BY <1>4, <1>5, <1>11
<1>13. ASSUME NEW o \in db.deadlines
       PROVE /\ N[o].dispute = o.dispute /\ N[o].kind = o.kind /\ N[o].cycle = o.cycle /\ N[o].due = o.due
             /\ DOMAIN N[o] = DOMAIN o /\ N[o].end = IF o \in rows THEN e ELSE o.end
  <2>1. DOMAIN o = {"dispute", "kind", "cycle", "due", "end"}
    BY <1>1 DEF DeadlinesAlike
  <2>. QED BY <1>11, <2>1
<1>14. PICK T : g \in Seq(T)
  BY <1>1 DEF DeadlinesAlike
<1>15. PICK n : n = Len(g) /\ n \in Nat /\ DOMAIN g = 1 .. n
  BY <1>14
<1>16. ASSUME NEW o \in db.deadlines, o.dispute = id, NEW k \in DOMAIN g, g[k] = Pg!deadlineOf(o)
       PROVE L[k] = Pg!deadlineOf(N[o])
  <2>1. g[k].kind = o.kind /\ g[k].cycle = o.cycle /\ g[k].due = o.due /\ g[k].end = o.end
    BY <1>16 DEF Pg!deadlineOf
  <2>2. g[k] = [kind |-> o.kind, cycle |-> o.cycle, due |-> o.due, end |-> o.end]
    BY <1>16 DEF Pg!deadlineOf
  <2>3. Pg!deadlineOf(N[o]) = [kind |-> o.kind, cycle |-> o.cycle, due |-> o.due, end |-> IF o \in rows THEN e ELSE o.end]
    BY <1>13 DEF Pg!deadlineOf
  <2>4. CASE o \in rows
    <3>1. L[k] = [g[k] EXCEPT !.end = e]
      BY <1>4, <1>8, <2>1, <2>4
    <3>. QED BY <2>2, <2>3, <2>4, <3>1
  <2>5. CASE o \notin rows
    <3>1. L[k] = g[k]
      BY <1>4, <1>8, <1>16, <2>1, <2>5
    <3>. QED BY <2>2, <2>3, <2>5, <3>1
  <2>. QED BY <2>4, <2>5
<1>17. DOMAIN Y = Ids /\ Y[id] = L /\ DOMAIN L = DOMAIN g /\ \A i \in Ids \ {id} : Y[i] = f[i]
  BY <1>1, <1>8 DEF DeadlinesAlike
<1>18. DeadlinesAlike(db.disputes, X, Y)
  <2>1. IsFiniteSet(X)
    <3>1. N \in Surjection(db.deadlines, X)
      BY <1>11, <1>12 DEF Surjection
    <3>. QED BY <1>1, <3>1, FS_Surjection DEF DeadlinesAlike
  <2>2. ASSUME NEW r \in X
        PROVE /\ DOMAIN r = {"dispute", "kind", "cycle", "due", "end"} /\ r.due \in Int
              /\ r.dispute \in Ids /\ Belongs(db.disputes, r.dispute)
              /\ \E k \in DOMAIN Y[r.dispute] : Y[r.dispute][k] = Pg!deadlineOf(r)
    <3>1. PICK o \in db.deadlines : r = N[o]
      BY <1>12
    <3>2. /\ DOMAIN o = {"dispute", "kind", "cycle", "due", "end"} /\ o.due \in Int
          /\ o.dispute \in Ids /\ Belongs(db.disputes, o.dispute)
      BY <1>1 DEF DeadlinesAlike
    <3>3. PICK k \in DOMAIN f[o.dispute] : f[o.dispute][k] = Pg!deadlineOf(o)
      BY <1>1 DEF DeadlinesAlike
    <3>4. CASE o.dispute = id
      <4>1. k \in DOMAIN L /\ L[k] = Pg!deadlineOf(r)
        BY <1>1, <1>16, <1>17, <3>1, <3>3, <3>4
      <4>. QED BY <1>13, <1>17, <3>1, <3>2, <3>4, <4>1
    <3>5. CASE o.dispute # id
      <4>1. r = o
        BY <1>4, <1>11, <3>1, <3>5
      <4>. QED BY <1>17, <3>2, <3>3, <3>5, <4>1
    <3>. QED BY <3>4, <3>5
  <2>3. ASSUME NEW r \in X, NEW o \in X, r.dispute = o.dispute, r.kind = o.kind, r.cycle = o.cycle PROVE r = o
    <3>1. PICK a \in db.deadlines, b \in db.deadlines : r = N[a] /\ o = N[b]
      BY <1>12
    <3>2. a = b
      BY <1>1, <1>13, <2>3, <3>1 DEF DeadlinesAlike
    <3>. QED BY <3>1, <3>2
  <2>4. ASSUME NEW i \in Ids
        PROVE /\ \E U : Y[i] \in Seq(U)
              /\ \A k \in DOMAIN Y[i] : \E r \in X : r.dispute = i /\ Y[i][k] = Pg!deadlineOf(r)
              /\ \A j, k \in DOMAIN Y[i] : Y[i][j].kind = Y[i][k].kind /\ Y[i][j].cycle = Y[i][k].cycle => j = k
    <3>1. /\ \E U : f[i] \in Seq(U)
          /\ \A k \in DOMAIN f[i] : \E r \in db.deadlines : r.dispute = i /\ f[i][k] = Pg!deadlineOf(r)
          /\ \A j, k \in DOMAIN f[i] : f[i][j].kind = f[i][k].kind /\ f[i][j].cycle = f[i][k].cycle => j = k
      BY <1>1 DEF DeadlinesAlike
    <3>2. CASE i # id
      <4>1. \A k \in DOMAIN f[i] : \E r \in X : r.dispute = i /\ f[i][k] = Pg!deadlineOf(r)
        <5>. SUFFICES ASSUME NEW k \in DOMAIN f[i] PROVE \E r \in X : r.dispute = i /\ f[i][k] = Pg!deadlineOf(r)
          OBVIOUS
        <5>1. PICK r \in db.deadlines : r.dispute = i /\ f[i][k] = Pg!deadlineOf(r)
          BY <3>1
        <5>2. r \in X
          BY <1>4, <1>5, <3>2, <5>1
        <5>. QED BY <5>1, <5>2
      <4>2. Y[i] = f[i]
        BY <1>17, <3>2
      <4>. QED BY <3>1, <4>1, <4>2
    <3>3. CASE i = id
      <4>1. ASSUME NEW k \in DOMAIN g
            PROVE /\ \E r \in X : r.dispute = i /\ L[k] = Pg!deadlineOf(r)
                  /\ L[k].kind = g[k].kind /\ L[k].cycle = g[k].cycle
        <5>1. PICK o \in db.deadlines : o.dispute = id /\ g[k] = Pg!deadlineOf(o)
          BY <1>1, <3>1, <3>3
        <5>2. PICK r \in X : r = N[o]
          BY <1>12
        <5>3. L[k] = Pg!deadlineOf(r)
          BY <1>16, <5>1, <5>2
        <5>4. r.dispute = id /\ r.kind = o.kind /\ r.cycle = o.cycle
          BY <1>13, <5>1, <5>2
        <5>5. L[k].kind = g[k].kind /\ L[k].cycle = g[k].cycle
          BY <5>1, <5>3, <5>4 DEF Pg!deadlineOf
        <5>. QED BY <3>3, <5>3, <5>4, <5>5
      <4>2. \E U : L \in Seq(U)
        <5>1. PICK U : U = {L[k] : k \in 1 .. n}
          OBVIOUS
        <5>2. L \in [1 .. n -> U]
          BY <1>8, <1>15, <5>1
        <5>3. L \in Seq(U)
          BY <1>15, <5>2
        <5>. QED BY <5>3
      <4>3. \A j, k \in DOMAIN L : L[j].kind = L[k].kind /\ L[j].cycle = L[k].cycle => j = k
        BY <1>1, <1>17, <3>1, <3>3, <4>1
      <4>. QED BY <1>17, <3>3, <4>1, <4>2, <4>3
    <3>. QED BY <3>2, <3>3
  <2>5. \A r, o \in X : r.dispute = o.dispute /\ r.kind = o.kind /\ r.cycle = o.cycle => r = o
    BY <2>3
  <2>. QED BY <1>17, <2>1, <2>2, <2>4, <2>5 DEF DeadlinesAlike
<1>19. PgOK(nd)
  BY <1>6, <1>7, SettleDeadlineKeeps DEF Keeps, Alike
<1>20. Holds(db, m, nd, nm)
  BY <1>5, <1>8, <1>18, <1>19, DeadlinesWrite
<1>. QED BY <1>6, <1>7, <1>10, <1>20 DEF Same, Said

LEMMA TwoDeadlines ==
  ASSUME NEW db, NEW s, NEW id, NEW cs, Len(cs) = 2,
         NEW b1, b1 = Pg!Exec(Pg!Q!InsertDeadline(db, s, id, cs[1])), b1.err = "ok",
         NEW b2, b2 = Pg!Exec(Pg!Q!InsertDeadline(b1.db, s, id, cs[2]))
  PROVE  Pg!InsertDeadlines(db, s, id, cs) = b2
<1>0. \A n \in 0 .. 2 : n = 0 \/ n = 1 \/ n = 2
  OBVIOUS
<1>. DEFINE Loop(g) == [n \in 0 .. 2 |->
                          IF n = 0 THEN Pg!Answer(db, 0)
                          ELSE IF g[n - 1].err = "ok" THEN Pg!Exec(Pg!Q!InsertDeadline(g[n - 1].db, s, id, cs[n]))
                          ELSE g[n - 1]]
<1>1. \E g : g = Loop(g)
  <2>1. PICK a0 : a0 = Pg!Answer(db, 0)
    OBVIOUS
  <2>2. PICK a1 : a1 = IF a0.err = "ok" THEN Pg!Exec(Pg!Q!InsertDeadline(a0.db, s, id, cs[1])) ELSE a0
    OBVIOUS
  <2>3. PICK a2 : a2 = IF a1.err = "ok" THEN Pg!Exec(Pg!Q!InsertDeadline(a1.db, s, id, cs[2])) ELSE a1
    OBVIOUS
  <2>4. PICK g : g = [n \in 0 .. 2 |-> IF n = 0 THEN a0 ELSE IF n = 1 THEN a1 ELSE a2]
    OBVIOUS
  <2>5. g[0] = a0 /\ g[1] = a1 /\ g[2] = a2
    BY <2>4
  <2>6. ASSUME NEW n \in 0 .. 2 PROVE g[n] = Loop(g)[n]
    <3>1. CASE n = 0
      BY <2>1, <2>5, <3>1
    <3>2. CASE n = 1
      BY <2>2, <2>5, <3>2
    <3>3. CASE n = 2
      BY <2>3, <2>5, <3>3
    <3>. QED  BY <1>0, <3>1, <3>2, <3>3
  <2>7. g = Loop(g)
    BY <2>4, <2>6
  <2>. QED  BY <2>7
<1>2. PICK f : f = Loop(f) /\ Pg!InsertDeadlines(db, s, id, cs) = f[2]
  BY <1>1 DEF Pg!InsertDeadlines, Pg!Each
<1>3. f[0].db = db /\ f[0].err = "ok"
  BY <1>2 DEF Pg!Answer
<1>4. f[1] = IF f[0].err = "ok" THEN Pg!Exec(Pg!Q!InsertDeadline(f[0].db, s, id, cs[1])) ELSE f[0]
  BY <1>2
<1>5. f[2] = IF f[1].err = "ok" THEN Pg!Exec(Pg!Q!InsertDeadline(f[1].db, s, id, cs[2])) ELSE f[1]
  BY <1>2
<1>. QED BY <1>2, <1>3, <1>4, <1>5

LEMMA DeadlineAdded ==
  ASSUME NEW disputes, NEW rows, NEW f, DeadlinesAlike(disputes, rows, f), NEW id \in Ids, Belongs(disputes, id),
         NEW r, r.dispute = id, DOMAIN r = {"dispute", "kind", "cycle", "due", "end"}, r.due \in Int,
         \A o \in rows : ~(o.dispute = id /\ o.kind = r.kind /\ o.cycle = r.cycle),
         NEW g, g = [f EXCEPT ![id] = Append(f[id], Pg!deadlineOf(r))]
  PROVE  DeadlinesAlike(disputes, rows \cup {r}, g)
<1>1. PICK l, c, a : l = f[id] /\ c = Pg!deadlineOf(r) /\ a = Append(l, c)
  OBVIOUS
<1>2. PICK T : l \in Seq(T)
  BY <1>1 DEF DeadlinesAlike
<1>3. PICK n : n = Len(l) /\ n \in Nat /\ DOMAIN l = 1 .. n
  BY <1>2
<1>4. /\ a \in Seq(T \cup {c}) /\ Len(a) = n + 1 /\ DOMAIN a = 1 .. n + 1 /\ a[n + 1] = c
      /\ \A k \in 1 .. n : a[k] = l[k]
  <2>1. l \in Seq(T \cup {c})
    BY <1>2
  <2>2. PICK U : U = T \cup {c} /\ c \in U
    OBVIOUS
  <2>. QED BY <1>1, <1>3, <2>1, <2>2
<1>5. DOMAIN g = Ids /\ g[id] = a /\ \A i \in Ids \ {id} : g[i] = f[i]
  BY <1>1 DEF DeadlinesAlike
<1>6. c.kind = r.kind /\ c.cycle = r.cycle
  BY <1>1 DEF Pg!deadlineOf
<1>7. PICK X : X = rows \cup {r}
  OBVIOUS
<1>8. IsFiniteSet(X)
  BY <1>7, FS_AddElement DEF DeadlinesAlike
<1>9. ASSUME NEW o \in X
      PROVE /\ DOMAIN o = {"dispute", "kind", "cycle", "due", "end"} /\ o.due \in Int
            /\ o.dispute \in Ids /\ Belongs(disputes, o.dispute)
            /\ \E k \in DOMAIN g[o.dispute] : g[o.dispute][k] = Pg!deadlineOf(o)
  <2>1. CASE o = r
    <3>1. n + 1 \in DOMAIN g[o.dispute] /\ g[o.dispute][n + 1] = Pg!deadlineOf(o)
      BY <1>1, <1>3, <1>4, <1>5, <2>1
    <3>. QED BY <2>1, <3>1
  <2>2. CASE o # r
    <3>1. o \in rows
      BY <1>7, <2>2
    <3>2. PICK k \in DOMAIN f[o.dispute] : f[o.dispute][k] = Pg!deadlineOf(o)
      BY <3>1 DEF DeadlinesAlike
    <3>3. o.dispute \in Ids
      BY <3>1 DEF DeadlinesAlike
    <3>4. k \in DOMAIN g[o.dispute] /\ g[o.dispute][k] = f[o.dispute][k]
      <4>1. CASE o.dispute = id
        <5>1. k \in 1 .. n /\ k \in 1 .. n + 1
          BY <1>1, <1>3, <3>2, <4>1
        <5>. QED BY <1>1, <1>4, <1>5, <4>1, <5>1
      <4>2. CASE o.dispute # id
        BY <1>5, <3>2, <3>3, <4>2
      <4>. QED BY <4>1, <4>2
    <3>. QED BY <3>1, <3>2, <3>4 DEF DeadlinesAlike
  <2>. QED BY <2>1, <2>2
<1>10. ASSUME NEW o \in X, NEW x \in X, o.dispute = x.dispute, o.kind = x.kind, o.cycle = x.cycle PROVE o = x
  <2>1. CASE o \in rows /\ x \in rows
    BY <1>10, <2>1 DEF DeadlinesAlike
  <2>2. CASE o \notin rows \/ x \notin rows
    BY <1>7, <1>10, <2>2
  <2>. QED BY <2>1, <2>2
<1>11. ASSUME NEW i \in Ids
       PROVE /\ \E U : g[i] \in Seq(U)
             /\ \A k \in DOMAIN g[i] : \E o \in X : o.dispute = i /\ g[i][k] = Pg!deadlineOf(o)
             /\ \A j, k \in DOMAIN g[i] : g[i][j].kind = g[i][k].kind /\ g[i][j].cycle = g[i][k].cycle => j = k
  <2>1. /\ \E U : f[i] \in Seq(U)
        /\ \A k \in DOMAIN f[i] : \E o \in rows : o.dispute = i /\ f[i][k] = Pg!deadlineOf(o)
        /\ \A j, k \in DOMAIN f[i] : f[i][j].kind = f[i][k].kind /\ f[i][j].cycle = f[i][k].cycle => j = k
    BY DEF DeadlinesAlike
  <2>2. CASE i # id
    <3>1. g[i] = f[i]
      BY <1>5, <2>2
    <3>2. \A k \in DOMAIN f[i] : \E o \in X : o.dispute = i /\ f[i][k] = Pg!deadlineOf(o)
      BY <1>7, <2>1
    <3>3. \E U : g[i] \in Seq(U)
      BY <2>1, <3>1, Zenon
    <3>4. \A k \in DOMAIN g[i] : \E o \in X : o.dispute = i /\ g[i][k] = Pg!deadlineOf(o)
      BY <3>1, <3>2, Zenon
    <3>5. \A j, k \in DOMAIN g[i] : g[i][j].kind = g[i][k].kind /\ g[i][j].cycle = g[i][k].cycle => j = k
      BY <2>1, <3>1, Zenon
    <3>. QED BY <3>3, <3>4, <3>5
  <2>3. CASE i = id
    <3>1. \E U : a \in Seq(U)
      BY <1>4
    <3>2. ASSUME NEW k \in 1 .. n PROVE \E o \in rows : o.dispute = id /\ l[k] = Pg!deadlineOf(o)
      BY <1>1, <1>3, <2>1, <2>3
    <3>3. ASSUME NEW k \in 1 .. n + 1 PROVE \E o \in X : o.dispute = id /\ a[k] = Pg!deadlineOf(o)
      <4>1. CASE k = n + 1
        BY <1>1, <1>4, <1>7, <4>1
      <4>2. CASE k # n + 1
        <5>1. k \in 1 .. n
          BY <1>3, <4>2
        <5>2. PICK o \in rows : o.dispute = id /\ l[k] = Pg!deadlineOf(o)
          BY <3>2, <5>1
        <5>3. a[k] = Pg!deadlineOf(o) /\ o \in X
          BY <1>4, <1>7, <5>1, <5>2
        <5>. QED BY <5>2, <5>3
      <4>. QED BY <4>1, <4>2
    <3>4. ASSUME NEW k \in 1 .. n PROVE ~(a[k].kind = c.kind /\ a[k].cycle = c.cycle)
      <4>1. PICK o \in rows : o.dispute = id /\ l[k] = Pg!deadlineOf(o)
        BY <3>2
      <4>2. a[k].kind = o.kind /\ a[k].cycle = o.cycle
        BY <1>4, <4>1 DEF Pg!deadlineOf
      <4>. QED BY <1>6, <4>1, <4>2
    <3>5. ASSUME NEW j \in 1 .. n + 1, NEW k \in 1 .. n + 1, a[j].kind = a[k].kind, a[j].cycle = a[k].cycle PROVE j = k
      <4>1. CASE j \in 1 .. n /\ k \in 1 .. n
        BY <1>1, <1>3, <1>4, <2>1, <2>3, <3>5, <4>1
      <4>2. CASE j = n + 1 /\ k \in 1 .. n
        BY <1>4, <3>4, <3>5, <4>2
      <4>3. CASE k = n + 1 /\ j \in 1 .. n
        BY <1>4, <3>4, <3>5, <4>3
      <4>4. (j \in 1 .. n \/ j = n + 1) /\ (k \in 1 .. n \/ k = n + 1)
        BY <1>3
      <4>. QED BY <4>1, <4>2, <4>3, <4>4
    <3>6. g[i] = a /\ DOMAIN g[i] = 1 .. n + 1
      BY <1>4, <1>5, <2>3
    <3>7. \E U : g[i] \in Seq(U)
      BY <3>1, <3>6, Zenon
    <3>8. \A k \in DOMAIN g[i] : \E o \in X : o.dispute = i /\ g[i][k] = Pg!deadlineOf(o)
      BY <2>3, <3>3, <3>6, Zenon
    <3>9. \A j, k \in DOMAIN g[i] : g[i][j].kind = g[i][k].kind /\ g[i][j].cycle = g[i][k].cycle => j = k
      <4>1. \A j, k \in 1 .. n + 1 : a[j].kind = a[k].kind /\ a[j].cycle = a[k].cycle => j = k
        BY <3>5
      <4>2. PICK h : h = g[i] /\ h = a /\ DOMAIN h = 1 .. n + 1
        BY <3>6
      <4>3. \A j, k \in DOMAIN h : h[j].kind = h[k].kind /\ h[j].cycle = h[k].cycle => j = k
        BY <4>1, <4>2
      <4>. QED BY <4>2, <4>3, Zenon
    <3>. QED BY <3>7, <3>8, <3>9
  <2>. QED BY <2>2, <2>3
<1>12. \A o, x \in X : o.dispute = x.dispute /\ o.kind = x.kind /\ o.cycle = x.cycle => o = x
  BY <1>10
<1>13. DeadlinesAlike(disputes, X, g)
  BY <1>5, <1>8, <1>9, <1>11, <1>12 DEF DeadlinesAlike
<1>. QED BY <1>7, <1>13

LEMMA InsertDeadlineAdds ==
  ASSUME NEW db, NEW s, NEW id, Pg!Q!Sees(db, s, id), NEW c,
         NEW r, r = [dispute |-> id, kind |-> c.kind, cycle |-> c.cycle, due |-> c.due, end |-> "open"],
         \A o \in db.deadlines : ~(o.dispute = id /\ o.kind = c.kind /\ o.cycle = c.cycle)
  PROVE  LET a == Pg!Exec(Pg!Q!InsertDeadline(db, s, id, c))
         IN a.err = "ok" /\ a.val = 0 /\ a.db = [db EXCEPT !.deadlines = @ \cup {r}]
BY DEF Pg!Exec, Pg!mapErr, Pg!Q!InsertDeadline, Pg!Q!Done

LEMMA InsertDeadlinesSame ==
  ASSUME NEW db, NEW m, Alike(db, m), NEW s, NEW id \in Ids, Pg!Q!Sees(db, s, id), NEW cycle,
         ~\E c \in db.deadlines : c.dispute = id /\ c.cycle = cycle,
         NEW dues, dues \in {<<2, 3>>, <<3, 1>>},
         NEW cs, cs = [i \in DOMAIN dues |-> [kind |-> IF i = 1 THEN "RESOLUTION" ELSE "REFUND", cycle |-> cycle, due |-> dues[i]]]
  PROVE  Same(db, m, Pg!InsertDeadlines(db, s, id, cs), Fake!InsertDeadlines(m, s, id, cs))
<1>1. PICK f, g : f = m.deadlines /\ DeadlinesAlike(db.disputes, db.deadlines, f) /\ g = f[id]
  BY DEF Alike, Restored
<1>2. PICK u \in Int, v \in Int : DOMAIN dues = 1 .. 2 /\ dues[1] = u /\ dues[2] = v
  OBVIOUS
<1>3. /\ DOMAIN cs = 1 .. 2 /\ cs[1] = [kind |-> "RESOLUTION", cycle |-> cycle, due |-> u]
      /\ cs[2] = [kind |-> "REFUND", cycle |-> cycle, due |-> v]
  BY <1>2
<1>4. Len(cs) = 2
  BY <1>3
<1>5. PICK c1, c2 : c1 = cs[1] /\ c2 = cs[2]
  OBVIOUS
<1>6. PICK r1, r2 : /\ r1 = [dispute |-> id, kind |-> c1.kind, cycle |-> c1.cycle, due |-> c1.due, end |-> "open"]
                    /\ r2 = [dispute |-> id, kind |-> c2.kind, cycle |-> c2.cycle, due |-> c2.due, end |-> "open"]
  OBVIOUS
<1>7. PICK d1, d2, X1, X2 : /\ X1 = db.deadlines \cup {r1} /\ d1 = [db EXCEPT !.deadlines = X1]
                            /\ X2 = X1 \cup {r2} /\ d2 = [d1 EXCEPT !.deadlines = X2]
  OBVIOUS
<1>8. /\ c1.kind = "RESOLUTION" /\ c2.kind = "REFUND" /\ c1.cycle = cycle /\ c2.cycle = cycle
      /\ c1.due \in Int /\ c2.due \in Int
  BY <1>3, <1>5
<1>9. DOMAIN db = PgFields
  BY DEF Alike, PgOK
<1>10. d1.deadlines = X1 /\ d1.disputes = db.disputes /\ d2 = [db EXCEPT !.deadlines = X2]
  BY <1>7, <1>9 DEF PgFields, DisputeTables
<1>11. Pg!Q!Sees(d1, s, id)
  BY <1>10, SeesTable
<1>12. PICK b1, b2 : b1 = Pg!Exec(Pg!Q!InsertDeadline(db, s, id, c1)) /\ b2 = Pg!Exec(Pg!Q!InsertDeadline(d1, s, id, c2))
  OBVIOUS
<1>13. b1.err = "ok" /\ b1.db = d1
  <2>1. \A o \in db.deadlines : ~(o.dispute = id /\ o.kind = c1.kind /\ o.cycle = c1.cycle)
    BY <1>8
  <2>. QED BY <1>6, <1>7, <1>12, <2>1, InsertDeadlineAdds
<1>14. \A o \in X1 : ~(o.dispute = id /\ o.kind = c2.kind /\ o.cycle = c2.cycle)
  BY <1>6, <1>7, <1>8
<1>15. b2.err = "ok" /\ b2.val = 0 /\ b2.db = d2
  <2>1. PICK e \in {d1} : e.deadlines = X1 /\ Pg!Q!Sees(e, s, id)
    BY <1>10, <1>11
  <2>2. d2 = [e EXCEPT !.deadlines = @ \cup {r2}]
    BY <1>7, <1>10, <2>1
  <2>3. \A o \in e.deadlines : ~(o.dispute = id /\ o.kind = c2.kind /\ o.cycle = c2.cycle)
    BY <1>14, <2>1
  <2>. QED BY <1>6, <1>12, <2>1, <2>2, <2>3, InsertDeadlineAdds
<1>16. Pg!InsertDeadlines(db, s, id, cs) = b2
  BY <1>4, <1>5, <1>12, <1>13, TwoDeadlines
<1>17. PICK Y1, Y2 : Y1 = [f EXCEPT ![id] = Append(g, Pg!deadlineOf(r1))] /\ Y2 = [Y1 EXCEPT ![id] = Append(Y1[id], Pg!deadlineOf(r2))]
  OBVIOUS
<1>18. Belongs(db.disputes, id)
  BY DEF Belongs, Pg!Q!Sees, Pg!Q!Scoped, Pg!Q!InTenant
<1>19. /\ r1.dispute = id /\ DOMAIN r1 = {"dispute", "kind", "cycle", "due", "end"} /\ r1.due \in Int
       /\ r1.kind = c1.kind /\ r1.cycle = c1.cycle
       /\ r2.dispute = id /\ DOMAIN r2 = {"dispute", "kind", "cycle", "due", "end"} /\ r2.due \in Int
       /\ r2.kind = c2.kind /\ r2.cycle = c2.cycle
  BY <1>6, <1>8
<1>20. DeadlinesAlike(db.disputes, X1, Y1)
  <2>1. \A o \in db.deadlines : ~(o.dispute = id /\ o.kind = r1.kind /\ o.cycle = r1.cycle)
    BY <1>8, <1>19
  <2>. QED BY <1>1, <1>7, <1>17, <1>18, <1>19, <2>1, DeadlineAdded
<1>21. DeadlinesAlike(db.disputes, X2, Y2)
  <2>1. \A o \in X1 : ~(o.dispute = id /\ o.kind = r2.kind /\ o.cycle = r2.cycle)
    BY <1>14, <1>19
  <2>. QED BY <1>7, <1>17, <1>18, <1>19, <1>20, <2>1, DeadlineAdded
<1>22. PICK q : q = Fake!InsertDeadlines(m, s, id, cs)
  OBVIOUS
<1>23. PICK nm : nm = [m EXCEPT !.deadlines = Y2]
  OBVIOUS
<1>24. q = Fake!Answer(nm, 0)
  <2>1. PICK t1, t2 : t1 = Pg!deadlineOf(r1) /\ t2 = Pg!deadlineOf(r2)
    OBVIOUS
  <2>2. PICK add : add = [i \in DOMAIN cs |-> [kind |-> cs[i].kind, cycle |-> cs[i].cycle, due |-> cs[i].due, end |-> "open"]]
    OBVIOUS
  <2>3. DOMAIN add = 1 .. 2 /\ add[1] = t1 /\ add[2] = t2
    BY <1>3, <1>5, <1>6, <2>1, <2>2 DEF Pg!deadlineOf
  <2>4. add = <<t1, t2>>
    BY <2>2, <2>3
  <2>5. PICK T : g \in Seq(T)
    BY <1>1 DEF DeadlinesAlike
  <2>6. PICK U : g \in Seq(U) /\ t1 \in U /\ t2 \in U
    <3>1. g \in Seq(T \cup {t1, t2}) /\ t1 \in T \cup {t1, t2} /\ t2 \in T \cup {t1, t2}
      BY <2>5
    <3>. QED BY <3>1
  <2>7. g \o <<t1, t2>> = Append(Append(g, t1), t2)
    BY <2>6
  <2>8. id \in DOMAIN f
    BY <1>1 DEF DeadlinesAlike
  <2>9. Y2 = [f EXCEPT ![id] = g \o add]
    BY <1>17, <2>1, <2>4, <2>7, <2>8
  <2>10. [m EXCEPT !.deadlines[id] = @ \o add] = nm
    BY <1>1, <1>23, <2>9
  <2>11. q = Fake!Within(m, s, id, Fake!Answer([m EXCEPT !.deadlines[id] = @ \o add], 0))
    BY <1>22, <2>2, Zenon DEF Fake!InsertDeadlines
  <2>12. PICK w : w = Fake!Answer(nm, 0)
    OBVIOUS
  <2>13. q = Fake!Within(m, s, id, w)
    BY <2>10, <2>11, <2>12, Zenon
  <2>. QED BY <2>12, <2>13, WithinAnswers
<1>25. q.db = nm /\ q.err = "ok" /\ q.val = 0
  BY <1>24 DEF Fake!Answer
<1>26. PgOK(d2)
  <2>1. Len(cs) \in 1 .. 2
    BY <1>4
  <2>. QED BY <1>15, <1>16, <2>1, InsertDeadlinesKeeps DEF Keeps, Alike
<1>27. Holds(db, m, d2, nm)
  <2>1. PgOK([db EXCEPT !.deadlines = X2])
    BY <1>10, <1>26
  <2>. QED BY <1>10, <1>21, <1>23, <2>1, DeadlinesWrite
<1>. QED BY <1>15, <1>16, <1>22, <1>25, <1>27 DEF Same, Said

LEMMA CountOverdueSame ==
  ASSUME NEW db, NEW m, Alike(db, m), NEW t
  PROVE  Same(db, m, Pg!CountOverdue(db, t), Fake!CountOverdue(m, t))
<1>1. PICK f, D : /\ f = m.deadlines /\ DeadlinesAlike(db.disputes, db.deadlines, f)
                  /\ D = m.disputes /\ DisputesAlike(db.disputes, D)
  BY DEF Alike, Restored
<1>2. PICK late : late = {c \in db.deadlines : Pg!Q!Open(c) /\ c.due < t}
  OBVIOUS
<1>3. PICK pairs : pairs = UNION {{<<id, i>> : i \in {j \in DOMAIN f[id] : Fake!Open(f[id][j]) /\ f[id][j].due < t}} : id \in DOMAIN D}
  OBVIOUS
<1>4. \A id, i : <<id, i>> \in pairs <=> id \in DOMAIN D /\ i \in DOMAIN f[id] /\ f[id][i].end = "open" /\ f[id][i].due < t
  BY <1>3 DEF Fake!Open
<1>5. \A l \in pairs : l = <<l[1], l[2]>>
  BY <1>3
<1>6. PICK place : place = [c \in late |-> CHOOSE k \in DOMAIN f[c.dispute] : f[c.dispute][k] = Pg!deadlineOf(c)]
  OBVIOUS
<1>7. ASSUME NEW c \in late
      PROVE /\ c \in db.deadlines /\ c.end = "open" /\ c.due < t
            /\ place[c] \in DOMAIN f[c.dispute] /\ f[c.dispute][place[c]] = Pg!deadlineOf(c)
            /\ f[c.dispute][place[c]].end = "open" /\ f[c.dispute][place[c]].due < t
            /\ f[c.dispute][place[c]].kind = c.kind
  <2>1. c \in db.deadlines /\ c.end = "open" /\ c.due < t
    BY <1>2 DEF Pg!Q!Open
  <2>2. \E k \in DOMAIN f[c.dispute] : f[c.dispute][k] = Pg!deadlineOf(c)
    BY <1>1, <2>1 DEF DeadlinesAlike
  <2>3. PICK k : k = place[c] /\ k \in DOMAIN f[c.dispute] /\ f[c.dispute][k] = Pg!deadlineOf(c)
    BY <1>6, <2>2
  <2>4. f[c.dispute][k].end = c.end /\ f[c.dispute][k].due = c.due /\ f[c.dispute][k].kind = c.kind
    BY <2>3 DEF Pg!deadlineOf
  <2>. QED BY <2>1, <2>3, <2>4
<1>8. ASSUME NEW c \in late
      PROVE /\ c.dispute \in DOMAIN D /\ (CHOOSE d \in db.disputes : d.id = c.dispute) = D[c.dispute]
  <2>1. PICK d \in db.disputes : d.id = c.dispute
    BY <1>1, <1>7 DEF DeadlinesAlike, Belongs
  <2>2. d.id \in DOMAIN D /\ D[d.id] = d
    BY <1>1 DEF DisputesAlike
  <2>3. \A e \in db.disputes : e.id = c.dispute => e = d
    BY <1>1, <2>1 DEF DisputesAlike, TableOK
  <2>. QED BY <2>1, <2>2, <2>3
<1>9. PICK g : g = [c \in late |-> <<c.dispute, place[c]>>]
  OBVIOUS
<1>10. ASSUME NEW c \in late PROVE g[c] \in pairs /\ g[c] = <<c.dispute, place[c]>>
  <2>. QED BY <1>4, <1>7, <1>8, <1>9
<1>11. ASSUME NEW c \in late, NEW o \in late, g[c] = g[o] PROVE c = o
  <2>1. c.dispute = o.dispute /\ Pg!deadlineOf(c) = Pg!deadlineOf(o)
    BY <1>7, <1>10, <1>11
  <2>2. c.kind = o.kind /\ c.cycle = o.cycle
    BY <2>1 DEF Pg!deadlineOf
  <2>. QED BY <1>1, <1>7, <2>1, <2>2 DEF DeadlinesAlike
<1>12. ASSUME NEW l \in pairs PROVE \E c \in late : g[c] = l
  <2>1. PICK id, i : l = <<id, i>> /\ id \in DOMAIN D /\ i \in DOMAIN f[id] /\ f[id][i].end = "open" /\ f[id][i].due < t
    BY <1>4, <1>5
  <2>2. id \in Ids
    BY <1>1, <2>1 DEF DisputesAlike
  <2>3. PICK c \in db.deadlines : c.dispute = id /\ f[id][i] = Pg!deadlineOf(c)
    BY <1>1, <2>1, <2>2 DEF DeadlinesAlike
  <2>4. c \in late
    BY <1>2, <2>1, <2>3 DEF Pg!deadlineOf, Pg!Q!Open
  <2>5. PICK k : k = place[c] /\ k \in DOMAIN f[id] /\ f[id][k] = f[id][i]
    BY <1>7, <2>3, <2>4
  <2>6. \A j, h \in DOMAIN f[id] : f[id][j].kind = f[id][h].kind /\ f[id][j].cycle = f[id][h].cycle => j = h
    BY <1>1, <2>2 DEF DeadlinesAlike
  <2>7. k = i
    BY <2>1, <2>5, <2>6
  <2>. QED BY <1>10, <2>1, <2>3, <2>4, <2>5, <2>7
<1>13. PICK ten, grp : /\ ten = [c \in late |-> (CHOOSE d \in db.disputes : d.id = c.dispute).tenant]
                       /\ grp = [l \in pairs |-> <<D[l[1]].tenant, f[l[1]][l[2]].kind>>]
  OBVIOUS
<1>14. ASSUME NEW c \in late PROVE grp[g[c]] = <<ten[c], c.kind>>
  <2>1. f[c.dispute][place[c]].kind = c.kind
    BY <1>7
  <2>2. ten[c] = D[c.dispute].tenant
    BY <1>8, <1>13
  <2>3. PICK l \in pairs : l = g[c] /\ l[1] = c.dispute /\ l[2] = place[c]
    BY <1>10
  <2>. QED BY <1>13, <2>1, <2>2, <2>3
<1>15. IsFiniteSet(late)
  <2>1. late \in SUBSET db.deadlines
    BY <1>2
  <2>. QED BY <1>1, <2>1, FS_Subset DEF DeadlinesAlike
<1>16. PICK A, B : /\ A = [c \in late |-> {o \in late : ten[o] = ten[c] /\ o.kind = c.kind}]
                   /\ B = [l \in pairs |-> {o \in pairs : grp[o] = grp[l]}]
  OBVIOUS
<1>17. ASSUME NEW c \in late PROVE Cardinality(A[c]) = Cardinality(B[g[c]])
  <2>1. PICK S, U, l : S = A[c] /\ U = B[g[c]] /\ l = g[c] /\ l \in pairs
    BY <1>10
  <2>2. \A o \in late : o \in S <=> grp[g[o]] = grp[l]
    <3>1. grp[l] = <<ten[c], c.kind>> /\ \A o \in late : grp[g[o]] = <<ten[o], o.kind>>
      BY <1>14, <2>1
    <3>2. \A o \in late : o \in S <=> ten[o] = ten[c] /\ o.kind = c.kind
      BY <1>16, <2>1
    <3>. QED BY <3>1, <3>2
  <2>3. PICK h : h = [o \in S |-> g[o]]
    OBVIOUS
  <2>4. S \in SUBSET late /\ \A o \in pairs : o \in U <=> grp[o] = grp[l]
    BY <1>16, <2>1
  <2>5. U \in SUBSET pairs
    BY <1>16, <2>1
  <2>6. h \in [S -> U]
    BY <1>10, <2>2, <2>3, <2>4
  <2>7. \A x, y \in S : h[x] = h[y] => x = y
    BY <1>11, <2>3, <2>4
  <2>8. ASSUME NEW o \in U PROVE \E x \in S : h[x] = o
    <3>1. PICK x \in late : g[x] = o
      BY <1>12, <2>5
    <3>. QED BY <2>2, <2>3, <2>4, <2>5, <3>1
  <2>9. IsFiniteSet(S)
    BY <1>15, <2>4, FS_Subset
  <2>. QED BY <2>1, <2>6, <2>7, <2>8, <2>9, SameSize
<1>18. PICK V, W : /\ V = {[tenant |-> ten[c], kind |-> c.kind, n |-> Cardinality(A[c])] : c \in late}
                   /\ W = {[tenant |-> grp[l][1], kind |-> grp[l][2], n |-> Cardinality(B[l])] : l \in pairs}
  OBVIOUS
<1>19. ASSUME NEW c \in late
       PROVE [tenant |-> ten[c], kind |-> c.kind, n |-> Cardinality(A[c])]
             = [tenant |-> grp[g[c]][1], kind |-> grp[g[c]][2], n |-> Cardinality(B[g[c]])]
  BY <1>14, <1>17
<1>20. V = W
  <2>1. ASSUME NEW c \in late PROVE [tenant |-> ten[c], kind |-> c.kind, n |-> Cardinality(A[c])] \in W
    BY <1>10, <1>18, <1>19
  <2>2. ASSUME NEW l \in pairs PROVE [tenant |-> grp[l][1], kind |-> grp[l][2], n |-> Cardinality(B[l])] \in V
    <3>1. PICK c \in late : g[c] = l
      BY <1>12
    <3>. QED BY <1>18, <1>19, <3>1
  <2>. QED BY <1>18, <2>1, <2>2
<1>21. Pg!CountOverdue(db, t) = Pg!Answer(db, V)
  <2>1. Pg!Q!CountDeadlinesOverdue(db, t) =
          {[tenant |-> (CHOOSE d \in db.disputes : d.id = c.dispute).tenant, kind |-> c.kind,
            n |-> Pg!Q!Cardinality({o \in late : (CHOOSE d \in db.disputes : d.id = o.dispute).tenant
                                                  = (CHOOSE d \in db.disputes : d.id = c.dispute).tenant /\ o.kind = c.kind})] : c \in late}
    BY <1>2, Zenon DEF Pg!Q!CountDeadlinesOverdue
  <2>2. \A c \in late : ten[c] = (CHOOSE d \in db.disputes : d.id = c.dispute).tenant
    BY <1>13
  <2>3. ASSUME NEW c \in late
        PROVE A[c] = {o \in late : (CHOOSE d \in db.disputes : d.id = o.dispute).tenant
                                   = (CHOOSE d \in db.disputes : d.id = c.dispute).tenant /\ o.kind = c.kind}
    BY <1>16, <2>2
  <2>4. Pg!Q!CountDeadlinesOverdue(db, t) = V
    <3>1. PICK R, Z : /\ R = [c \in late |-> [tenant |-> ten[c], kind |-> c.kind, n |-> Cardinality(A[c])]]
                      /\ Z = [c \in late |-> [tenant |-> (CHOOSE d \in db.disputes : d.id = c.dispute).tenant, kind |-> c.kind,
                           n |-> Pg!Q!Cardinality({o \in late : (CHOOSE d \in db.disputes : d.id = o.dispute).tenant
                                                  = (CHOOSE d \in db.disputes : d.id = c.dispute).tenant /\ o.kind = c.kind})]]
      OBVIOUS
    <3>2. V = {R[c] : c \in late} /\ Pg!Q!CountDeadlinesOverdue(db, t) = {Z[c] : c \in late}
      BY <1>18, <2>1, <3>1
    <3>3. ASSUME NEW c \in late PROVE R[c] = Z[c]
      <4>1. PICK C, x : /\ C = {o \in late : (CHOOSE d \in db.disputes : d.id = o.dispute).tenant
                                               = (CHOOSE d \in db.disputes : d.id = c.dispute).tenant /\ o.kind = c.kind}
                        /\ x = (CHOOSE d \in db.disputes : d.id = c.dispute).tenant
        OBVIOUS
      <4>2. Z[c] = [tenant |-> x, kind |-> c.kind, n |-> Pg!Q!Cardinality(C)]
        BY <3>1, <4>1, Zenon
      <4>3. A[c] = C /\ ten[c] = x
        BY <2>2, <2>3, <4>1, Zenon
      <4>. QED BY <3>1, <4>2, <4>3, Sizes
    <3>. QED BY <3>2, <3>3
  <2>. QED BY <2>4 DEF Pg!CountOverdue
<1>22. Fake!CountOverdue(m, t) = Fake!Answer(m, W)
  <2>0. pairs = UNION {{<<id, i>> : i \in {j \in DOMAIN m.deadlines[id] :
                 Fake!Open(m.deadlines[id][j]) /\ m.deadlines[id][j].due < t}} : id \in DOMAIN m.disputes}
    BY <1>1, <1>3
  <2>. DEFINE G(l) == <<m.disputes[l[1]].tenant, m.deadlines[l[1]][l[2]].kind>>
  <2>1. \A l \in pairs : grp[l] = G(l)
    BY <1>1, <1>13
  <2>2. ASSUME NEW l \in pairs PROVE B[l] = {o \in pairs : G(o) = G(l)}
    BY <1>16, <2>1
  <2>3. Fake!CountOverdue(m, t) = Fake!Answer(m,
          {[tenant |-> G(l)[1], kind |-> G(l)[2], n |-> Fake!Cardinality({o \in pairs : G(o) = G(l)})] : l \in pairs})
    BY <2>0, Zenon DEF Fake!CountOverdue
  <2>. HIDE DEF G
  <2>4. PICK R, Z : /\ R = [l \in pairs |-> [tenant |-> grp[l][1], kind |-> grp[l][2], n |-> Cardinality(B[l])]]
                    /\ Z = [l \in pairs |-> [tenant |-> G(l)[1], kind |-> G(l)[2], n |-> Fake!Cardinality({o \in pairs : G(o) = G(l)})]]
    OBVIOUS
  <2>5. W = {R[l] : l \in pairs}
    BY <1>18, <2>4
  <2>6. {[tenant |-> G(l)[1], kind |-> G(l)[2], n |-> Fake!Cardinality({o \in pairs : G(o) = G(l)})] : l \in pairs} = {Z[l] : l \in pairs}
    BY <2>4
  <2>7. ASSUME NEW l \in pairs PROVE R[l] = Z[l]
    <3>1. PICK C : C = {o \in pairs : G(o) = G(l)}
      OBVIOUS
    <3>2. Z[l] = [tenant |-> G(l)[1], kind |-> G(l)[2], n |-> Fake!Cardinality(C)]
      BY <2>4, <3>1, Zenon
    <3>3. B[l] = C /\ grp[l] = G(l)
      BY <2>1, <2>2, <3>1, Zenon
    <3>. QED BY <2>4, <3>2, <3>3, Sizes
  <2>8. {R[l] : l \in pairs} = {Z[l] : l \in pairs}
    BY <2>7
  <2>. QED BY <2>3, <2>5, <2>6, <2>8, Zenon
<1>. QED BY <1>20, <1>21, <1>22, AnswersSame

-----------------------------------------------------------------------------
(* Numbered tables *)

Less(P) == {p \in P \X P : p[1] < p[2]}

\* The numbers one after the other, and how many.
Ascends(P, at, n) ==
  /\ n \in Nat /\ n = Cardinality(P) /\ at \in [1 .. n -> P]
  /\ \A i, j \in 1 .. n : i < j => at[i] < at[j]

LEMMA LessOrders ==
  ASSUME NEW P \in SUBSET Int
  PROVE  Orders(Less(P), P)
<1>1. \A x, y \in P : <<x, y>> \in Less(P) <=> x < y
  BY DEF Less
<1>2. \A x \in P : x \in Int
  OBVIOUS
<1>. QED BY <1>1, <1>2 DEF Orders

LEMMA AscendingAscends ==
  ASSUME NEW P \in SUBSET Int, IsFiniteSet(P)
  PROVE  Ascends(P, Pg!Q!Ascending(P), Cardinality(P))
<1>1. Orders(Less(P), P)
  BY LessOrders
<1>2. PICK n : n = Cardinality(P) /\ n \in Nat
  BY FS_CardinalityType
<1>3. PICK g : InOrder(Less(P), P, g)
  BY <1>1, Sortable
<1>. DEFINE S(h) == \A i, j \in DOMAIN h : i < j => h[i] < h[j]
<1>4. g \in [1 .. n -> P] /\ S(g)
  BY <1>2, <1>3 DEF InOrder, Less
<1>5. PICK f : f = Pg!Q!Ascending(P)
  OBVIOUS
<1>6. f = CHOOSE list \in [1 .. n -> P] : S(list)
  <2>1. Pg!Q!Cardinality(P) = n
    BY <1>2, Sizes
  <2>. QED BY <1>5, <2>1, Zenon DEF Pg!Q!Ascending, Pg!Q!OrderBy
<1>7. f \in [1 .. n -> P] /\ S(f)
  BY <1>4, <1>6
<1>. QED BY <1>2, <1>5, <1>7 DEF Ascends

LEMMA AscendsInOrder ==
  ASSUME NEW P \in SUBSET Int, IsFiniteSet(P), NEW f, NEW n, Ascends(P, f, n)
  PROVE  InOrder(Less(P), P, f)
BY DEF Ascends, InOrder, Less

LEMMA AscendsOnce ==
  ASSUME NEW P \in SUBSET Int, IsFiniteSet(P), NEW f, NEW g, NEW n, NEW o, Ascends(P, f, n), Ascends(P, g, o)
  PROVE  f = g /\ n = o
<1>1. InOrder(Less(P), P, f) /\ InOrder(Less(P), P, g)
  BY AscendsInOrder
<1>2. Orders(Less(P), P)
  BY LessOrders
<1>3. f = g
  BY <1>1, <1>2, SortedOnce
<1>. QED BY <1>3 DEF Ascends

LEMMA AscendsAll ==
  ASSUME NEW P \in SUBSET Int, IsFiniteSet(P), NEW f, NEW n, Ascends(P, f, n), NEW x \in P
  PROVE  \E i \in 1 .. n : f[i] = x
<1>1. InOrder(Less(P), P, f)
  BY AscendsInOrder
<1>2. Orders(Less(P), P)
  BY LessOrders
<1>3. n = Cardinality(P)
  BY DEF Ascends
<1>. QED BY <1>1, <1>2, <1>3, SortedHasAll

\* One number more, above the others.
LEMMA AscendsMore ==
  ASSUME NEW P \in SUBSET Int, IsFiniteSet(P), NEW f, NEW n, Ascends(P, f, n), NEW x \in Int, \A y \in P : y < x,
         NEW g, g = [k \in 1 .. n + 1 |-> IF k = n + 1 THEN x ELSE f[k]]
  PROVE  Ascends(P \cup {x}, g, n + 1)
<1>1. n \in Nat /\ f \in [1 .. n -> P] /\ \A i, j \in 1 .. n : i < j => f[i] < f[j]
  BY DEF Ascends
<1>2. x \notin P
  OBVIOUS
<1>3. Cardinality(P \cup {x}) = n + 1
  BY <1>2, FS_AddElement DEF Ascends
<1>4. ASSUME NEW k \in 1 .. n + 1 PROVE g[k] \in P \cup {x} /\ (k # n + 1 => k \in 1 .. n /\ g[k] = f[k] /\ g[k] \in P) /\ (k = n + 1 => g[k] = x)
  BY <1>1
<1>5. g \in [1 .. n + 1 -> P \cup {x}]
  BY <1>4
<1>6. ASSUME NEW i \in 1 .. n + 1, NEW j \in 1 .. n + 1, i < j PROVE g[i] < g[j]
  <2>1. i # n + 1
    BY <1>1, <1>6
  <2>2. CASE j = n + 1
    BY <1>4, <2>1, <2>2
  <2>3. CASE j # n + 1
    BY <1>1, <1>4, <1>6, <2>1, <2>3
  <2>. QED BY <2>2, <2>3
<1>. QED BY <1>1, <1>3, <1>5, <1>6 DEF Ascends

LEMMA PlacesOK ==
  ASSUME NEW rows, IsTable(rows)
  PROVE  /\ Len(rows) \in Nat /\ DOMAIN rows = 1 .. Len(rows) /\ IsFiniteSet(DOMAIN rows)
         /\ \A P \in SUBSET (DOMAIN rows) : P \in SUBSET Int /\ IsFiniteSet(P)
<1>1. PICK T : rows \in Seq(T)
  BY DEF IsTable
<1>2. PICK n : n = Len(rows) /\ n \in Nat /\ DOMAIN rows = 1 .. n
  BY <1>1
<1>3. IsFiniteSet(DOMAIN rows)
  BY <1>2, UpTo
<1>4. \A P \in SUBSET (DOMAIN rows) : P \in SUBSET Int
  BY <1>2
<1>5. \A P \in SUBSET (DOMAIN rows) : IsFiniteSet(P)
  BY <1>3, FS_Subset
<1>. QED BY <1>2, <1>3, <1>4, <1>5

LEMMA NumberedRows ==
  ASSUME NEW rows, IsTable(rows), NEW P \in SUBSET (DOMAIN rows), NEW at, NEW n, Ascends(P, at, n)
  PROVE  Pg!Q!Numbered(rows, P) = [k \in 1 .. n |-> rows[at[k]]]
<1>1. P \in SUBSET Int /\ IsFiniteSet(P)
  BY PlacesOK
<1>2. Pg!Q!Ascending(P) = at
  BY <1>1, AscendingAscends, AscendsOnce
<1>3. DOMAIN at = 1 .. n
  BY DEF Ascends
<1>. QED BY <1>2, <1>3 DEF Pg!Q!Numbered

\* The fake appends them one after the other.
LEMMA KeptRows ==
  ASSUME NEW rows, NEW P \in SUBSET Int, IsFiniteSet(P), NEW at, NEW n, Ascends(P, at, n)
  PROVE  Fake!Kept(rows, P) = [k \in 1 .. n |-> rows[at[k]]]
<1>1. n = Cardinality(P) /\ at \in [1 .. n -> P]
  BY DEF Ascends
<1>. DEFINE S(h) == \A i, j \in DOMAIN h : i < j => h[i] < h[j]
<1>2. S(at)
  BY <1>1 DEF Ascends
<1>3. PICK g : g = CHOOSE list \in [1 .. n -> P] : S(list)
  OBVIOUS
<1>4. g \in [1 .. n -> P] /\ S(g)
  BY <1>1, <1>2, <1>3
<1>5. Ascends(P, g, n)
  BY <1>1, <1>4 DEF Ascends
<1>6. g = at
  BY <1>5, AscendsOnce
<1>7. Fake!Kept(rows, P) = [k \in DOMAIN g |-> rows[g[k]]]
  <2>1. Fake!Cardinality(P) = n
    BY <1>1, Sizes
  <2>2. PICK z : z = CHOOSE list \in [1 .. Fake!Cardinality(P) -> P] : S(list)
    OBVIOUS
  <2>3. Fake!Kept(rows, P) = [k \in DOMAIN z |-> rows[z[k]]]
    BY <2>2 DEF Fake!Kept
  <2>4. z = g
    BY <1>3, <2>1, <2>2, Zenon
  <2>. QED BY <2>3, <2>4
<1>. QED BY <1>1, <1>6, <1>7

\* What a dispute's rows are after one row more.
LEMMA PlacesAppend ==
  ASSUME NEW rows, IsTable(rows), NEW row, NEW id
  PROVE  /\ IsTable(Append(rows, row))
         /\ DOMAIN Append(rows, row) = 1 .. Len(rows) + 1
         /\ Append(rows, row)[Len(rows) + 1] = row /\ \A i \in DOMAIN rows : Append(rows, row)[i] = rows[i]
         /\ PlacesOf(Append(rows, row), id) =
              IF row.dispute = id THEN PlacesOf(rows, id) \cup {Len(rows) + 1} ELSE PlacesOf(rows, id)
<1>1. PICK T : rows \in Seq(T)
  BY DEF IsTable
<1>2. PICK n, U, new : n = Len(rows) /\ U = T \cup {row} /\ new = Append(rows, row) 
  OBVIOUS
<1>3. rows \in Seq(U) /\ row \in U
  BY <1>1, <1>2
<1>4. /\ n \in Nat /\ DOMAIN rows = 1 .. n /\ new \in Seq(U) /\ DOMAIN new = 1 .. n + 1 /\ new[n + 1] = row
      /\ \A i \in 1 .. n : new[i] = rows[i]
  BY <1>2, <1>3
<1>5. ASSUME NEW i PROVE i \in PlacesOf(new, id) <=> i \in PlacesOf(rows, id) \/ (i = n + 1 /\ row.dispute = id)
  <2>1. i \in 1 .. n + 1 <=> i \in 1 .. n \/ i = n + 1
    BY <1>4
  <2>2. n + 1 \notin 1 .. n
    BY <1>4
  <2>. QED BY <1>4, <2>1, <2>2 DEF PlacesOf
<1>6. IsTable(new)
  BY <1>4 DEF IsTable
<1>7. PlacesOf(new, id) = IF row.dispute = id THEN PlacesOf(rows, id) \cup {n + 1} ELSE PlacesOf(rows, id)
  BY <1>5
<1>. QED BY <1>2, <1>4, <1>6, <1>7

LEMMA SliceAscends ==
  ASSUME NEW rows, IsTable(rows), NEW id, NEW at, NEW n, Ascends(PlacesOf(rows, id), at, n)
  PROVE  Slice(rows, id) = [k \in 1 .. n |-> rows[at[k]]]
<1>1. PICK P : P = PlacesOf(rows, id)
  OBVIOUS
<1>2. P \in SUBSET (DOMAIN rows)
  BY <1>1 DEF PlacesOf
<1>3. P \in SUBSET Int /\ IsFiniteSet(P)
  BY <1>2, PlacesOK
<1>4. Pg!Q!Ascending(P) = at /\ Cardinality(P) = n
  BY <1>1, <1>3, AscendingAscends, AscendsOnce
<1>. QED BY <1>1, <1>4 DEF Slice

LEMMA SliceOK ==
  ASSUME NEW rows, IsTable(rows), NEW id
  PROVE  \E at, n : /\ Ascends(PlacesOf(rows, id), at, n) /\ Slice(rows, id) = [k \in 1 .. n |-> rows[at[k]]]
                    /\ PlacesOf(rows, id) \in SUBSET (DOMAIN rows) /\ PlacesOf(rows, id) \in SUBSET Int
                    /\ IsFiniteSet(PlacesOf(rows, id))
<1>1. PICK P, at, n : P = PlacesOf(rows, id) /\ at = Pg!Q!Ascending(P) /\ n = Cardinality(P)
  OBVIOUS
<1>2. P \in SUBSET (DOMAIN rows)
  BY <1>1 DEF PlacesOf
<1>3. P \in SUBSET Int /\ IsFiniteSet(P)
  BY <1>2, PlacesOK
<1>4. Ascends(P, at, n)
  BY <1>1, <1>3, AscendingAscends
<1>5. Slice(rows, id) = [k \in 1 .. n |-> rows[at[k]]]
  BY <1>1, <1>4, SliceAscends
<1>. QED BY <1>1, <1>2, <1>3, <1>4, <1>5

LEMMA OfSeqSlice ==
  ASSUME NEW db, NEW s, NEW id, Pg!Q!Sees(db, s, id), NEW rows, IsTable(rows)
  PROVE  Pg!Q!OfSeq(db, s, rows, id) = Slice(rows, id)
<1>1. PICK P : P = PlacesOf(rows, id)
  OBVIOUS
<1>2. PICK at, n : /\ Ascends(P, at, n) /\ Slice(rows, id) = [k \in 1 .. n |-> rows[at[k]]]
                   /\ P \in SUBSET (DOMAIN rows)
  BY <1>1, SliceOK
<1>3. Pg!Q!Numbered(rows, P) = [k \in 1 .. n |-> rows[at[k]]]
  BY <1>2, NumberedRows
<1>4. {i \in DOMAIN rows : rows[i].dispute = id /\ Pg!Q!Sees(db, s, id)} = P
  BY <1>1 DEF PlacesOf
<1>. QED BY <1>2, <1>3, <1>4 DEF Pg!Q!OfSeq

LEMMA SliceAppend ==
  ASSUME NEW rows, IsTable(rows), NEW row, NEW id
  PROVE  /\ IsTable(Slice(rows, id))
         /\ Slice(Append(rows, row), id) = IF row.dispute = id THEN Append(Slice(rows, id), row) ELSE Slice(rows, id)
<1>1. PICK P, new, l : P = PlacesOf(rows, id) /\ new = Append(rows, row) /\ l = Len(rows)
  OBVIOUS
<1>2. PICK at, n : /\ Ascends(P, at, n) /\ Slice(rows, id) = [k \in 1 .. n |-> rows[at[k]]]
                   /\ P \in SUBSET (DOMAIN rows) /\ P \in SUBSET Int /\ IsFiniteSet(P)
  BY <1>1, SliceOK
<1>3. l \in Nat /\ DOMAIN rows = 1 .. l
  BY <1>1, PlacesOK
<1>4. /\ IsTable(new) /\ new[l + 1] = row /\ \A i \in DOMAIN rows : new[i] = rows[i]
      /\ PlacesOf(new, id) = IF row.dispute = id THEN P \cup {l + 1} ELSE P
  BY <1>1, PlacesAppend
<1>5. n \in Nat /\ at \in [1 .. n -> P]
  BY <1>2 DEF Ascends
<1>6. \A k \in 1 .. n : new[at[k]] = rows[at[k]]
  BY <1>2, <1>4, <1>5
<1>7. PICK S, T : S = Slice(rows, id) /\ T = {rows[at[k]] : k \in 1 .. n} \cup {row}
  OBVIOUS
<1>8. S \in [1 .. n -> T] /\ row \in T
  BY <1>2, <1>7
<1>9. S \in Seq(T)
  BY <1>5, <1>8
<1>10. Len(S) = n
  BY <1>5, <1>8
<1>11. CASE row.dispute = id
  <2>1. PICK g : g = [k \in 1 .. n + 1 |-> IF k = n + 1 THEN l + 1 ELSE at[k]]
    OBVIOUS
  <2>2. \A y \in P : y < l + 1
    BY <1>2, <1>3
  <2>3. PICK x \in Int : x = l + 1
    BY <1>3
  <2>4. Ascends(P \cup {x}, g, n + 1)
    BY <1>2, <2>1, <2>2, <2>3, AscendsMore
  <2>5. PlacesOf(new, id) = P \cup {x}
    BY <1>4, <1>11, <2>3
  <2>6. PICK o : o = n + 1
    OBVIOUS
  <2>7. Slice(new, id) = [k \in 1 .. o |-> new[g[k]]]
    <3>1. Ascends(PlacesOf(new, id), g, o)
      BY <2>4, <2>5, <2>6
    <3>2. IsTable(new)
      BY <1>4
    <3>. QED BY <3>1, <3>2, SliceAscends
  <2>8. ASSUME NEW k \in 1 .. n + 1 PROVE new[g[k]] = Append(S, row)[k]
    <3>1. CASE k = n + 1
      BY <1>4, <1>9, <1>10, <2>1, <3>1
    <3>2. CASE k # n + 1
      <4>1. k \in 1 .. n
        BY <1>5, <3>2
      <4>2. new[g[k]] = rows[at[k]] /\ S[k] = rows[at[k]]
        BY <1>2, <1>6, <1>7, <2>1, <3>2, <4>1
      <4>3. Append(S, row)[k] = S[k]
        BY <1>8, <1>9, <1>10, <4>1
      <4>. QED BY <4>2, <4>3
    <3>. QED BY <3>1, <3>2
  <2>9. Append(S, row) = [k \in 1 .. n + 1 |-> Append(S, row)[k]]
    <3>1. row \in T
      BY <1>8
    <3>2. Append(S, row) \in Seq(T) /\ Len(Append(S, row)) = n + 1
      BY <1>9, <1>10, <3>1
    <3>3. PICK a : a = Append(S, row) /\ a \in Seq(T) /\ Len(a) = n + 1
      BY <3>2
    <3>4. DOMAIN a = 1 .. n + 1
      BY <3>3
    <3>5. PICK U : a \in Seq(U)
      BY <3>3
    <3>6. a = [k \in DOMAIN a |-> a[k]]
      BY <3>5
    <3>. QED BY <3>3, <3>4, <3>6, Zenon
  <2>10. Slice(new, id) = Append(S, row)
    BY <2>6, <2>7, <2>8, <2>9
  <2>. QED BY <1>1, <1>7, <1>9, <1>11, <2>10 DEF IsTable
<1>12. CASE row.dispute # id
  <2>1. PlacesOf(new, id) = P
    BY <1>4, <1>12
  <2>2. Slice(new, id) = [k \in 1 .. n |-> new[at[k]]]
    BY <1>2, <1>4, <2>1, SliceAscends
  <2>3. Slice(new, id) = S
    BY <1>2, <1>6, <1>7, <2>2
  <2>. QED BY <1>1, <1>7, <1>9, <1>12, <2>3 DEF IsTable
<1>. QED BY <1>11, <1>12

-----------------------------------------------------------------------------
(* Risk *)

LEMMA ListRiskSame ==
  ASSUME NEW db, NEW m, Alike(db, m), NEW s, NEW id \in Ids, Pg!Q!Sees(db, s, id)
  PROVE  /\ Same(db, m, Pg!ListRisk(db, s, id), Fake!ListRisk(m, s, id))
         /\ IsTable(Slice(db.risk, id)) /\ Pg!Q!ListRiskAssessments(db, s, id) = Slice(db.risk, id)
         /\ m.risk[id] = [k \in DOMAIN Slice(db.risk, id) |-> Assessed(Slice(db.risk, id)[k])]
<1>1. RiskAlike(db.risk, m.risk)
  BY DEF Alike, Restored
<1>2. PICK S : S = Slice(db.risk, id)
  OBVIOUS
<1>3. m.risk[id] = [k \in DOMAIN S |-> Assessed(S[k])] /\ IsTable(db.risk)
  BY <1>1, <1>2 DEF RiskAlike
<1>4. Pg!Q!ListRiskAssessments(db, s, id) = S
  BY <1>2, <1>3, OfSeqSlice DEF Pg!Q!ListRiskAssessments
<1>5. Pg!ListRisk(db, s, id) = Pg!Answer(db, m.risk[id])
  BY <1>3, <1>4 DEF Pg!ListRisk, Assessed
<1>6. Fake!ListRisk(m, s, id) = Fake!Answer(m, m.risk[id])
  BY WithinAnswers DEF Fake!ListRisk
<1>7. IsTable(S)
  BY <1>2, <1>3, SliceAppend
<1>. QED BY <1>2, <1>3, <1>4, <1>5, <1>6, <1>7, AnswersSame

LEMMA AssessedList ==
  ASSUME NEW S, IsTable(S), NEW a, a = [k \in DOMAIN S |-> Assessed(S[k])]
  PROVE  /\ IsTable(a) /\ Len(a) = Len(S) /\ DOMAIN a = DOMAIN S /\ (a = <<>> <=> S = <<>>)
         /\ S # <<>> => a[Len(a)].tier = S[Len(S)].tier
<1>1. PICK T : S \in Seq(T)
  BY DEF IsTable
<1>2. PICK n : n = Len(S) /\ n \in Nat /\ DOMAIN S = 1 .. n
  BY <1>1
<1>3. PICK U : U = {Assessed(S[k]) : k \in 1 .. n}
  OBVIOUS
<1>4. a \in [1 .. n -> U]
  BY <1>2, <1>3
<1>5. a \in Seq(U)
  BY <1>2, <1>4
<1>6. Len(a) = n /\ DOMAIN a = 1 .. n
  BY <1>2, <1>4, <1>5
<1>7. (a = <<>> <=> n = 0) /\ (S = <<>> <=> n = 0)
  BY <1>1, <1>2, <1>5, <1>6
<1>8. ASSUME S # <<>> PROVE a[Len(a)].tier = S[Len(S)].tier
  <2>1. n \in 1 .. n
    BY <1>2, <1>7, <1>8
  <2>2. a[n] = Assessed(S[n])
    BY <1>2, <2>1
  <2>3. a[n].tier = S[n].tier
    BY <2>2 DEF Assessed
  <2>. QED BY <1>2, <1>6, <2>3
<1>9. IsTable(a)
  BY <1>5 DEF IsTable
<1>. QED BY <1>2, <1>6, <1>7, <1>8, <1>9

LEMMA SeenInTenant ==
  ASSUME NEW db, NEW m, Alike(db, m), NEW s, NEW id, Pg!Q!Sees(db, s, id)
  PROVE  Fake!InTenant(m, s, id)
<1>1. PICK d \in db.disputes : d.tenant = s.tenant /\ d.id = id
  BY DEF Pg!Q!Sees, Pg!Q!Scoped, Pg!Q!InTenant
<1>. QED BY <1>1 DEF Fake!InTenant, Alike, Restored, DisputesAlike

LEMMA LatestRiskSame ==
  ASSUME NEW db, NEW m, Alike(db, m), NEW s, NEW ids, \A id \in ids : id \in Ids /\ Pg!Q!Sees(db, s, id)
  PROVE  Same(db, m, Pg!LatestRisk(db, s, ids), Fake!LatestRisk(m, s, ids))
<1>1. PICK L : L = [id \in ids |-> Pg!Q!ListRiskAssessments(db, s, id)]
  OBVIOUS
<1>2. ASSUME NEW id \in ids
      PROVE /\ L[id] # <<>> <=> m.risk[id] # <<>>
            /\ L[id] # <<>> => Pg!Q!Last(L[id]).tier = m.risk[id][Len(m.risk[id])].tier
  <2>1. PICK S, a : S = Slice(db.risk, id) /\ a = m.risk[id]
    OBVIOUS
  <2>2. L[id] = S
    BY <1>1, <2>1, ListRiskSame
  <2>3. IsTable(S)
    BY <2>1, ListRiskSame
  <2>4. a = [k \in DOMAIN S |-> Assessed(S[k])]
    BY <2>1, ListRiskSame
  <2>5. (a = <<>> <=> S = <<>>) /\ (S # <<>> => a[Len(a)].tier = S[Len(S)].tier)
    BY <2>3, <2>4, AssessedList
  <2>6. Pg!Q!Last(S) = S[Len(S)]
    BY DEF Pg!Q!Last
  <2>. QED BY <2>1, <2>2, <2>5, <2>6
<1>3. PICK D, v : D = {i \in ids : L[i] # <<>>} /\ v = [id \in D |-> Pg!Q!Last(L[id]).tier]
  OBVIOUS
<1>4. Pg!LatestRisk(db, s, ids) = Pg!Answer(db, v)
  BY <1>1, <1>3 DEF Pg!LatestRisk, Pg!Q!LatestRiskTiers
<1>5. {i \in ids : Fake!InTenant(m, s, i) /\ m.risk[i] # <<>>} = D
  BY <1>2, <1>3, SeenInTenant
<1>6. [id \in D |-> m.risk[id][Len(m.risk[id])].tier] = v
  BY <1>2, <1>3
<1>7. Fake!LatestRisk(m, s, ids) = Fake!Answer(m, v)
  BY <1>5, <1>6, Zenon DEF Fake!LatestRisk
<1>. QED BY <1>4, <1>7, AnswersSame

LEMMA TableIsFunction == ASSUME NEW c, IsTable(c) PROVE c = [k \in DOMAIN c |-> c[k]]
<1>1. PICK T : c \in Seq(T)
  BY DEF IsTable
<1>. QED BY <1>1

LEMMA AppendTable ==
  ASSUME NEW rows, IsTable(rows), NEW row
  PROVE  LET new == Append(rows, row)
         IN /\ IsTable(new) /\ Len(new) = Len(rows) + 1 /\ DOMAIN new = 1 .. Len(rows) + 1
            /\ new[Len(rows) + 1] = row /\ \A i \in DOMAIN rows : new[i] = rows[i]
<1>1. PICK T : rows \in Seq(T)
  BY DEF IsTable
<1>2. rows \in Seq(T \cup {row}) /\ row \in T \cup {row}
  BY <1>1
<1>3. PICK U : rows \in Seq(U) /\ row \in U
  BY <1>2
<1>. QED BY <1>3 DEF IsTable

LEMMA MapAppend ==
  ASSUME NEW S, IsTable(S), NEW x, NEW a, DOMAIN a = DOMAIN S, IsTable(a), NEW y,
         NEW c, DOMAIN c = DOMAIN Append(S, x), IsTable(c), c[Len(S) + 1] = y, \A k \in DOMAIN S : c[k] = a[k]
  PROVE  c = Append(a, y)
<1>1. PICK T, U, V : S \in Seq(T) /\ a \in Seq(U) /\ c \in Seq(V)
  BY DEF IsTable
<1>2. PICK n : n = Len(S) /\ n \in Nat /\ DOMAIN S = 1 .. n
  BY <1>1
<1>3. DOMAIN Append(S, x) = 1 .. n + 1
  BY <1>2, AppendTable
<1>4. Len(a) = n /\ Len(c) = n + 1
  BY <1>1, <1>2, <1>3
<1>5. PICK e : e = Append(a, y)
  OBVIOUS
<1>6. IsTable(e) /\ DOMAIN e = 1 .. n + 1 /\ e[n + 1] = y /\ \A k \in DOMAIN a : e[k] = a[k]
  BY <1>4, <1>5, AppendTable
<1>7. \A k \in 1 .. n + 1 : c[k] = e[k]
  BY <1>2, <1>6
<1>8. c = e
  <2>1. DOMAIN c = 1 .. n + 1
    BY <1>3
  <2>2. c = [k \in DOMAIN c |-> c[k]] /\ e = [k \in DOMAIN e |-> e[k]]
    BY <1>6, TableIsFunction
  <2>3. [k \in 1 .. n + 1 |-> c[k]] = [k \in 1 .. n + 1 |-> e[k]]
    BY <1>7
  <2>. QED BY <1>6, <2>1, <2>2, <2>3, Zenon
<1>. QED BY <1>5, <1>8

LEMMA InsertRiskSame ==
  ASSUME NEW db, NEW m, Alike(db, m), NEW s, NEW id \in Ids, Pg!Q!Sees(db, s, id), NEW seq, NEW tier,
         \A i \in DOMAIN db.risk : ~(db.risk[i].dispute = id /\ db.risk[i].seq = seq),
         NEW r, r = [seq |-> seq, tier |-> tier]
  PROVE  Same(db, m, Pg!InsertRisk(db, s, id, r), Fake!InsertRisk(m, s, id, r))
<1>1. PICK rows, f : rows = db.risk /\ f = m.risk /\ RiskAlike(rows, f)
  BY DEF Alike, Restored
<1>2. PICK row : row = [dispute |-> id, seq |-> r.seq, tier |-> r.tier]
  OBVIOUS
<1>3. PICK X, nd : X = Append(rows, row) /\ nd = [db EXCEPT !.risk = X]
  OBVIOUS
<1>4. PICK p, q : p = Pg!InsertRisk(db, s, id, r) /\ q = Fake!InsertRisk(m, s, id, r)
  OBVIOUS
<1>5. p.err = "ok" /\ p.val = 0 /\ p.db = nd
  <2>1. ~\E o \in Pg!Q!Range(db.risk) : o.dispute = id /\ o.seq = r.seq
    BY <1>1 DEF Pg!Q!Range
  <2>2. Pg!Q!InsertRiskAssessment(db, s, id, r) = Pg!Q!Done(nd, 1)
    BY <1>1, <1>2, <1>3, <2>1 DEF Pg!Q!InsertRiskAssessment
  <2>. QED BY <1>4, <2>2 DEF Pg!InsertRisk, Pg!Exec, Pg!mapErr, Pg!Q!Done
<1>6. PICK Y, nm : Y = [f EXCEPT ![id] = Append(f[id], r)] /\ nm = [m EXCEPT !.risk = Y]
  OBVIOUS
<1>7. q = Fake!Answer(nm, 0)
  <2>1. [m EXCEPT !.risk[id] = Append(@, r)] = nm
    BY <1>1, <1>6
  <2>2. q = Fake!Within(m, s, id, Fake!Answer([m EXCEPT !.risk[id] = Append(@, r)], 0))
    BY <1>4, Zenon DEF Fake!InsertRisk
  <2>3. PICK w : w = Fake!Answer(nm, 0)
    OBVIOUS
  <2>4. q = Fake!Within(m, s, id, w)
    BY <2>1, <2>2, <2>3, Zenon
  <2>. QED BY <2>3, <2>4, WithinAnswers
<1>8. q.err = "ok" /\ q.val = 0 /\ q.db = nm
  BY <1>7 DEF Fake!Answer
<1>9. RiskAlike(X, Y)
  <2>1. DOMAIN f = Ids /\ IsTable(rows)
    BY <1>1 DEF RiskAlike
  <2>2. DOMAIN Y = Ids /\ IsTable(X)
    BY <1>3, <1>6, <2>1, PlacesAppend
  <2>3. row.dispute = id /\ Assessed(row) = r
    BY <1>2 DEF Assessed
  <2>4. ASSUME NEW i \in Ids PROVE Y[i] = [k \in DOMAIN Slice(X, i) |-> Assessed(Slice(X, i)[k])]
    <3>1. PICK S, Z : S = Slice(rows, i) /\ Z = Slice(X, i)
      OBVIOUS
    <3>2. f[i] = [k \in DOMAIN S |-> Assessed(S[k])]
      BY <1>1, <3>1 DEF RiskAlike
    <3>3. IsTable(S) /\ Z = IF row.dispute = i THEN Append(S, row) ELSE S
      BY <1>3, <2>1, <3>1, SliceAppend
    <3>4. CASE i # id
      BY <1>6, <2>1, <2>3, <3>1, <3>2, <3>3, <3>4
    <3>5. CASE i = id
      <4>1. Z = Append(S, row)
        BY <2>3, <3>3, <3>5
      <4>2. PICK a, c : a = f[i] /\ c = [k \in DOMAIN Z |-> Assessed(Z[k])]
        OBVIOUS
      <4>3. IsTable(Z) /\ Z[Len(S) + 1] = row /\ (\A k \in DOMAIN S : Z[k] = S[k] /\ k \in DOMAIN Z) /\ Len(S) + 1 \in DOMAIN Z
        <5>1. /\ IsTable(Z) /\ DOMAIN Z = 1 .. Len(S) + 1 /\ Z[Len(S) + 1] = row /\ \A k \in DOMAIN S : Z[k] = S[k]
          BY <3>3, <4>1, AppendTable
        <5>2. Len(S) \in Nat /\ DOMAIN S = 1 .. Len(S)
          BY <3>3, PlacesOK
        <5>. QED BY <5>1, <5>2
      <4>4. IsTable(a) /\ DOMAIN a = DOMAIN S
        BY <3>2, <3>3, <4>2, AssessedList
      <4>5. IsTable(c) /\ DOMAIN c = DOMAIN Z
        BY <4>2, <4>3, AssessedList
      <4>6. c[Len(S) + 1] = r /\ \A k \in DOMAIN S : c[k] = a[k]
        BY <2>3, <3>2, <4>2, <4>3
      <4>7. c = Append(a, r)
        BY <3>3, <4>1, <4>4, <4>5, <4>6, MapAppend
      <4>. QED BY <1>6, <2>1, <3>1, <3>5, <4>2, <4>7
    <3>. QED BY <3>4, <3>5
  <2>. QED BY <2>2, <2>4 DEF RiskAlike
<1>10. PgOK(nd)
  BY <1>4, <1>5, InsertRiskKeeps DEF Keeps, Alike
<1>11. Holds(db, m, nd, nm)
  BY <1>3, <1>6, <1>9, <1>10, RiskWrite
<1>. QED BY <1>4, <1>5, <1>8, <1>11 DEF Same, Said

-----------------------------------------------------------------------------
(* Ledger *)

LEMMA SliceHas ==
  ASSUME NEW rows, IsTable(rows), NEW id
  PROVE  /\ \A k \in DOMAIN Slice(rows, id) : \E i \in DOMAIN rows : rows[i].dispute = id /\ Slice(rows, id)[k] = rows[i]
         /\ \A i \in DOMAIN rows : rows[i].dispute = id => \E k \in DOMAIN Slice(rows, id) : Slice(rows, id)[k] = rows[i]
<1>1. PICK P, S : P = PlacesOf(rows, id) /\ S = Slice(rows, id)
  OBVIOUS
<1>2. PICK at, n : /\ Ascends(P, at, n) /\ S = [k \in 1 .. n |-> rows[at[k]]]
                   /\ P \in SUBSET (DOMAIN rows) /\ P \in SUBSET Int /\ IsFiniteSet(P)
  BY <1>1, SliceOK
<1>3. at \in [1 .. n -> P]
  BY <1>2 DEF Ascends
<1>4. ASSUME NEW k \in DOMAIN S PROVE \E i \in DOMAIN rows : rows[i].dispute = id /\ S[k] = rows[i]
  <2>1. at[k] \in P /\ S[k] = rows[at[k]]
    BY <1>2, <1>3
  <2>. QED BY <1>1, <2>1 DEF PlacesOf
<1>5. ASSUME NEW i \in DOMAIN rows, rows[i].dispute = id PROVE \E k \in DOMAIN S : S[k] = rows[i]
  <2>1. i \in P
    BY <1>1, <1>5 DEF PlacesOf
  <2>2. PICK k \in 1 .. n : at[k] = i
    BY <1>2, <2>1, AscendsAll
  <2>. QED BY <1>2, <2>2
<1>. QED BY <1>1, <1>4, <1>5

LEMMA EntryList ==
  ASSUME NEW S, IsTable(S), NEW a, a = [k \in DOMAIN S |-> Pg!EntryOf(S[k])]
  PROVE  IsTable(a) /\ Len(a) = Len(S) /\ DOMAIN a = DOMAIN S
<1>1. PICK T : S \in Seq(T)
  BY DEF IsTable
<1>2. PICK n : n = Len(S) /\ n \in Nat /\ DOMAIN S = 1 .. n
  BY <1>1
<1>3. PICK U : U = {Pg!EntryOf(S[k]) : k \in 1 .. n}
  OBVIOUS
<1>4. a \in [1 .. n -> U]
  BY <1>2, <1>3
<1>5. a \in Seq(U)
  BY <1>2, <1>4
<1>6. Len(a) = n /\ DOMAIN a = 1 .. n
  BY <1>2, <1>4, <1>5
<1>. QED BY <1>2, <1>5, <1>6 DEF IsTable

LEMMA ListLedgerSame ==
  ASSUME NEW db, NEW m, Alike(db, m), NEW s, NEW id \in Ids, Pg!Q!Sees(db, s, id)
  PROVE  Same(db, m, Pg!ListLedger(db, s, id), Fake!ListLedger(m, s, id))
<1>1. LedgerAlike(db.disputes, db.ledger, m.ledger)
  BY DEF Alike, Restored
<1>2. PICK S : S = Slice(db.ledger, id)
  OBVIOUS
<1>3. m.ledger[id] = [k \in DOMAIN S |-> Pg!EntryOf(S[k])] /\ IsTable(db.ledger)
  BY <1>1, <1>2 DEF LedgerAlike
<1>4. Pg!Q!ListLedgerEntries(db, s, id) = S
  BY <1>2, <1>3, OfSeqSlice DEF Pg!Q!ListLedgerEntries
<1>5. Pg!ListLedger(db, s, id) = Pg!Answer(db, m.ledger[id])
  BY <1>3, <1>4 DEF Pg!ListLedger
<1>6. Fake!ListLedger(m, s, id) = Fake!Answer(m, m.ledger[id])
  BY WithinAnswers DEF Fake!ListLedger
<1>. QED BY <1>5, <1>6, AnswersSame

\* One entry: the table's two keys and the fake's reference tell the same entries apart.
LEMMA BookSame ==
  ASSUME NEW db, NEW m, Alike(db, m), NEW s, NEW id \in Ids, Pg!Q!Sees(db, s, id), NEW seq, NEW kind,
         NEW e, e = [seq |-> seq, kind |-> kind, reference |-> <<id, seq, kind>>]
  PROVE  Same(db, m, Pg!Exec(Pg!Q!InsertLedgerEntry(db, s, id, e)), Fake!Book(m, id, e))
<1>1. PICK rows, f : rows = db.ledger /\ f = m.ledger /\ LedgerAlike(db.disputes, rows, f)
  BY DEF Alike, Restored
<1>2. PICK p, q : p = Pg!Exec(Pg!Q!InsertLedgerEntry(db, s, id, e)) /\ q = Fake!Book(m, id, e)
  OBVIOUS
<1>3. e.seq = seq /\ e.kind = kind /\ e.reference = <<id, seq, kind>>
  OBVIOUS
<1>4. DOMAIN f = Ids /\ IsTable(rows) /\ \A i \in DOMAIN rows : rows[i].reference = <<rows[i].dispute, rows[i].seq, rows[i].kind>>
  BY <1>1 DEF LedgerAlike
<1>5. PICK d \in db.disputes : d.id = id /\ d.tenant = s.tenant
  BY DEF Pg!Q!Sees, Pg!Q!Scoped, Pg!Q!InTenant
<1>. DEFINE Known == \E i \in DOMAIN rows : rows[i].dispute = id /\ rows[i].seq = seq /\ rows[i].kind = kind
<1>6. (\E r \in Pg!Q!Range(db.ledger) : \/ (r.dispute = id /\ r.seq = e.seq /\ r.kind = e.kind)
                                        \/ (r.tenant = s.tenant /\ r.reference = e.reference)) <=> Known
  <2>1. ASSUME NEW i \in DOMAIN rows, rows[i].reference = e.reference
        PROVE rows[i].dispute = id /\ rows[i].seq = seq /\ rows[i].kind = kind
    <3>1. <<rows[i].dispute, rows[i].seq, rows[i].kind>> = <<id, seq, kind>>
      BY <1>3, <1>4, <2>1
    <3>. QED BY <3>1
  <2>2. Pg!Q!Range(db.ledger) = {rows[i] : i \in DOMAIN rows}
    BY <1>1 DEF Pg!Q!Range
  <2>. QED BY <1>3, <2>1, <2>2
<1>7. PICK S : S = Slice(rows, id) /\ f[id] = [k \in DOMAIN S |-> Pg!EntryOf(S[k])]
  BY <1>1 DEF LedgerAlike
<1>8. (\E r \in Fake!Elements(m.ledger[id]) : r.reference = e.reference) <=> Known
  <2>1. \A r : r.reference = Pg!EntryOf(r).reference
    BY DEF Pg!EntryOf
  <2>2. (\E r \in Fake!Elements(m.ledger[id]) : r.reference = e.reference) <=> \E k \in DOMAIN S : S[k].reference = e.reference
    BY <1>1, <1>7, <2>1 DEF Fake!Elements
  <2>3. ASSUME NEW k \in DOMAIN S, S[k].reference = e.reference PROVE Known
    <3>1. PICK i \in DOMAIN rows : rows[i].dispute = id /\ S[k] = rows[i]
      BY <1>4, <1>7, SliceHas
    <3>2. <<rows[i].dispute, rows[i].seq, rows[i].kind>> = <<id, seq, kind>>
      BY <1>3, <1>4, <2>3, <3>1
    <3>3. rows[i].seq = seq /\ rows[i].kind = kind
      BY <3>2
    <3>. QED BY <3>1, <3>3
  <2>4. ASSUME NEW i \in DOMAIN rows, rows[i].dispute = id, rows[i].seq = seq, rows[i].kind = kind
        PROVE \E k \in DOMAIN S : S[k].reference = e.reference
    <3>1. PICK k \in DOMAIN S : S[k] = rows[i]
      BY <1>4, <1>7, <2>4, SliceHas
    <3>2. rows[i].reference = e.reference
      BY <1>3, <1>4, <2>4
    <3>. QED BY <3>1, <3>2
  <2>. QED BY <2>2, <2>3, <2>4
<1>9. CASE Known
  <2>0. (\E r \in Pg!Q!Range(db.ledger) : \/ (r.dispute = id /\ r.seq = e.seq /\ r.kind = e.kind)
                                          \/ (r.tenant = s.tenant /\ r.reference = e.reference))
    BY <1>6, <1>9
  <2>. HIDE DEF Known
  <2>1. Pg!Q!InsertLedgerEntry(db, s, id, e) = Pg!Q!Refused("23505", db)
    BY <2>0 DEF Pg!Q!InsertLedgerEntry, Pg!Q!UniqueViolation
  <2>2. p.err = "conflict" /\ p.db = db
    BY <1>2, <2>1 DEF Pg!Exec, Pg!mapErr, Pg!Q!Refused
  <2>3. q.err = "conflict" /\ q.db = m
    BY <1>2, <1>8, <1>9 DEF Fake!Book, Fake!Failure
  <2>. QED BY <1>2, <2>2, <2>3, ReadSame DEF Said
<1>10. CASE ~Known
  <2>0. ~(\E r \in Pg!Q!Range(db.ledger) : \/ (r.dispute = id /\ r.seq = e.seq /\ r.kind = e.kind)
                                           \/ (r.tenant = s.tenant /\ r.reference = e.reference))
    BY <1>6, <1>10
  <2>1. PICK row : row = [dispute |-> id, tenant |-> s.tenant, seq |-> e.seq, kind |-> e.kind, reference |-> e.reference]
    OBVIOUS
  <2>2. PICK X, nd : X = Append(rows, row) /\ nd = [db EXCEPT !.ledger = X]
    OBVIOUS
  <2>3. Pg!Q!InsertLedgerEntry(db, s, id, e) = Pg!Q!Done(nd, 1)
    BY <1>1, <2>0, <2>1, <2>2 DEF Pg!Q!InsertLedgerEntry
  <2>4. p.err = "ok" /\ p.val = 0 /\ p.db = nd
    BY <1>2, <2>3 DEF Pg!Exec, Pg!mapErr, Pg!Q!Done
  <2>5. PICK Y, nm : Y = [f EXCEPT ![id] = Append(f[id], e)] /\ nm = [m EXCEPT !.ledger = Y]
    OBVIOUS
  <2>6. q = Fake!Answer(nm, 0)
    <3>1. [m EXCEPT !.ledger[id] = Append(@, e)] = nm
      BY <1>1, <2>5
    <3>2. ~\E r \in Fake!Elements(m.ledger[id]) : r.reference = e.reference
      BY <1>8, <1>10
    <3>3. q = Fake!Answer([m EXCEPT !.ledger[id] = Append(@, e)], 0)
      BY <1>2, <3>2, Zenon DEF Fake!Book
    <3>. QED BY <3>1, <3>3, Zenon
  <2>7. q.err = "ok" /\ q.val = 0 /\ q.db = nm
    BY <2>6 DEF Fake!Answer
  <2>8. LedgerAlike(db.disputes, X, Y)
    <3>1. IsTable(X) /\ DOMAIN X = 1 .. Len(rows) + 1 /\ X[Len(rows) + 1] = row /\ \A i \in DOMAIN rows : X[i] = rows[i]
      BY <1>4, <2>2, AppendTable
    <3>2. Len(rows) \in Nat /\ DOMAIN rows = 1 .. Len(rows)
      BY <1>4, PlacesOK
    <3>3. row.dispute = id /\ row.tenant = s.tenant /\ Pg!EntryOf(row) = e /\ row.reference = <<row.dispute, row.seq, row.kind>>
      BY <1>3, <2>1 DEF Pg!EntryOf
    <3>4. ASSUME NEW i \in DOMAIN X
          PROVE /\ X[i].dispute \in Ids /\ X[i].reference = <<X[i].dispute, X[i].seq, X[i].kind>>
                /\ \E o \in db.disputes : o.id = X[i].dispute /\ o.tenant = X[i].tenant
      <4>1. CASE i = Len(rows) + 1
        BY <1>5, <3>1, <3>3, <4>1
      <4>2. CASE i # Len(rows) + 1
        <5>1. i \in DOMAIN rows /\ X[i] = rows[i]
          BY <3>1, <3>2, <4>2
        <5>. QED BY <1>1, <5>1 DEF LedgerAlike
      <4>. QED BY <4>1, <4>2
    <3>5. DOMAIN Y = Ids
      BY <1>4, <2>5
    <3>6. ASSUME NEW i \in Ids PROVE Y[i] = [k \in DOMAIN Slice(X, i) |-> Pg!EntryOf(Slice(X, i)[k])]
      <4>1. PICK R, Z : R = Slice(rows, i) /\ Z = Slice(X, i)
        OBVIOUS
      <4>2. f[i] = [k \in DOMAIN R |-> Pg!EntryOf(R[k])]
        BY <1>1, <4>1 DEF LedgerAlike
      <4>3. IsTable(R) /\ Z = IF row.dispute = i THEN Append(R, row) ELSE R
        BY <1>4, <2>2, <4>1, SliceAppend
      <4>4. CASE i # id
        BY <1>4, <2>5, <3>3, <4>1, <4>2, <4>3, <4>4
      <4>5. CASE i = id
        <5>1. Z = Append(R, row)
          BY <3>3, <4>3, <4>5
        <5>2. PICK a, c : a = f[i] /\ c = [k \in DOMAIN Z |-> Pg!EntryOf(Z[k])]
          OBVIOUS
        <5>3. IsTable(Z) /\ Z[Len(R) + 1] = row /\ (\A k \in DOMAIN R : Z[k] = R[k] /\ k \in DOMAIN Z) /\ Len(R) + 1 \in DOMAIN Z
          <6>1. IsTable(Z) /\ DOMAIN Z = 1 .. Len(R) + 1 /\ Z[Len(R) + 1] = row /\ \A k \in DOMAIN R : Z[k] = R[k]
            BY <4>3, <5>1, AppendTable
          <6>2. Len(R) \in Nat /\ DOMAIN R = 1 .. Len(R)
            BY <4>3, PlacesOK
          <6>. QED BY <6>1, <6>2
        <5>4. IsTable(a) /\ DOMAIN a = DOMAIN R
          BY <4>2, <4>3, <5>2, EntryList
        <5>5. IsTable(c) /\ DOMAIN c = DOMAIN Z
          BY <5>2, <5>3, EntryList
        <5>6. c[Len(R) + 1] = e /\ \A k \in DOMAIN R : c[k] = a[k]
          BY <3>3, <4>2, <5>2, <5>3
        <5>7. c = Append(a, e)
          BY <4>3, <5>1, <5>4, <5>5, <5>6, MapAppend
        <5>. QED BY <1>4, <2>5, <4>1, <4>5, <5>2, <5>7
      <4>. QED BY <4>4, <4>5
    <3>. QED BY <3>1, <3>4, <3>5, <3>6 DEF LedgerAlike
  <2>9. PgOK(nd)
    BY <1>2, <2>4, OneEntryKeeps DEF Keeps, Alike
  <2>10. Holds(db, m, nd, nm)
    BY <2>2, <2>5, <2>8, <2>9, LedgerWrite
  <2>. QED BY <1>2, <2>4, <2>7, <2>10 DEF Same, Said
<1>. QED BY <1>9, <1>10

LEMMA SameThenSame ==
  ASSUME NEW db, NEW m, NEW p, NEW q, Same(db, m, p, q), NEW p2, NEW q2, Same(p.db, q.db, p2, q2)
  PROVE  Same(db, m, p2, q2)
<1>1. Said(p2, q2) /\ Holds(db, m, p.db, q.db) /\ Holds(p.db, q.db, p2.db, q2.db)
  BY DEF Same
<1>2. PICK d1, m1, d2, m2 : d1 = p.db /\ m1 = q.db /\ d2 = p2.db /\ m2 = q2.db
  OBVIOUS
<1>3. Holds(db, m, d1, m1) /\ Holds(d1, m1, d2, m2)
  BY <1>1, <1>2
<1>4. Alike(d2, m2) /\ OwnSame(m, m2)
  BY <1>3 DEF Holds, OwnSame
<1>5. ASSUME NEW s, NEW id, Pg!Q!Sees(db, s, id) PROVE Pg!Q!Sees(d2, s, id)
  BY <1>3, <1>5 DEF Holds
<1>6. Holds(db, m, d2, m2)
  BY <1>4, <1>5 DEF Holds
<1>. QED BY <1>1, <1>2, <1>6 DEF Same

\* The loops over one or two entries, unrolled.
\* One entry, and two.
Written(db, s, id, e) == Pg!Exec(Pg!Q!InsertLedgerEntry(db, s, id, e))
WrittenTwo(db, s, id, e, o) ==
  IF Written(db, s, id, e).err = "ok" THEN Written(Written(db, s, id, e).db, s, id, o) ELSE Written(db, s, id, e)
Booked(db, id, e) == Fake!Book(db, id, e)
BookedTwo(db, id, e, o) ==
  IF Booked(db, id, e).err = "ok" THEN Booked(Booked(db, id, e).db, id, o) ELSE Booked(db, id, e)

LEMMA LedgerLoop ==
  ASSUME NEW db, NEW s, NEW id, NEW es, Len(es) \in 1 .. 2
  PROVE  Pg!AppendLedger(db, s, id, es) =
           IF Len(es) = 1 THEN Written(db, s, id, es[1]) ELSE WrittenTwo(db, s, id, es[1], es[2])
<1>. PICK b1, b2 : /\ b1 = Pg!Exec(Pg!Q!InsertLedgerEntry(db, s, id, es[1]))
                   /\ b2 = IF b1.err = "ok" THEN Pg!Exec(Pg!Q!InsertLedgerEntry(b1.db, s, id, es[2])) ELSE b1
  OBVIOUS
<1>. Written(db, s, id, es[1]) = b1 /\ WrittenTwo(db, s, id, es[1], es[2]) = b2
  BY DEF Written, WrittenTwo
<1>0. \A n \in 0 .. Len(es) : n = 0 \/ n = 1 \/ n = 2
  <2>. SUFFICES ASSUME NEW L \in 1..2, NEW n \in 0 .. L PROVE n = 0 \/ n = 1 \/ n = 2
    OBVIOUS
  <2>. QED  OBVIOUS
<1>. DEFINE Loop(g) == [n \in 0 .. Len(es) |->
                          IF n = 0 THEN Pg!Answer(db, 0)
                          ELSE IF g[n - 1].err = "ok" THEN Pg!Exec(Pg!Q!InsertLedgerEntry(g[n - 1].db, s, id, es[n]))
                          ELSE g[n - 1]]
<1>1. \E g : g = Loop(g)
  <2>1. PICK a0 : a0 = Pg!Answer(db, 0)
    OBVIOUS
  <2>2. PICK a1 : a1 = IF a0.err = "ok" THEN Pg!Exec(Pg!Q!InsertLedgerEntry(a0.db, s, id, es[1])) ELSE a0
    OBVIOUS
  <2>3. PICK a2 : a2 = IF a1.err = "ok" THEN Pg!Exec(Pg!Q!InsertLedgerEntry(a1.db, s, id, es[2])) ELSE a1
    OBVIOUS
  <2>4. PICK g : g = [n \in 0 .. Len(es) |-> IF n = 0 THEN a0 ELSE IF n = 1 THEN a1 ELSE a2]
    OBVIOUS
  <2>5. g[0] = a0 /\ g[1] = a1 /\ (Len(es) = 2 => g[2] = a2)
    BY <2>4
  <2>6. ASSUME NEW n \in 0 .. Len(es) PROVE g[n] = Loop(g)[n]
    <3>1. CASE n = 0
      BY <2>1, <2>5, <3>1
    <3>2. CASE n = 1
      BY <2>2, <2>5, <3>2
    <3>3. CASE n = 2
      BY <2>3, <2>5, <3>3
    <3>4. n = 0 \/ n = 1 \/ n = 2
      BY <1>0
    <3>. QED  BY <3>1, <3>2, <3>3, <3>4
  <2>7. g = Loop(g)
    BY <2>4, <2>6
  <2>. QED  BY <2>7
<1>2. PICK f : f = Loop(f) /\ Pg!AppendLedger(db, s, id, es) = f[Len(es)]
  BY <1>1 DEF Pg!AppendLedger, Pg!Each
<1>3. f[0].db = db /\ f[0].err = "ok"
  BY <1>2 DEF Pg!Answer
<1>4. f[1] = IF f[0].err = "ok" THEN Pg!Exec(Pg!Q!InsertLedgerEntry(f[0].db, s, id, es[1])) ELSE f[0]
  BY <1>2
<1>5. f[1] = b1
  BY <1>3, <1>4
<1>6. CASE Len(es) = 1
  BY <1>2, <1>5, <1>6
<1>7. CASE Len(es) = 2
  <2>1. f[2] = IF f[1].err = "ok" THEN Pg!Exec(Pg!Q!InsertLedgerEntry(f[1].db, s, id, es[2])) ELSE f[1]
    BY <1>2, <1>7
  <2>. QED BY <1>2, <1>5, <1>7, <2>1
<1>. QED BY <1>6, <1>7

LEMMA BookLoop ==
  ASSUME NEW db, NEW s, NEW id, NEW es, Len(es) \in 1 .. 2
  PROVE  Fake!AppendLedger(db, s, id, es) =
           Fake!Within(db, s, id, IF Len(es) = 1 THEN Booked(db, id, es[1]) ELSE BookedTwo(db, id, es[1], es[2]))
<1>. PICK b1, b2 : b1 = Fake!Book(db, id, es[1]) /\ b2 = IF b1.err = "ok" THEN Fake!Book(b1.db, id, es[2]) ELSE b1
  OBVIOUS
<1>. Booked(db, id, es[1]) = b1 /\ BookedTwo(db, id, es[1], es[2]) = b2
  BY DEF Booked, BookedTwo
<1>0. \A n \in 0 .. Len(es) : n = 0 \/ n = 1 \/ n = 2
  <2>. SUFFICES ASSUME NEW L \in 1..2, NEW n \in 0 .. L PROVE n = 0 \/ n = 1 \/ n = 2
    OBVIOUS
  <2>. QED  OBVIOUS
<1>. DEFINE Loop(g) == [n \in 0 .. Len(es) |->
                          IF n = 0 THEN Fake!Answer(db, 0)
                          ELSE IF g[n - 1].err = "ok" THEN Fake!Book(g[n - 1].db, id, es[n]) ELSE g[n - 1]]
<1>1. \E g : g = Loop(g)
  <2>1. PICK a0 : a0 = Fake!Answer(db, 0)
    OBVIOUS
  <2>2. PICK a1 : a1 = IF a0.err = "ok" THEN Fake!Book(a0.db, id, es[1]) ELSE a0
    OBVIOUS
  <2>3. PICK a2 : a2 = IF a1.err = "ok" THEN Fake!Book(a1.db, id, es[2]) ELSE a1
    OBVIOUS
  <2>4. PICK g : g = [n \in 0 .. Len(es) |-> IF n = 0 THEN a0 ELSE IF n = 1 THEN a1 ELSE a2]
    OBVIOUS
  <2>5. g[0] = a0 /\ g[1] = a1 /\ (Len(es) = 2 => g[2] = a2)
    BY <2>4
  <2>6. ASSUME NEW n \in 0 .. Len(es) PROVE g[n] = Loop(g)[n]
    <3>1. CASE n = 0
      BY <2>1, <2>5, <3>1
    <3>2. CASE n = 1
      BY <2>2, <2>5, <3>2
    <3>3. CASE n = 2
      BY <2>3, <2>5, <3>3
    <3>4. n = 0 \/ n = 1 \/ n = 2
      BY <1>0
    <3>. QED  BY <3>1, <3>2, <3>3, <3>4
  <2>7. g = Loop(g)
    BY <2>4, <2>6
  <2>. QED  BY <2>7
<1>2. PICK f : f = Loop(f) /\ Fake!AppendLedger(db, s, id, es) = Fake!Within(db, s, id, f[Len(es)])
  BY <1>1 DEF Fake!AppendLedger
<1>3. f[0].db = db /\ f[0].err = "ok"
  BY <1>2 DEF Fake!Answer
<1>4. f[1] = IF f[0].err = "ok" THEN Fake!Book(f[0].db, id, es[1]) ELSE f[0]
  BY <1>2
<1>5. f[1] = b1
  BY <1>3, <1>4
<1>6. CASE Len(es) = 1
  BY <1>2, <1>5, <1>6
<1>7. CASE Len(es) = 2
  <2>1. f[2] = IF f[1].err = "ok" THEN Fake!Book(f[1].db, id, es[2]) ELSE f[1]
    BY <1>2, <1>7
  <2>2. f[2] = b2
    BY <1>5, <2>1
  <2>. QED BY <1>2, <1>7, <2>2
<1>. QED BY <1>6, <1>7

LEMMA AppendLedgerSame ==
  ASSUME NEW db, NEW m, Alike(db, m), NEW s, NEW id \in Ids, Pg!Q!Sees(db, s, id), NEW seq,
         NEW kinds, kinds \in {<<"advance">>, <<"clear">>, <<"clear", "advance">>},
         NEW es, es = [i \in DOMAIN kinds |-> [seq |-> seq, kind |-> kinds[i], reference |-> <<id, seq, kinds[i]>>]]
  PROVE  Same(db, m, Pg!AppendLedger(db, s, id, es), Fake!AppendLedger(m, s, id, es))
<1>1. PICK n \in 1 .. 2 : DOMAIN kinds = 1 .. n
  OBVIOUS
<1>2. PICK L : L = Len(es) /\ L = n
  BY <1>1
<1>2a. L \in 1 .. 2
  BY <1>2
<1>2b. Len(es) \in 1 .. 2
  BY <1>2, <1>2a
<1>2c. \A i \in 1 .. n : es[i] = [seq |-> seq, kind |-> kinds[i], reference |-> <<id, seq, kinds[i]>>]
  BY <1>1
<1>2d. 1 \in 1 .. n /\ (n = 2 => 2 \in 1 .. n)
  OBVIOUS
<1>3. PICK k1, k2, e1, e2 : k1 = kinds[1] /\ k2 = kinds[2] /\ e1 = es[1] /\ e2 = es[2]
  OBVIOUS
<1>4. e1 = [seq |-> seq, kind |-> k1, reference |-> <<id, seq, k1>>]
  BY <1>2c, <1>2d, <1>3
<1>5. n = 2 => e2 = [seq |-> seq, kind |-> k2, reference |-> <<id, seq, k2>>]
  BY <1>2c, <1>2d, <1>3
<1>6. PICK p1, q1 : p1 = Pg!Exec(Pg!Q!InsertLedgerEntry(db, s, id, e1)) /\ q1 = Fake!Book(m, id, e1)
  OBVIOUS
<1>7. PICK p2, q2 : /\ p2 = IF p1.err = "ok" THEN Pg!Exec(Pg!Q!InsertLedgerEntry(p1.db, s, id, e2)) ELSE p1
                    /\ q2 = IF q1.err = "ok" THEN Fake!Book(q1.db, id, e2) ELSE q1
  OBVIOUS
<1>8. PICK p, q : p = (IF n = 1 THEN p1 ELSE p2) /\ q = (IF n = 1 THEN q1 ELSE q2)
  OBVIOUS
<1>8a. p1 = Pg!Exec(Pg!Q!InsertLedgerEntry(db, s, id, es[1])) /\ q1 = Fake!Book(m, id, es[1])
  BY <1>3, <1>6
<1>8b. p2 = IF p1.err = "ok" THEN Pg!Exec(Pg!Q!InsertLedgerEntry(p1.db, s, id, es[2])) ELSE p1
  BY <1>3, <1>7
<1>8c. q2 = IF q1.err = "ok" THEN Fake!Book(q1.db, id, es[2]) ELSE q1
  BY <1>3, <1>7
<1>9. Pg!AppendLedger(db, s, id, es) = p
  <2>1. Pg!AppendLedger(db, s, id, es) = IF Len(es) = 1 THEN p1 ELSE p2
    <3>1. Written(db, s, id, es[1]) = p1 /\ WrittenTwo(db, s, id, es[1], es[2]) = p2
      BY <1>8a, <1>8b DEF Written, WrittenTwo
    <3>. QED BY <1>2b, <3>1, LedgerLoop
  <2>. QED BY <1>2, <1>8, <2>1
<1>10. Fake!AppendLedger(m, s, id, es) = q
  <2>1. Fake!AppendLedger(m, s, id, es) = Fake!Within(m, s, id, q)
    <3>1. Fake!AppendLedger(m, s, id, es) = Fake!Within(m, s, id, IF Len(es) = 1 THEN q1 ELSE q2)
      <4>1. Booked(m, id, es[1]) = q1 /\ BookedTwo(m, id, es[1], es[2]) = q2
        BY <1>8a, <1>8c DEF Booked, BookedTwo
      <4>. QED BY <1>2b, <4>1, BookLoop
    <3>2. q = IF Len(es) = 1 THEN q1 ELSE q2
      BY <1>2, <1>8
    <3>. QED BY <3>1, <3>2
  <2>. QED BY <2>1, WithinAnswers
<1>11. Same(db, m, p1, q1)
  BY <1>4, <1>6, BookSame
<1>12. ASSUME n = 2 PROVE Same(db, m, p2, q2)
  <2>1. p1.err = q1.err
    BY <1>11 DEF Same, Said
  <2>2. CASE p1.err # "ok"
    BY <1>7, <1>11, <2>1, <2>2
  <2>3. CASE p1.err = "ok"
    <3>1. PICK d1, m1 : d1 = p1.db /\ m1 = q1.db /\ Alike(d1, m1) /\ Pg!Q!Sees(d1, s, id)
      BY <1>11 DEF Same, Holds
    <3>2. p2 = Pg!Exec(Pg!Q!InsertLedgerEntry(d1, s, id, e2)) /\ q2 = Fake!Book(m1, id, e2)
      BY <1>7, <2>1, <2>3, <3>1
    <3>3. Same(d1, m1, p2, q2)
      BY <1>5, <1>12, <3>1, <3>2, BookSame
    <3>. QED BY <1>11, <3>1, <3>3, SameThenSame
  <2>. QED BY <2>2, <2>3
<1>. QED BY <1>8, <1>9, <1>10, <1>11, <1>12

-----------------------------------------------------------------------------
(* Notices *)

LEMMA NoticesOK ==
  ASSUME NEW db, NEW m, Alike(db, m)
  PROVE  /\ NoticesAlike(db.notices, m.notices) /\ IsTable(db.notices)
         /\ DOMAIN m.notices = DOMAIN db.notices
         /\ \A i \in DOMAIN db.notices : m.notices[i] = Pg!noticeOf(db.notices[i])
<1>1. NoticesAlike(db.notices, m.notices)
  BY DEF Alike, Restored
<1>. QED BY <1>1 DEF NoticesAlike

LEMMA ListNoticesSame ==
  ASSUME NEW db, NEW m, Alike(db, m), NEW s, NEW id \in Ids, Pg!Q!Sees(db, s, id)
  PROVE  \E v : /\ Pg!ListNotices(db, s, id) = Pg!Answer(db, v) /\ Fake!ListNotices(m, s, id) = Fake!Answer(m, v)
                /\ v = [k \in DOMAIN Slice(db.notices, id) |-> Pg!noticeOf(Slice(db.notices, id)[k])]
                /\ Pg!Q!ListNotices(db, s, id) = Slice(db.notices, id)
<1>1. PICK rows, list : rows = db.notices /\ list = m.notices
  OBVIOUS
<1>2. IsTable(rows) /\ DOMAIN list = DOMAIN rows /\ \A i \in DOMAIN rows : list[i] = Pg!noticeOf(rows[i])
  BY <1>1, NoticesOK
<1>3. PICK P : P = PlacesOf(rows, id)
  OBVIOUS
<1>4. PICK at, n : /\ Ascends(P, at, n) /\ Slice(rows, id) = [k \in 1 .. n |-> rows[at[k]]]
                   /\ P \in SUBSET (DOMAIN rows) /\ P \in SUBSET Int /\ IsFiniteSet(P)
  BY <1>2, <1>3, SliceOK
<1>5. {i \in DOMAIN list : list[i].dispute = id} = P
  BY <1>2, <1>3 DEF PlacesOf, Pg!noticeOf
<1>6. PICK S, v : S = Slice(rows, id) /\ v = [k \in DOMAIN S |-> Pg!noticeOf(S[k])]
  OBVIOUS
<1>7. Pg!Q!ListNotices(db, s, id) = S
  BY <1>1, <1>2, <1>6, OfSeqSlice DEF Pg!Q!ListNotices
<1>8. Pg!ListNotices(db, s, id) = Pg!Answer(db, v)
  BY <1>6, <1>7 DEF Pg!ListNotices
<1>9. Fake!Kept(list, P) = [k \in 1 .. n |-> list[at[k]]]
  BY <1>4, KeptRows
<1>10. \A k \in 1 .. n : at[k] \in DOMAIN rows
  BY <1>4 DEF Ascends
<1>11. Fake!Kept(list, P) = v
  BY <1>2, <1>4, <1>6, <1>9, <1>10
<1>12. Fake!ListNotices(m, s, id) = Fake!Within(m, s, id, Fake!Answer(m, v))
  BY <1>1, <1>5, <1>11, Zenon DEF Fake!ListNotices
<1>13. Fake!ListNotices(m, s, id) = Fake!Answer(m, v)
  BY <1>12, WithinAnswers
<1>. QED BY <1>1, <1>6, <1>7, <1>8, <1>13

LEMMA GetNoticeSame ==
  ASSUME NEW db, NEW m, Alike(db, m), NEW s, NEW id \in Ids, Pg!Q!Sees(db, s, id), NEW n
  PROVE  /\ Same(db, m, Pg!GetNotice(db, s, id, n), Fake!GetNotice(m, s, id, n))
         /\ Same(db, m, Pg!ListNotices(db, s, id), Fake!ListNotices(m, s, id))
<1>1. PICK S : S = Slice(db.notices, id)
  OBVIOUS
<1>2. PICK v : /\ Pg!ListNotices(db, s, id) = Pg!Answer(db, v) /\ Fake!ListNotices(m, s, id) = Fake!Answer(m, v)
               /\ v = [k \in DOMAIN S |-> Pg!noticeOf(S[k])]
               /\ Pg!Q!ListNotices(db, s, id) = S
  BY <1>1, ListNoticesSame
<1>3. PICK F : F = {o \in Fake!Elements(v) : o.id = n}
  OBVIOUS
<1>4. {Pg!noticeOf(o) : o \in Pg!Q!GetNotice(db, s, id, n)} = F
  BY <1>2, <1>3 DEF Pg!Q!GetNotice, Pg!Q!Range, Fake!Elements, Pg!noticeOf
<1>5. Pg!GetNotice(db, s, id, n) = IF F = {} THEN Pg!Failure(db, "notfound") ELSE Pg!Answer(db, CHOOSE r \in F : TRUE)
  <2>1. Pg!GetNotice(db, s, id, n) = Pg!One(db, F)
    BY <1>4, Zenon DEF Pg!GetNotice
  <2>. QED BY <2>1 DEF Pg!One
<1>6. Fake!GetNotice(m, s, id, n) = IF F = {} THEN Fake!Failure(m, "notfound") ELSE Fake!Answer(m, CHOOSE r \in F : TRUE)
  <2>1. Fake!Answer(m, v).err = "ok" /\ Fake!Answer(m, v).val = v
    BY DEF Fake!Answer
  <2>2. PICK l : l = Fake!ListNotices(m, s, id)
    OBVIOUS
  <2>3. l.err = "ok" /\ l.val = v
    BY <1>2, <2>1, <2>2
  <2>4. PICK found : found = {o \in Fake!Elements(l.val) : o.id = n}
    OBVIOUS
  <2>5. Fake!GetNotice(m, s, id, n) =
          IF l.err # "ok" THEN l
          ELSE IF found = {} THEN Fake!Failure(m, "notfound") ELSE Fake!Answer(m, CHOOSE r \in found : TRUE)
    BY <2>2, <2>4 DEF Fake!GetNotice
  <2>6. found = F
    BY <1>3, <2>3, <2>4
  <2>. QED BY <2>3, <2>5, <2>6
<1>7. CASE F = {}
  <2>1. PICK p, q : p = Pg!Failure(db, "notfound") /\ q = Fake!Failure(m, "notfound")
    OBVIOUS
  <2>2. p.db = db /\ q.db = m /\ Said(p, q)
    BY <2>1 DEF Pg!Failure, Fake!Failure, Said
  <2>. QED BY <1>2, <1>5, <1>6, <1>7, <2>1, <2>2, ReadSame, AnswersSame
<1>8. CASE F # {}
  <2>1. PICK c : c = CHOOSE r \in F : TRUE
    OBVIOUS
  <2>2. Pg!GetNotice(db, s, id, n) = Pg!Answer(db, c) /\ Fake!GetNotice(m, s, id, n) = Fake!Answer(m, c)
    BY <1>5, <1>6, <1>8, <2>1
  <2>. QED BY <1>2, <2>2, AnswersSame
<1>. QED BY <1>7, <1>8

LEMMA UnsentSame ==
  ASSUME NEW db, NEW m, Alike(db, m)
  PROVE  \E U, at, n : /\ U = Pg!Q!Unsent(db) /\ U \in SUBSET (DOMAIN db.notices) /\ U \in SUBSET Int
                       /\ IsFiniteSet(U) /\ Ascends(U, at, n)
                       /\ Fake!Unsent(m) = [k \in 1 .. n |-> m.notices[at[k]]]
<1>1. PICK rows, list : rows = db.notices /\ list = m.notices
  OBVIOUS
<1>2. IsTable(rows) /\ DOMAIN list = DOMAIN rows /\ \A i \in DOMAIN rows : list[i] = Pg!noticeOf(rows[i])
  BY <1>1, NoticesOK
<1>3. PICK U, at, n : U = Pg!Q!Unsent(db) /\ at = Pg!Q!Ascending(U) /\ n = Cardinality(U)
  OBVIOUS
<1>4. U \in SUBSET (DOMAIN rows)
  BY <1>1, <1>3 DEF Pg!Q!Unsent
<1>5. U \in SUBSET Int /\ IsFiniteSet(U)
  BY <1>2, <1>4, PlacesOK
<1>6. Ascends(U, at, n)
  BY <1>3, <1>5, AscendingAscends
<1>7. {i \in DOMAIN list : ~list[i].sent /\ list[i].channel = "EMAIL"} = U
  <2>1. \A i \in DOMAIN rows : list[i].sent = rows[i].sent /\ list[i].channel = rows[i].channel
    BY <1>2 DEF Pg!noticeOf
  <2>2. U = {i \in DOMAIN rows : ~rows[i].sent /\ rows[i].channel = "EMAIL"}
    BY <1>1, <1>3, Zenon DEF Pg!Q!Unsent
  <2>. QED BY <1>2, <2>1, <2>2
<1>8. Fake!Unsent(m) = Fake!Kept(list, U)
  BY <1>1, <1>7, Zenon DEF Fake!Unsent
<1>9. Fake!Unsent(m) = [k \in 1 .. n |-> list[at[k]]]
  BY <1>5, <1>6, <1>8, KeptRows
<1>. QED BY <1>1, <1>3, <1>4, <1>5, <1>6, <1>9

LEMMA OutboxBacklogSame ==
  ASSUME NEW db, NEW m, Alike(db, m)
  PROVE  Same(db, m, Pg!OutboxBacklog(db), Fake!OutboxBacklog(m))
<1>1. PICK U, at, n : U = Pg!Q!Unsent(db) /\ Ascends(U, at, n) /\ Fake!Unsent(m) = [k \in 1 .. n |-> m.notices[at[k]]]
  BY UnsentSame
<1>2. n \in Nat /\ n = Cardinality(U)
  BY <1>1 DEF Ascends
<1>3. Pg!OutboxBacklog(db) = Pg!Answer(db, n)
  BY <1>1, <1>2, Sizes DEF Pg!OutboxBacklog, Pg!Q!OutboxBacklog
<1>4. PICK v, T : v = Fake!Unsent(m) /\ T = {m.notices[at[k]] : k \in 1 .. n}
  OBVIOUS
<1>5. v \in [1 .. n -> T]
  BY <1>1, <1>4
<1>6. v \in Seq(T)
  BY <1>2, <1>5
<1>7. Len(v) = n
  BY <1>2, <1>5, <1>6
<1>8. Fake!OutboxBacklog(m) = Fake!Answer(m, n)
  BY <1>4, <1>7 DEF Fake!OutboxBacklog
<1>. QED BY <1>3, <1>8, AnswersSame

\* What only Postgres keeps: when a claimed notice may be claimed again.
LEMMA LeasedWrite ==
  ASSUME NEW db, NEW m, Alike(db, m), NEW X
  PROVE  Holds(db, m, [db EXCEPT !.leased = X], m)
<1>1. PICK nd : nd = [db EXCEPT !.leased = X]
  OBVIOUS
<1>2. DOMAIN db = PgFields /\ DOMAIN m = MemFields
  BY DEF Alike, PgOK
<1>3. DOMAIN nd = PgFields /\ \A f \in PgFields \ {"leased"} : nd[f] = db[f]
  BY <1>1, <1>2 DEF PgFields, DisputeTables, NumberedTables, TenantTables
<1>4. "leased" \notin DisputeTables /\ "leased" \notin NumberedTables /\ nd.disputes = db.disputes
  BY <1>3 DEF PgFields, DisputeTables, NumberedTables, TenantTables
<1>5. PgOK(nd)
  <2>1. \A f \in DisputeTables \cup NumberedTables : nd[f] = db[f]
    BY <1>3, <1>4 DEF PgFields
  <2>. QED BY <1>3, <1>4, <2>1 DEF Alike, PgOK
<1>6. Restored(nd, m)
  BY <1>3 DEF Alike, Restored, PgFields, DisputeTables, NumberedTables, TenantTables
<1>7. Own(nd, m) /\ nd.noticeId = m.nextNotice
  BY <1>3 DEF Alike, Own, SettingsAlike, PgFields, DisputeTables, NumberedTables, TenantTables
<1>8. Holds(db, m, nd, m)
  BY <1>2, <1>4, <1>5, <1>6, <1>7, SeesTable DEF Alike, Holds, OwnSame
<1>. QED BY <1>1, <1>8

LEMMA ClaimNoticesSame ==
  ASSUME NEW db, NEW m, Alike(db, m), NEW p, NEW q, p = Pg!ClaimNotices(db, 1), q = Fake!ClaimNotices(m, Len(m.notices))
  PROVE  Same(db, m, [p EXCEPT !.val = Claimed(@) \ Claimed(q.val)], [q EXCEPT !.val = {}])
<1>1. PICK rows, list : rows = db.notices /\ list = m.notices
  OBVIOUS
<1>2. IsTable(rows) /\ DOMAIN list = DOMAIN rows /\ \A i \in DOMAIN rows : list[i] = Pg!noticeOf(rows[i])
  BY <1>1, NoticesOK
<1>3. PICK U, at, n : /\ U = Pg!Q!Unsent(db) /\ U \in SUBSET (DOMAIN rows) /\ U \in SUBSET Int
                      /\ IsFiniteSet(U) /\ Ascends(U, at, n)
                      /\ Fake!Unsent(m) = [k \in 1 .. n |-> list[at[k]]]
  BY <1>1, UnsentSame
<1>4. PICK L : L = Len(list) /\ L \in Nat /\ DOMAIN rows = 1 .. L
  <2>1. list = [i \in DOMAIN rows |-> Pg!noticeOf(rows[i])]
    BY <1>1, NoticesOK DEF NoticesAlike
  <2>2. PICK l : l = Len(rows) /\ l \in Nat /\ DOMAIN rows = 1 .. l
    BY <1>2, PlacesOK
  <2>3. PICK T : T = {Pg!noticeOf(rows[i]) : i \in 1 .. l}
    OBVIOUS
  <2>4. list \in [1 .. l -> T]
    BY <2>1, <2>2, <2>3
  <2>5. list \in Seq(T)
    BY <2>2, <2>4
  <2>6. Len(list) = l
    BY <2>2, <2>4, <2>5
  <2>. QED BY <2>2, <2>6
<1>5. n \in Nat /\ n <= L
  <2>1. IsFiniteSet(1 .. L) /\ Cardinality(1 .. L) = L
    BY <1>4, UpTo
  <2>2. U \in SUBSET (1 .. L)
    BY <1>3, <1>4
  <2>3. Cardinality(U) <= Cardinality(1 .. L)
    BY <2>1, <2>2, FS_Subset
  <2>. QED BY <1>3, <2>1, <2>3 DEF Ascends
<1>6. q.err = "ok" /\ q.db = m /\ DOMAIN q = {"err", "val", "db"}
  BY DEF Fake!ClaimNotices, Fake!Answer
<1>7. ASSUME NEW i \in U PROVE list[i] \in q.val
  <2>1. PICK k \in 1 .. n : at[k] = i
    BY <1>3, AscendsAll
  <2>2. PICK due : due = Fake!Unsent(m)
    OBVIOUS
  <2>3. k \in DOMAIN due /\ due[k] = list[i] /\ k <= L
    <3>1. due = [j \in 1 .. n |-> list[at[j]]]
      BY <1>3, <2>2
    <3>2. k \in DOMAIN due /\ due[k] = list[at[k]]
      BY <2>1, <3>1
    <3>3. k <= L
      BY <1>4, <1>5, <2>1
    <3>. QED BY <2>1, <3>2, <3>3
  <2>4. q.val = {due[j] : j \in {o \in DOMAIN due : o <= L}}
    BY <1>1, <1>4, <2>2 DEF Fake!ClaimNotices, Fake!Answer
  <2>. QED BY <2>3, <2>4
<1>8. PICK P, due : P = {i \in U : rows[i].id \notin db.leased} /\ due = Pg!Q!Numbered(rows, P)
  OBVIOUS
<1>9. PICK by, o : Ascends(P, by, o)
  <2>1. P \in SUBSET Int /\ IsFiniteSet(P)
    BY <1>3, <1>8, FS_Subset
  <2>. QED BY <2>1, AscendingAscends
<1>10. due = [k \in 1 .. o |-> rows[by[k]]] /\ o \in Nat /\ \A k \in 1 .. o : by[k] \in U
  <2>1. P \in SUBSET (DOMAIN rows)
    BY <1>3, <1>8
  <2>2. due = [k \in 1 .. o |-> rows[by[k]]]
    <3>1. due = Pg!Q!Numbered(rows, P)
      BY <1>8
    <3>2. Pg!Q!Numbered(rows, P) = [k \in 1 .. o |-> rows[by[k]]]
      BY <1>2, <1>9, <2>1, NumberedRows
    <3>. QED BY <3>1, <3>2
  <2>3. o \in Nat /\ by \in [1 .. o -> P]
    BY <1>9 DEF Ascends
  <2>. QED BY <1>8, <2>2, <2>3
<1>11. PICK T : T = {rows[i] : i \in U}
  OBVIOUS
<1>12. due \in [1 .. o -> T]
  BY <1>10, <1>11
<1>13. due \in Seq(T)
  BY <1>10, <1>12
<1>14. PICK b, taken : b = (IF Len(due) < 1 THEN Len(due) ELSE 1) /\ taken = SubSeq(due, 1, b)
  OBVIOUS
<1>15. \A x \in Pg!Q!Range(taken) : x \in T
  <2>1. Len(due) \in Nat /\ b \in 0 .. Len(due)
    BY <1>13, <1>14
  <2>2. taken \in Seq(T)
    BY <1>13, <1>14, <2>1
  <2>. QED BY <2>2 DEF Pg!Q!Range
<1>16. PICK ids, cols, out :
         /\ ids = {x.id : x \in Pg!Q!Range(taken)}
         /\ cols = {[id |-> x.id, tenant |-> x.tenant, dispute |-> x.dispute, seq |-> x.seq, channel |-> x.channel] :
                     x \in Pg!Q!Range(taken)}
         /\ out = {Pg!claimedOf(x) : x \in cols}
  OBVIOUS
<1>17. p.err = "ok" /\ p.val = out /\ p.db = [db EXCEPT !.leased = db.leased \cup ids] /\ DOMAIN p = {"err", "val", "db"}
  <2>1. PICK nd : nd = [db EXCEPT !.leased = db.leased \cup ids]
    OBVIOUS
  <2>2. PICK c : c = Pg!Q!ClaimNotices(db, 1)
    OBVIOUS
  <2>3. c = [rows |-> cols, db |-> nd]
    BY <1>1, <1>3, <1>8, <1>14, <1>16, <2>1, <2>2 DEF Pg!Q!ClaimNotices
  <2>4. p = Pg!Answer(c.db, {Pg!claimedOf(x) : x \in c.rows})
    BY <2>2 DEF Pg!ClaimNotices
  <2>5. c.db = nd /\ c.rows = cols
    BY <2>3
  <2>6. p = [err |-> "ok", val |-> out, db |-> nd]
    BY <1>16, <2>4, <2>5 DEF Pg!Answer
  <2>7. p.err = "ok" /\ p.val = out /\ p.db = nd /\ DOMAIN p = {"err", "val", "db"}
    BY <2>6
  <2>. QED BY <2>1, <2>7, Zenon
<1>18. ASSUME NEW y \in out
       PROVE  [id |-> y.id, dispute |-> y.dispute, seq |-> y.seq, channel |-> y.channel, sent |-> y.sent] \in Claimed(q.val)
  <2>1. PICK x \in Pg!Q!Range(taken) :
          y = Pg!claimedOf([id |-> x.id, tenant |-> x.tenant, dispute |-> x.dispute, seq |-> x.seq, channel |-> x.channel])
    BY <1>16
  <2>2. PICK i \in U : x = rows[i]
    BY <1>11, <1>15
  <2>3. PICK l : l = list[i] /\ l \in q.val /\ l = Pg!noticeOf(x)
    BY <1>2, <1>3, <1>7, <2>2
  <2>4. x.sent = FALSE
    <3>1. ~x.sent
      BY <1>1, <1>3, <2>2 DEF Pg!Q!Unsent
    <3>2. x.sent \in BOOLEAN
      BY <1>1, <1>3, <2>2, NoticesOK DEF NoticesAlike
    <3>. QED BY <3>1, <3>2
  <2>5. y.id = x.id /\ y.dispute = x.dispute /\ y.seq = x.seq /\ y.channel = x.channel /\ y.sent = FALSE
    BY <2>1 DEF Pg!claimedOf
  <2>6. l.id = x.id /\ l.dispute = x.dispute /\ l.seq = x.seq /\ l.channel = x.channel /\ l.sent = FALSE
    BY <2>3, <2>4 DEF Pg!noticeOf
  <2>. QED BY <2>3, <2>5, <2>6 DEF Claimed
<1>19. PICK r, w : r = [p EXCEPT !.val = Claimed(@) \ Claimed(q.val)] /\ w = [q EXCEPT !.val = {}]
  OBVIOUS
<1>20. Claimed(out) \ Claimed(q.val) = {}
  BY <1>18 DEF Claimed
<1>21. r.err = "ok" /\ r.val = {} /\ r.db = p.db /\ w.err = "ok" /\ w.val = {} /\ w.db = m
  BY <1>6, <1>17, <1>19, <1>20
<1>22. Holds(db, m, r.db, w.db)
  BY <1>17, <1>21, LeasedWrite
<1>. QED BY <1>19, <1>21, <1>22 DEF Same, Said

LEMMA FinishNoticeSame ==
  ASSUME NEW db, NEW m, Alike(db, m), NEW id, NEW failed \in BOOLEAN
  PROVE  Same(db, m, Pg!FinishNotice(db, id, failed), Fake!FinishNotice(m, id, failed))
<1>1. PICK rows, list : rows = db.notices /\ list = m.notices
  OBVIOUS
<1>2. IsTable(rows) /\ DOMAIN list = DOMAIN rows /\ \A i \in DOMAIN rows : list[i] = Pg!noticeOf(rows[i])
  BY <1>1, NoticesOK
<1>3. \A i \in DOMAIN rows : DOMAIN rows[i] = NoticeFields /\ rows[i].sent \in BOOLEAN
  BY <1>1, NoticesOK DEF NoticesAlike
<1>4. PICK X, Y : /\ X = [i \in DOMAIN rows |-> IF rows[i].id = id /\ ~failed THEN [rows[i] EXCEPT !.sent = TRUE] ELSE rows[i]]
                  /\ Y = [i \in DOMAIN list |-> IF list[i].id = id /\ ~failed THEN [list[i] EXCEPT !.sent = TRUE] ELSE list[i]]
  OBVIOUS
<1>5. PICK nd, nm : nd = [db EXCEPT !.notices = X] /\ nm = [m EXCEPT !.notices = Y]
  OBVIOUS
<1>6. ASSUME NEW i \in DOMAIN rows PROVE DOMAIN X[i] = NoticeFields /\ X[i].sent \in BOOLEAN /\ Y[i] = Pg!noticeOf(X[i])
  <2>1. PICK r, l : r = rows[i] /\ l = list[i] /\ l = Pg!noticeOf(r) /\ DOMAIN r = NoticeFields /\ r.sent \in BOOLEAN
    BY <1>2, <1>3
  <2>2. l = [id |-> r.id, dispute |-> r.dispute, seq |-> r.seq, channel |-> r.channel, actor |-> r.actor, sent |-> r.sent,
             resendOf |-> r.resend_of]
    BY <2>1 DEF Pg!noticeOf
  <2>3. /\ X[i] = IF r.id = id /\ ~failed THEN [r EXCEPT !.sent = TRUE] ELSE r
        /\ Y[i] = IF l.id = id /\ ~failed THEN [l EXCEPT !.sent = TRUE] ELSE l
    BY <1>2, <1>4, <2>1
  <2>4. l.id = r.id
    BY <2>2
  <2>5. CASE r.id = id /\ ~failed
    <3>1. PICK x, y : x = [r EXCEPT !.sent = TRUE] /\ y = [l EXCEPT !.sent = TRUE]
      OBVIOUS
    <3>2. X[i] = x /\ Y[i] = y
      BY <2>3, <2>4, <2>5, <3>1
    <3>3. /\ DOMAIN x = NoticeFields /\ x.id = r.id /\ x.dispute = r.dispute /\ x.seq = r.seq /\ x.channel = r.channel
          /\ x.actor = r.actor /\ x.sent = TRUE /\ x.resend_of = r.resend_of
      BY <2>1, <3>1 DEF NoticeFields
    <3>4. y = [id |-> r.id, dispute |-> r.dispute, seq |-> r.seq, channel |-> r.channel, actor |-> r.actor, sent |-> TRUE,
               resendOf |-> r.resend_of]
      BY <2>2, <3>1
    <3>5. y = Pg!noticeOf(x)
      BY <3>3, <3>4 DEF Pg!noticeOf
    <3>. QED BY <3>2, <3>3, <3>5
  <2>6. CASE ~(r.id = id /\ ~failed)
    BY <2>1, <2>3, <2>4, <2>6
  <2>. QED BY <2>5, <2>6
<1>7. PICK n, T : n = Len(rows) /\ n \in Nat /\ DOMAIN rows = 1 .. n /\ T = {X[i] : i \in 1 .. n}
  BY <1>2, PlacesOK
<1>8. X \in [1 .. n -> T]
  BY <1>4, <1>7
<1>9. X \in Seq(T)
  BY <1>7, <1>8
<1>10. DOMAIN X = DOMAIN rows /\ DOMAIN Y = DOMAIN rows
  BY <1>2, <1>4
<1>11. Y = [i \in DOMAIN X |-> Pg!noticeOf(X[i])]
  <2>1. PICK Z : Z = [i \in DOMAIN rows |-> Pg!noticeOf(X[i])]
    OBVIOUS
  <2>2. \A i \in DOMAIN rows : Y[i] = Z[i]
    BY <1>6, <2>1
  <2>3. PICK g : g = [i \in DOMAIN rows |-> IF list[i].id = id /\ ~failed THEN [list[i] EXCEPT !.sent = TRUE] ELSE list[i]]
    OBVIOUS
  <2>4. Y = g
    BY <1>2, <1>4, <2>3
  <2>5. g = Z
    BY <2>1, <2>2, <2>3, <2>4
  <2>. QED BY <1>10, <2>1, <2>4, <2>5
<1>12. NoticesAlike(X, Y)
  BY <1>6, <1>9, <1>10, <1>11 DEF NoticesAlike, IsTable
<1>13. PgOK(nd)
  <2>1. DOMAIN db = PgFields
    BY DEF Alike, PgOK
  <2>2. DOMAIN nd = PgFields /\ nd.notices = X /\ \A f \in PgFields \ {"notices"} : nd[f] = db[f]
    BY <1>5, <2>1 DEF PgFields, DisputeTables, NumberedTables, TenantTables
  <2>3. nd.disputes = db.disputes /\ \A f \in DisputeTables : nd[f] = db[f]
    BY <2>2 DEF PgFields, DisputeTables
  <2>4. \A f \in NumberedTables : f = "notices" \/ nd[f] = db[f]
    BY <2>2 DEF PgFields
  <2>5. \A f \in NumberedTables : \E S : nd[f] \in Seq(S)
    BY <1>9, <2>2, <2>4 DEF Alike, PgOK
  <2>. QED BY <2>2, <2>3, <2>5 DEF Alike, PgOK
<1>14. Holds(db, m, nd, nm)
  BY <1>5, <1>12, <1>13, NoticesWrite
<1>15. PICK p, q : p = Pg!FinishNotice(db, id, failed) /\ q = Fake!FinishNotice(m, id, failed)
  OBVIOUS
<1>16. p.err = "ok" /\ p.val = 0 /\ p.db = nd
  <2>1. Pg!Q!FinishNotice(db, id, failed) = Pg!Q!Done(nd, 1)
    BY <1>1, <1>4, <1>5 DEF Pg!Q!FinishNotice
  <2>. QED BY <1>15, <2>1 DEF Pg!FinishNotice, Pg!Exec, Pg!mapErr, Pg!Q!Done
<1>17. q = Fake!Answer(nm, 0)
  BY <1>1, <1>4, <1>5, <1>15 DEF Fake!FinishNotice
<1>18. q.err = "ok" /\ q.val = 0 /\ q.db = nm
  BY <1>17 DEF Fake!Answer
<1>. QED BY <1>14, <1>15, <1>16, <1>18 DEF Same, Said

LEMMA DrawWrite ==
  ASSUME NEW db, NEW m, Alike(db, m), NEW x
  PROVE  Holds(db, m, [db EXCEPT !.noticeId = x], [m EXCEPT !.nextNotice = x])
<1>1. PICK nd, nm : nd = [db EXCEPT !.noticeId = x] /\ nm = [m EXCEPT !.nextNotice = x]
  OBVIOUS
<1>2. DOMAIN db = PgFields /\ DOMAIN m = MemFields /\ PgOK(db)
  BY DEF Alike, PgOK
<1>3. PgOK(nd)
  BY <1>1, <1>2, DrawKeeps DEF Keeps
<1>4. nd.noticeId = x /\ \A f \in PgFields \ {"noticeId"} : nd[f] = db[f]
  BY <1>1, <1>2 DEF PgFields, DisputeTables, NumberedTables, TenantTables
<1>5. nm.nextNotice = x /\ DOMAIN nm = MemFields /\ \A f \in MemFields \ {"nextNotice"} : nm[f] = m[f]
  BY <1>1, <1>2 DEF MemFields
<1>6. Restored(nd, nm)
  BY <1>4, <1>5 DEF Alike, Restored, PgFields, DisputeTables, NumberedTables, TenantTables, MemFields
<1>7. Own(nd, nm) /\ nd.noticeId = nm.nextNotice /\ OwnSame(m, nm) /\ nd.disputes = db.disputes
  BY <1>4, <1>5 DEF Alike, Own, SettingsAlike, OwnSame, PgFields, DisputeTables, NumberedTables, TenantTables, MemFields
<1>8. Holds(db, m, nd, nm)
  BY <1>3, <1>5, <1>6, <1>7, SeesTable DEF Alike, Holds
<1>. QED BY <1>1, <1>8

LEMMA InsertNoticeSame ==
  ASSUME NEW db, NEW m, Alike(db, m), NEW s, NEW id \in Ids, Pg!Q!Sees(db, s, id), NEW channel, NEW actor,
         NEW sent \in BOOLEAN, NEW first,
         actor = Automatic => \A i \in DOMAIN db.notices : ~(db.notices[i].dispute = id /\ db.notices[i].channel = channel),
         NEW n, n = [dispute |-> id, seq |-> 1, channel |-> channel, actor |-> actor, sent |-> sent, resendOf |-> first]
  PROVE  Same(db, m, Pg!InsertNotice(db, s, n), Fake!InsertNotice(m, s, n))
<1>1. PICK rows, list, x : rows = db.notices /\ list = m.notices /\ x = db.noticeId + 1 /\ x = m.nextNotice + 1
  BY DEF Alike
<1>2. IsTable(rows) /\ DOMAIN list = DOMAIN rows /\ \A i \in DOMAIN rows : list[i] = Pg!noticeOf(rows[i])
  BY <1>1, NoticesOK
<1>3. list = [i \in DOMAIN rows |-> Pg!noticeOf(rows[i])] /\ \A i \in DOMAIN rows : DOMAIN rows[i] = NoticeFields /\ rows[i].sent \in BOOLEAN
  BY <1>1, NoticesOK DEF NoticesAlike
<1>4. PICK r, l : /\ r = [id |-> x, tenant |-> s.tenant, dispute |-> id, seq |-> 1, channel |-> channel, actor |-> actor,
                           sent |-> sent, resend_of |-> first]
                  /\ l = [id |-> x, dispute |-> id, seq |-> 1, channel |-> channel, actor |-> actor, sent |-> sent,
                           resendOf |-> first]
  OBVIOUS
<1>5. PICK X, Y : X = Append(rows, r) /\ Y = Append(list, l)
  OBVIOUS
<1>6. PICK d1, m1 : d1 = [db EXCEPT !.noticeId = x] /\ m1 = [m EXCEPT !.nextNotice = x]
  OBVIOUS
<1>7. Holds(db, m, d1, m1)
  BY <1>6, DrawWrite
<1>8. PICK nd, nm : nd = [d1 EXCEPT !.notices = X] /\ nm = [m1 EXCEPT !.notices = Y]
  OBVIOUS
<1>9. PICK p, q : p = Pg!InsertNotice(db, s, n) /\ q = Fake!InsertNotice(m, s, n)
  OBVIOUS
<1>10. n.dispute = id /\ n.seq = 1 /\ n.channel = channel /\ n.actor = actor /\ n.sent = sent /\ n.resendOf = first
  OBVIOUS
<1>11. DOMAIN db = PgFields /\ DOMAIN m = MemFields
  BY DEF Alike, PgOK
<1>12. d1.notices = rows /\ m1.notices = list /\ d1.noticeId = x
  BY <1>1, <1>6, <1>11 DEF PgFields, MemFields, NumberedTables
<1>13. nd.noticeId = x
  BY <1>6, <1>8, <1>11 DEF PgFields
<1>14. Pg!Q!InsertNotice(db, s, n) = Pg!Q!Done(nd, 1)
  <2>1. ~(n.actor = Automatic /\ \E o \in Pg!Q!Range(db.notices) :
            o.actor = Pg!Q!Automatic /\ <<o.dispute, o.seq, o.channel>> = <<n.dispute, n.seq, n.channel>>)
    <3>1. SUFFICES ASSUME n.actor = Automatic, NEW o \in Pg!Q!Range(db.notices),
                          <<o.dispute, o.seq, o.channel>> = <<n.dispute, n.seq, n.channel>>
                   PROVE  FALSE
      OBVIOUS
    <3>2. PICK i \in DOMAIN db.notices : db.notices[i] = o
      BY DEF Pg!Q!Range
    <3>. QED BY <1>10, <3>1, <3>2
  <2>2. ~(n.actor = Pg!Q!Automatic /\ \E o \in Pg!Q!Range(db.notices) :
            o.actor = Pg!Q!Automatic /\ <<o.dispute, o.seq, o.channel>> = <<n.dispute, n.seq, n.channel>>)
    BY <2>1 DEF Automatic
  <2>3. [id |-> db.noticeId + 1, tenant |-> s.tenant, dispute |-> n.dispute, seq |-> n.seq,
         channel |-> n.channel, actor |-> n.actor, sent |-> n.sent, resend_of |-> n.resendOf] = r
    BY <1>1, <1>4, <1>10
  <2>4. [db EXCEPT !.noticeId = db.noticeId + 1] = d1
    BY <1>1, <1>6
  <2>5. [d1 EXCEPT !.notices = Append(d1.notices, r)] = nd
    BY <1>5, <1>8, <1>12
  <2>6. Pg!Q!Sees(db, s, n.dispute)
    BY <1>10
  <2>. QED BY <2>2, <2>3, <2>4, <2>5, <2>6, Zenon DEF Pg!Q!InsertNotice
<1>15. p.err = "ok" /\ p.val = x /\ p.db = nd
  <2>1. PICK w : w = Pg!Q!InsertNotice(db, s, n) /\ w.db = nd /\ w.code = "00000"
    BY <1>14 DEF Pg!Q!Done
  <2>2. p = [Pg!Exec(w) EXCEPT !.val = w.db.noticeId]
    BY <1>9, <2>1 DEF Pg!InsertNotice
  <2>3. Pg!Exec(w) = [err |-> "ok", val |-> 0, db |-> nd]
    BY <2>1 DEF Pg!Exec, Pg!mapErr
  <2>. QED BY <1>13, <2>1, <2>2, <2>3
<1>16. q = Fake!Answer(nm, x)
  <2>1. [m EXCEPT !.nextNotice = x, !.notices = Append(m.notices, l)] = nm
    BY <1>1, <1>5, <1>6, <1>8, <1>11, <1>12 DEF MemFields
  <2>2. [id |-> x, dispute |-> n.dispute, seq |-> n.seq, channel |-> n.channel, actor |-> n.actor, sent |-> n.sent,
         resendOf |-> n.resendOf] = l
    BY <1>4, <1>10
  <2>3. PICK w : w = Fake!Answer(nm, x)
    OBVIOUS
  <2>4. q = Fake!Within(m, s, n.dispute, w)
    BY <1>1, <1>9, <2>1, <2>2, <2>3 DEF Fake!InsertNotice
  <2>. QED BY <1>10, <2>3, <2>4, WithinAnswers
<1>17. q.err = "ok" /\ q.val = x /\ q.db = nm
  BY <1>16 DEF Fake!Answer
<1>18. NoticesAlike(X, Y)
  <2>1. /\ IsTable(X) /\ DOMAIN X = 1 .. Len(rows) + 1 /\ X[Len(rows) + 1] = r /\ \A i \in DOMAIN rows : X[i] = rows[i]
    BY <1>2, <1>5, AppendTable
  <2>2. PICK k : k = Len(rows) /\ k \in Nat /\ DOMAIN rows = 1 .. k
    BY <1>2, PlacesOK
  <2>3. \A i \in DOMAIN X : i \in DOMAIN rows \/ i = k + 1
    BY <2>1, <2>2
  <2>4. Pg!noticeOf(r) = l /\ DOMAIN r = NoticeFields /\ r.sent \in BOOLEAN
    BY <1>4 DEF Pg!noticeOf, NoticeFields
  <2>5. \A i \in DOMAIN X : DOMAIN X[i] = NoticeFields /\ X[i].sent \in BOOLEAN
    BY <1>3, <2>1, <2>2, <2>3, <2>4
  <2>6. PICK c : c = [i \in DOMAIN X |-> Pg!noticeOf(X[i])]
    OBVIOUS
  <2>7. IsTable(c)
    <3>1. PICK T : T = {c[i] : i \in DOMAIN X}
      OBVIOUS
    <3>2. PICK o : o = k + 1 /\ o \in Nat
      BY <2>2
    <3>3. c \in [1 .. o -> T]
      BY <2>1, <2>2, <2>6, <3>1, <3>2
    <3>4. c \in Seq(T)
      BY <3>2, <3>3
    <3>. QED BY <3>4 DEF IsTable
  <2>8. IsTable(list)
    <3>1. PICK T : T = {list[i] : i \in DOMAIN rows}
      OBVIOUS
    <3>2. list \in [1 .. k -> T]
      BY <1>3, <2>2, <3>1
    <3>3. list \in Seq(T)
      BY <2>2, <3>2
    <3>. QED BY <3>3 DEF IsTable
  <2>9. c[k + 1] = l /\ \A i \in DOMAIN rows : c[i] = list[i]
    BY <1>2, <2>1, <2>2, <2>4, <2>6
  <2>10. DOMAIN c = DOMAIN Append(rows, r)
    BY <1>5, <2>6
  <2>11. c = Append(list, l)
    BY <1>2, <2>2, <2>7, <2>8, <2>9, <2>10, MapAppend
  <2>. QED BY <1>5, <2>1, <2>5, <2>6, <2>11 DEF NoticesAlike
<1>19. PgOK(nd)
  BY <1>9, <1>15, InsertNoticeKeeps DEF Keeps, Alike
<1>20. Alike(d1, m1)
  BY <1>7 DEF Holds
<1>21. Holds(d1, m1, nd, nm)
  BY <1>8, <1>18, <1>19, <1>20, NoticesWrite
<1>22. Alike(nd, nm) /\ OwnSame(m, nm)
  BY <1>7, <1>21 DEF Holds, OwnSame
<1>23. ASSUME NEW t, NEW i, Pg!Q!Sees(db, t, i) PROVE Pg!Q!Sees(nd, t, i)
  BY <1>7, <1>21, <1>23 DEF Holds
<1>24. Holds(db, m, nd, nm)
  BY <1>22, <1>23 DEF Holds
<1>. QED BY <1>9, <1>15, <1>17, <1>24 DEF Same, Said

-----------------------------------------------------------------------------
(* Suspense: the fake adds up the entries of a tenant's disputes, Postgres *)
(* the rows of the tenant.                                                 *)

EntryPlaces(rows, t, kind) == {i \in DOMAIN rows : rows[i].tenant = t /\ rows[i].kind = kind}
EntryPairs(disputes, f, t, kind) ==
  UNION {{<<i, k>> : k \in {j \in DOMAIN f[i] : f[i][j].kind = kind}} : i \in {j \in DOMAIN disputes : disputes[j].tenant = t}}

\* Where a dispute's entries are in the table.
EntryAt(rows, f, at, num) ==
  \A i \in Ids : /\ Ascends(PlacesOf(rows, i), at[i], num[i]) /\ DOMAIN f[i] = 1 .. num[i]
                 /\ \A k \in 1 .. num[i] : /\ at[i][k] \in DOMAIN rows /\ rows[at[i][k]].dispute = i
                                           /\ f[i][k].kind = rows[at[i][k]].kind
                 /\ f[i] = <<>> <=> num[i] = 0

LEMMA EntriesAt ==
  ASSUME NEW disputes, NEW rows, NEW f, LedgerAlike(disputes, rows, f)
  PROVE  \E at, num : EntryAt(rows, f, at, num)
<1>1. DOMAIN f = Ids /\ IsTable(rows)
  BY DEF LedgerAlike
<1>2. PICK at, num : /\ at = [i \in Ids |-> Pg!Q!Ascending(PlacesOf(rows, i))]
                     /\ num = [i \in Ids |-> Cardinality(PlacesOf(rows, i))]
  OBVIOUS
<1>3. ASSUME NEW i \in Ids
      PROVE  /\ Ascends(PlacesOf(rows, i), at[i], num[i]) /\ DOMAIN f[i] = 1 .. num[i]
             /\ \A k \in 1 .. num[i] : /\ at[i][k] \in DOMAIN rows /\ rows[at[i][k]].dispute = i
                                       /\ f[i][k].kind = rows[at[i][k]].kind
             /\ f[i] = <<>> <=> num[i] = 0
  <2>1. PICK P, a, n : P = PlacesOf(rows, i) /\ a = at[i] /\ n = num[i]
    OBVIOUS
  <2>2. P \in SUBSET (DOMAIN rows)
    BY <2>1 DEF PlacesOf
  <2>3. P \in SUBSET Int /\ IsFiniteSet(P)
    BY <1>1, <2>2, PlacesOK
  <2>4. a = Pg!Q!Ascending(P) /\ n = Cardinality(P)
    BY <1>2, <2>1
  <2>5. Ascends(P, a, n)
    BY <2>3, <2>4, AscendingAscends
  <2>6. PICK S, e : S = Slice(rows, i) /\ e = f[i]
    OBVIOUS
  <2>7. S = [k \in 1 .. n |-> rows[a[k]]]
    BY <1>1, <2>1, <2>5, <2>6, SliceAscends
  <2>8. e = [k \in DOMAIN S |-> Pg!EntryOf(S[k])]
    BY <2>6 DEF LedgerAlike
  <2>9. n \in Nat /\ a \in [1 .. n -> P] /\ DOMAIN e = 1 .. n
    BY <2>5, <2>7, <2>8 DEF Ascends
  <2>10. \A k \in 1 .. n : a[k] \in DOMAIN rows /\ rows[a[k]].dispute = i /\ e[k].kind = rows[a[k]].kind
    BY <2>1, <2>7, <2>8, <2>9 DEF PlacesOf, Pg!EntryOf
  <2>11. e = <<>> <=> n = 0
    <3>1. IsTable(S)
      BY <1>1, <2>6, SliceAppend
    <3>2. PICK T : e \in Seq(T)
      BY <2>8, <3>1, EntryList DEF IsTable
    <3>. QED BY <2>9, <3>2
  <2>. QED BY <2>1, <2>5, <2>6, <2>9, <2>10, <2>11
<1>4. EntryAt(rows, f, at, num)
  BY <1>3 DEF EntryAt
<1>. QED BY <1>4

LEMMA EntriesCounted ==
  ASSUME NEW table, NEW disputes, DisputesAlike(table, disputes), NEW rows, NEW f, LedgerAlike(table, rows, f),
         NEW t, NEW kind
  PROVE  Cardinality(EntryPlaces(rows, t, kind)) = Cardinality(EntryPairs(disputes, f, t, kind))
<1>1. PICK at, num : EntryAt(rows, f, at, num)
  BY EntriesAt
<1>2. PICK A, B : A = EntryPairs(disputes, f, t, kind) /\ B = EntryPlaces(rows, t, kind)
  OBVIOUS
<1>3. \A i \in DOMAIN disputes : i \in Ids
  BY DEF DisputesAlike
<1>4. ASSUME NEW a PROVE a \in A <=> \E i \in DOMAIN disputes : \E k \in 1 .. num[i] :
                                       a = <<i, k>> /\ disputes[i].tenant = t /\ rows[at[i][k]].kind = kind
  <2>1. ASSUME NEW i \in DOMAIN disputes PROVE DOMAIN f[i] = 1 .. num[i] /\ \A k \in 1 .. num[i] : f[i][k].kind = rows[at[i][k]].kind
    BY <1>1, <1>3 DEF EntryAt
  <2>2. a \in A <=> \E i \in {j \in DOMAIN disputes : disputes[j].tenant = t} :
                       a \in {<<i, k>> : k \in {j \in DOMAIN f[i] : f[i][j].kind = kind}}
    BY <1>2, Zenon DEF EntryPairs
  <2>3. ASSUME NEW i \in DOMAIN disputes
        PROVE  a \in {<<i, k>> : k \in {j \in DOMAIN f[i] : f[i][j].kind = kind}}
                 <=> \E k \in 1 .. num[i] : a = <<i, k>> /\ rows[at[i][k]].kind = kind
    <3>1. a \in {<<i, k>> : k \in {j \in DOMAIN f[i] : f[i][j].kind = kind}}
            <=> \E k \in DOMAIN f[i] : a = <<i, k>> /\ f[i][k].kind = kind
      BY Zenon
    <3>2. PICK n, e, g : n = 1 .. num[i] /\ e = f[i] /\ g = at[i]
      OBVIOUS
    <3>3. DOMAIN e = n /\ \A k \in n : e[k].kind = rows[g[k]].kind
      BY <2>1, <3>2
    <3>4. (\E k \in DOMAIN e : a = <<i, k>> /\ e[k].kind = kind) <=> \E k \in n : a = <<i, k>> /\ rows[g[k]].kind = kind
      BY <3>3, Zenon
    <3>. QED BY <3>1, <3>2, <3>4, Zenon
  <2>. QED BY <2>2, <2>3
<1>5. ASSUME NEW i \in DOMAIN disputes, NEW j \in DOMAIN rows, rows[j].dispute = i
      PROVE  disputes[i].tenant = rows[j].tenant
  <2>1. PICK d \in table : d.id = rows[j].dispute /\ d.tenant = rows[j].tenant
    BY DEF LedgerAlike
  <2>2. disputes[d.id] = d
    BY DEF DisputesAlike
  <2>. QED BY <1>5, <2>1, <2>2
<1>6. ASSUME NEW j \in B PROVE \E a \in A : at[a[1]][a[2]] = j
  <2>1. j \in DOMAIN rows /\ rows[j].tenant = t /\ rows[j].kind = kind
    BY <1>2 DEF EntryPlaces
  <2>2. PICK i : i = rows[j].dispute
    OBVIOUS
  <2>3. i \in DOMAIN disputes
    <3>1. PICK d \in table : d.id = rows[j].dispute
      BY <2>1 DEF LedgerAlike
    <3>. QED BY <2>2, <3>1 DEF DisputesAlike
  <2>4. PICK P, g, n : P = PlacesOf(rows, i) /\ g = at[i] /\ n = num[i]
    OBVIOUS
  <2>5. j \in P
    BY <2>1, <2>2, <2>4 DEF PlacesOf
  <2>6. P \in SUBSET Int /\ IsFiniteSet(P)
    <3>1. IsTable(rows) /\ P \in SUBSET (DOMAIN rows)
      BY <2>4 DEF LedgerAlike, PlacesOf
    <3>. QED BY <3>1, PlacesOK
  <2>7. Ascends(P, g, n)
    BY <1>1, <1>3, <2>3, <2>4 DEF EntryAt
  <2>8. PICK k \in 1 .. n : g[k] = j
    BY <2>5, <2>6, <2>7, AscendsAll
  <2>9. disputes[i].tenant = t
    BY <1>5, <2>1, <2>2, <2>3
  <2>10. PICK a : a = <<i, k>>
    OBVIOUS
  <2>11. a \in A
    BY <1>4, <2>1, <2>3, <2>4, <2>8, <2>9, <2>10
  <2>12. a[1] = i /\ a[2] = k
    BY <2>10, Zenon
  <2>. QED BY <2>4, <2>8, <2>11, <2>12
<1>7. PICK h : h = [j \in B |-> CHOOSE a \in A : at[a[1]][a[2]] = j]
  OBVIOUS
<1>8. ASSUME NEW j \in B PROVE h[j] \in A /\ at[h[j][1]][h[j][2]] = j
  <2>1. PICK c : c = CHOOSE a \in A : at[a[1]][a[2]] = j
    OBVIOUS
  <2>2. c \in A /\ at[c[1]][c[2]] = j
    BY <1>6, <2>1
  <2>. QED BY <1>7, <2>1, <2>2
<1>9. h \in [B -> A]
  BY <1>7, <1>8
<1>10. \A x, y \in B : h[x] = h[y] => x = y
  BY <1>8
<1>11. ASSUME NEW a \in A PROVE \E j \in B : h[j] = a
  <2>1. PICK i, k : /\ i \in DOMAIN disputes /\ k \in 1 .. num[i] /\ a = <<i, k>>
                    /\ disputes[i].tenant = t /\ rows[at[i][k]].kind = kind
    BY <1>4
  <2>2. PICK j : j = at[i][k]
    OBVIOUS
  <2>3. j \in DOMAIN rows /\ rows[j].dispute = i /\ rows[j].kind = kind
    BY <1>1, <1>3, <2>1, <2>2 DEF EntryAt
  <2>4. j \in B
    BY <1>2, <1>5, <2>1, <2>3 DEF EntryPlaces
  <2>5. PICK c : c = h[j] /\ c \in A /\ at[c[1]][c[2]] = j
    BY <1>8, <2>4
  <2>6. PICK ic, kc : ic \in DOMAIN disputes /\ kc \in 1 .. num[ic] /\ c = <<ic, kc>>
    BY <1>4, <2>5
  <2>7. at[ic][kc] = j
    BY <2>5, <2>6
  <2>8. rows[j].dispute = ic
    BY <1>1, <1>3, <2>6, <2>7 DEF EntryAt
  <2>9. ic = i
    BY <2>3, <2>8
  <2>10. kc = k
    <3>1. PICK P, g, n : P = PlacesOf(rows, i) /\ g = at[i] /\ n = num[i]
      OBVIOUS
    <3>2. Ascends(P, g, n)
      BY <1>1, <1>3, <2>1, <3>1 DEF EntryAt
    <3>3. P \in SUBSET Int
      <4>1. IsTable(rows) /\ P \in SUBSET (DOMAIN rows)
        BY <3>1 DEF LedgerAlike, PlacesOf
      <4>. QED BY <4>1, PlacesOK
    <3>4. k \in 1 .. n /\ kc \in 1 .. n /\ g[k] = j /\ g[kc] = j
      BY <2>1, <2>2, <2>6, <2>7, <2>9, <3>1
    <3>5. n \in Nat /\ g \in [1 .. n -> P] /\ \A x, y \in 1 .. n : x < y => g[x] < g[y]
      BY <3>2 DEF Ascends
    <3>6. j \in Int
      BY <3>3, <3>4, <3>5
    <3>7. ~(k < kc) /\ ~(kc < k)
      BY <3>4, <3>5, <3>6
    <3>. QED BY <3>4, <3>5, <3>7
  <2>. QED BY <2>1, <2>4, <2>5, <2>6, <2>9, <2>10
<1>12. IsFiniteSet(B)
  <2>1. IsTable(rows) /\ B \in SUBSET (DOMAIN rows)
    BY <1>2 DEF LedgerAlike, EntryPlaces
  <2>. QED BY <2>1, PlacesOK
<1>13. Cardinality(A) = Cardinality(B)
  BY <1>9, <1>10, <1>11, <1>12, SameSize
<1>. QED BY <1>2, <1>13

LEMMA SuspenseBalancesSame ==
  ASSUME NEW db, NEW m, Alike(db, m)
  PROVE  Same(db, m, Pg!SuspenseBalances(db), Fake!SuspenseBalances(m))
<1>1. PICK table, disputes, rows, f : table = db.disputes /\ disputes = m.disputes /\ rows = db.ledger /\ f = m.ledger
  OBVIOUS
<1>2. DisputesAlike(table, disputes) /\ LedgerAlike(table, rows, f)
  BY <1>1 DEF Alike, Restored
<1>3. PICK D : D = {e.tenant : e \in Pg!Q!Range(rows)}
  OBVIOUS
<1>4. {disputes[i].tenant : i \in {j \in DOMAIN disputes : f[j] # <<>>}} = D
  <2>1. PICK at, num : EntryAt(rows, f, at, num)
    BY <1>2, EntriesAt
  <2>2. ASSUME NEW j \in DOMAIN rows
        PROVE rows[j].dispute \in DOMAIN disputes /\ disputes[rows[j].dispute].tenant = rows[j].tenant
    <3>1. PICK d \in table : d.id = rows[j].dispute /\ d.tenant = rows[j].tenant
      BY <1>2 DEF LedgerAlike
    <3>2. d.id \in DOMAIN disputes /\ disputes[d.id] = d
      BY <1>2 DEF DisputesAlike
    <3>. QED BY <3>1, <3>2
  <2>3. ASSUME NEW i \in DOMAIN disputes, f[i] # <<>> PROVE disputes[i].tenant \in D
    <3>1. i \in Ids
      BY <1>2 DEF DisputesAlike
    <3>2. num[i] \in Nat /\ num[i] # 0
      BY <2>1, <2>3, <3>1 DEF EntryAt, Ascends
    <3>3. 1 \in 1 .. num[i]
      BY <3>2
    <3>4. PICK j : j = at[i][1] /\ j \in DOMAIN rows /\ rows[j].dispute = i
      BY <2>1, <3>1, <3>3 DEF EntryAt
    <3>5. rows[j].tenant = disputes[i].tenant
      BY <2>2, <3>4
    <3>. QED BY <1>3, <3>4, <3>5 DEF Pg!Q!Range
  <2>4. ASSUME NEW j \in DOMAIN rows PROVE \E i \in DOMAIN disputes : f[i] # <<>> /\ disputes[i].tenant = rows[j].tenant
    <3>1. PICK i : i = rows[j].dispute /\ i \in DOMAIN disputes /\ disputes[i].tenant = rows[j].tenant
      BY <2>2
    <3>2. i \in Ids
      BY <1>2, <3>1 DEF DisputesAlike
    <3>3. j \in PlacesOf(rows, i)
      BY <3>1 DEF PlacesOf
    <3>4. num[i] # 0
      <4>1. PICK P, n, g : P = PlacesOf(rows, i) /\ n = num[i] /\ g = at[i]
        OBVIOUS
      <4>2. Ascends(P, g, n)
        BY <2>1, <3>2, <4>1 DEF EntryAt
      <4>3. IsTable(rows) /\ P \in SUBSET (DOMAIN rows)
        BY <1>2, <4>1 DEF LedgerAlike, PlacesOf
      <4>4. P \in SUBSET Int /\ IsFiniteSet(P)
        BY <4>3, PlacesOK
      <4>5. \E k \in 1 .. n : g[k] = j
        BY <3>3, <4>1, <4>2, <4>4, AscendsAll
      <4>. QED BY <4>1, <4>5
    <3>5. f[i] # <<>>
      BY <2>1, <3>2, <3>4 DEF EntryAt
    <3>. QED BY <3>1, <3>5
  <2>. QED BY <1>3, <2>3, <2>4 DEF Pg!Q!Range
<1>5. ASSUME NEW t, NEW kind
      PROVE  Pg!Q!Cardinality(EntryPlaces(rows, t, kind)) = Fake!Cardinality(EntryPairs(disputes, f, t, kind))
  BY <1>2, EntriesCounted, Sizes
<1>6. PICK v, w : /\ v = [t \in D |-> Pg!Q!Cardinality(EntryPlaces(rows, t, "advance")) - Pg!Q!Cardinality(EntryPlaces(rows, t, "clear"))]
                  /\ w = [t \in D |-> Fake!Cardinality(EntryPairs(disputes, f, t, "advance")) - Fake!Cardinality(EntryPairs(disputes, f, t, "clear"))]
  OBVIOUS
<1>7. v = w
  BY <1>5, <1>6
<1>8. Pg!SuspenseBalances(db) = Pg!Answer(db, v)
  <2>1. Pg!Q!SuspenseByRegime(db) = v
    BY <1>1, <1>3, <1>6, Zenon DEF Pg!Q!SuspenseByRegime, EntryPlaces
  <2>. QED BY <2>1 DEF Pg!SuspenseBalances
<1>9. Fake!SuspenseBalances(m) = Fake!Answer(m, w)
  <2>1. PICK E : E = {disputes[i].tenant : i \in {j \in DOMAIN disputes : f[j] # <<>>}}
    OBVIOUS
  <2>2. Fake!SuspenseBalances(m) =
          Fake!Answer(m, [t \in E |-> Fake!Cardinality(EntryPairs(disputes, f, t, "advance"))
                                       - Fake!Cardinality(EntryPairs(disputes, f, t, "clear"))])
    BY <1>1, <2>1 DEF Fake!SuspenseBalances, EntryPairs
  <2>3. E = D
    BY <1>4, <2>1
  <2>. QED BY <1>6, <2>2, <2>3, Zenon
<1>. QED BY <1>7, <1>8, <1>9, AnswersSame

-----------------------------------------------------------------------------
(* The two stores through every history.  They hold alike, and so do the   *)
(* images a rollback puts back.                                            *)

SnapFields == {"disputes", "events", "idempotent", "deadlines", "ledger", "questions", "notices", "risk", "files"}

\* What the open transaction relies on.
Seeing(db, t) == \A id \in t.seen : id \in Ids /\ Pg!Q!Sees(db, t.s, id)
Image(m, t) == Restored(t.old, t.snap) /\ DOMAIN t.snap = SnapFields /\ (~t.last => Own(t.old, m))

FakeInv ==
  /\ Alike(pg, mem)
  /\ tx.open => Image(mem, tx) /\ Seeing(pg, tx)
  /\ ~tx.open => ans.asked = <<>>
  /\ AnswerAlike

LEMMA OwnStays ==
  ASSUME NEW db, NEW m, NEW new, Own(db, m), OwnSame(m, new)
  PROVE  Own(db, new)
BY DEF Own, OwnSame, SettingsAlike

\* Answers that are the same make AnswerAlike hold, whoever asks next.
LEMMA SaidAlike ==
  ASSUME NEW p, NEW q, Said(p, q), ans' = Answers(<<>>, p, q)
  PROVE  AnswerAlike' /\ ans'.asked = <<>>
<1>1. PICK a : a = ans' /\ a.asked = <<>> /\ a.p.err = p.err /\ a.p.val = p.val /\ a.m.err = q.err /\ a.m.val = q.val
  BY DEF Answers
<1>. QED BY <1>1 DEF AnswerAlike, Said

\* What a call may do to the record of the transaction.
Record(t) ==
  /\ DOMAIN t = TxFields /\ t.open = tx.open /\ t.s = tx.s /\ t.old = tx.old /\ t.snap = tx.snap
  /\ tx.last => t.last

LEMMA CallFake ==
  ASSUME TxOK, FakeInv, tx.open, NEW p, NEW q, NEW t, CallThen(p, q, t), Record(t),
         Said(p, q), Alike(p.db, q.db), t.last \/ OwnSame(mem, q.db),
         \A id \in t.seen : id \in Ids /\ Pg!Q!Sees(p.db, tx.s, id)
  PROVE  FakeInv'
<1>1. pg' = p.db /\ mem' = q.db /\ ans' = Answers(<<>>, p, q)
  BY DEF CallThen, Both
<1>2. PICK T : T = tx' /\ T = [t EXCEPT !.calls = @ + 1, !.failed = p.err \notin {"ok", "notfound"}]
  BY DEF CallThen, Both
<1>3. /\ T.open = tx.open /\ T.s = tx.s /\ T.old = tx.old /\ T.snap = tx.snap
      /\ T.last = t.last /\ T.seen = t.seen
  BY <1>2 DEF Record, TxFields
<1>4. Alike(pg', mem')
  BY <1>1
<1>5. AnswerAlike'
  BY <1>1, SaidAlike
<1>6. Seeing(pg', T)
  BY <1>1, <1>3 DEF Seeing
<1>7. Image(mem', T)
  <2>1. Image(mem, tx)
    BY DEF FakeInv
  <2>2. ASSUME ~T.last PROVE Own(T.old, mem')
    <3>1. ~t.last /\ ~tx.last
      BY <1>3, <2>2 DEF Record
    <3>2. Own(tx.old, mem) /\ OwnSame(mem, q.db)
      BY <2>1, <3>1 DEF Image
    <3>. QED BY <1>1, <1>3, <3>2, OwnStays
  <2>. QED BY <1>3, <2>1, <2>2 DEF Image
<1>. QED BY <1>2, <1>3, <1>4, <1>5, <1>6, <1>7 DEF FakeInv

LEMMA SameCall ==
  ASSUME TxOK, FakeInv, tx.open, NEW p, NEW q, Call(p, q), Same(pg, mem, p, q)
  PROVE  FakeInv'
<1>1. Record(tx)
  BY DEF Record, TxOK
<1>2. Said(p, q) /\ Alike(p.db, q.db) /\ OwnSame(mem, q.db)
  BY DEF Same, Holds
<1>3. \A id \in tx.seen : id \in Ids /\ Pg!Q!Sees(p.db, tx.s, id)
  BY DEF FakeInv, Seeing, Same, Holds
<1>4. CallThen(p, q, tx)
  BY DEF Call
<1>. QED BY <1>1, <1>2, <1>3, <1>4, CallFake

LEMMA SeenCall ==
  ASSUME TxOK, FakeInv, tx.open, NEW p, NEW q, NEW S, CallThen(p, q, [tx EXCEPT !.seen = S]),
         Said(p, q), Alike(p.db, q.db), OwnSame(mem, q.db),
         \A id \in S : id \in Ids /\ Pg!Q!Sees(p.db, tx.s, id)
  PROVE  FakeInv'
<1>1. PICK t : t = [tx EXCEPT !.seen = S]
  OBVIOUS
<1>2. Record(t) /\ t.seen = S
  BY <1>1 DEF Record, TxOK, TxFields
<1>3. CallThen(p, q, t)
  BY <1>1
<1>. QED BY <1>2, <1>3, CallFake

LEMMA OtherCall ==
  ASSUME TxOK, FakeInv, tx.open, NEW p, NEW q, NEW t, CallThen(p, q, t), Record(t), t.seen = tx.seen,
         Same(pg, mem, p, q)
  PROVE  FakeInv'
<1>2. Said(p, q) /\ Alike(p.db, q.db) /\ OwnSame(mem, q.db)
  BY DEF Same, Holds
<1>3. \A id \in t.seen : id \in Ids /\ Pg!Q!Sees(p.db, tx.s, id)
  BY DEF FakeInv, Seeing, Same, Holds
<1>. QED BY <1>2, <1>3, CallFake

LEMMA LastFake ==
  ASSUME TxOK, FakeInv, NEW p, NEW q, LastCall(p, q), SameLast(pg, p, q)
  PROVE  FakeInv'
<1>1. PICK t : t = [tx EXCEPT !.last = TRUE]
  OBVIOUS
<1>2. tx.open /\ CallThen(p, q, t)
  BY <1>1 DEF LastCall, Calling
<1>3. Record(t) /\ t.seen = tx.seen /\ t.last
  BY <1>1, <1>2 DEF Record, TxOK, TxFields
<1>4. Said(p, q) /\ Alike(p.db, q.db)
  BY DEF SameLast
<1>5. \A id \in t.seen : id \in Ids /\ Pg!Q!Sees(p.db, tx.s, id)
  BY <1>2, <1>3 DEF FakeInv, Seeing, SameLast
<1>. QED BY <1>2, <1>3, <1>4, <1>5, CallFake

LEMMA SameAside ==
  ASSUME FakeInv, NEW part, NEW p, NEW q, Aside(part, p, q), Same(pg, mem, p, q)
  PROVE  FakeInv'
<1>1. ~tx.open /\ pg' = p.db /\ mem' = q.db /\ tx' = tx /\ ans' = Answers(<<>>, p, q)
  BY DEF Aside, Both
<1>2. Alike(pg', mem') /\ Said(p, q)
  BY <1>1 DEF Same, Holds
<1>3. AnswerAlike' /\ ans'.asked = <<>>
  BY <1>1, <1>2, SaidAlike
<1>. QED BY <1>1, <1>2, <1>3 DEF FakeInv

LEMMA SeenSees ==
  ASSUME FakeInv, tx.open
  PROVE  Alike(pg, mem) /\ \A id \in tx.seen : id \in Ids /\ Pg!Q!Sees(pg, tx.s, id)
BY DEF FakeInv, Seeing

LEMMA DisputeCallsFake ==
  ASSUME ScopeInv, FakeInv, NEW id \in Ids
  PROVE  /\ GetDispute(id) => FakeInv'
         /\ \A team : InsertDispute(id, team) => FakeInv'
         /\ \A v, st : UpdateDisputeState(id, v, st) => FakeInv'
         /\ \A v, team : UpdateDisputeTeam(id, v, team) => FakeInv'
<1>0. TxOK /\ now \in Int /\ Alike(pg, mem)
  BY DEF ScopeInv, KeysInv, TimesOK, FakeInv
<1>1. ASSUME GetDispute(id) PROVE FakeInv'
  <2>1. PICK p, q : p = Pg!GetDispute(pg, tx.s, id) /\ q = Fake!GetDispute(mem, tx.s, id)
    OBVIOUS
  <2>2. tx.open /\ CallThen(p, q, IF p.err = "ok" THEN [tx EXCEPT !.seen = @ \cup {id}] ELSE tx)
    BY <1>1, <2>1 DEF GetDispute
  <2>3. Same(pg, mem, p, q) /\ (p.err = "ok" => Pg!Q!Sees(pg, tx.s, id))
    BY <1>0, <2>1, GetDisputeSame
  <2>4. CASE p.err # "ok"
    <3>1. Call(p, q)
      BY <2>2, <2>4 DEF Call
    <3>. QED BY <1>0, <2>2, <2>3, <3>1, SameCall
  <2>5. CASE p.err = "ok"
    <3>1. PICK S : S = tx.seen \cup {id}
      OBVIOUS
    <3>2. CallThen(p, q, [tx EXCEPT !.seen = S])
      BY <2>2, <2>5, <3>1
    <3>3. Said(p, q) /\ Alike(p.db, q.db) /\ OwnSame(mem, q.db) /\ \A t, i : Pg!Q!Sees(pg, t, i) => Pg!Q!Sees(p.db, t, i)
      BY <2>3 DEF Same, Holds
    <3>4. \A i \in S : i \in Ids /\ Pg!Q!Sees(p.db, tx.s, i)
      BY <2>2, <2>3, <2>5, <3>1, <3>3, SeenSees
    <3>. QED BY <1>0, <2>2, <3>2, <3>3, <3>4, SeenCall
  <2>. QED BY <2>4, <2>5
<1>2. ASSUME NEW team, InsertDispute(id, team) PROVE FakeInv'
  <2>1. PICK d : d = [id |-> id, tenant |-> tx.s.tenant, team |-> team, state |-> "INITIATED", version |-> 1,
                      account |-> tx.s.tenant, opened |-> now]
    OBVIOUS
  <2>2. PICK p, q : p = Pg!InsertDispute(pg, tx.s, d) /\ q = Fake!InsertDispute(mem, tx.s, d)
    OBVIOUS
  <2>3. PICK S : S = tx.seen \cup {id}
    OBVIOUS
  <2>4. tx.open /\ CallThen(p, q, [tx EXCEPT !.seen = S])
    BY <1>2, <2>1, <2>2, <2>3 DEF InsertDispute, Calling
  <2>5. (\A r \in pg.disputes : r.id # id) /\ Pg!Q!in_team(tx.s, team)
    BY <1>2 DEF InsertDispute, Pg!Q!in_team
  <2>6. /\ d.id = id /\ d.opened \in Int /\ d.tenant = tx.s.tenant /\ d.team = team
        /\ DOMAIN d = {"id", "tenant", "team", "state", "version", "account", "opened"}
    BY <1>0, <2>1
  <2>7. [d EXCEPT !.tenant = tx.s.tenant] = d
    BY <2>1
  <2>8. Same(pg, mem, p, q) /\ Pg!Q!Sees(p.db, tx.s, id)
    BY <1>0, <2>2, <2>5, <2>6, <2>7, InsertDisputeSame
  <2>9. Said(p, q) /\ Alike(p.db, q.db) /\ OwnSame(mem, q.db) /\ \A t, i : Pg!Q!Sees(pg, t, i) => Pg!Q!Sees(p.db, t, i)
    BY <2>8 DEF Same, Holds
  <2>10. \A i \in S : i \in Ids /\ Pg!Q!Sees(p.db, tx.s, i)
    BY <2>3, <2>4, <2>8, <2>9, SeenSees
  <2>. QED BY <1>0, <2>4, <2>9, <2>10, SeenCall
<1>3. ASSUME NEW v, NEW st, UpdateDisputeState(id, v, st) PROVE FakeInv'
  <2>1. tx.open /\ id \in tx.seen /\ Call(Pg!UpdateDisputeState(pg, tx.s, id, v, st), Fake!UpdateDisputeState(mem, tx.s, id, v, st))
    BY <1>3 DEF UpdateDisputeState, Calling
  <2>2. Pg!Q!Sees(pg, tx.s, id)
    BY <2>1, SeenSees
  <2>3. Same(pg, mem, Pg!UpdateDisputeState(pg, tx.s, id, v, st), Fake!UpdateDisputeState(mem, tx.s, id, v, st))
    BY <1>0, <2>2, UpdateDisputeSame
  <2>. QED BY <1>0, <2>1, <2>3, SameCall
<1>4. ASSUME NEW v, NEW team, UpdateDisputeTeam(id, v, team) PROVE FakeInv'
  <2>1. PICK p, q, S : /\ p = Pg!UpdateDisputeTeam(pg, tx.s, id, v, team)
                       /\ q = Fake!UpdateDisputeTeam(mem, tx.s, id, v, team) /\ S = tx.seen \ {id}
    OBVIOUS
  <2>2. tx.open /\ id \in tx.seen /\ CallThen(p, q, [tx EXCEPT !.seen = S])
    BY <1>4, <2>1 DEF UpdateDisputeTeam, Calling
  <2>3. Pg!Q!Sees(pg, tx.s, id)
    BY <2>2, SeenSees
  <2>4. /\ Said(p, q) /\ Alike(p.db, q.db) /\ OwnSame(mem, q.db)
        /\ \A t, i : i # id /\ Pg!Q!Sees(pg, t, i) => Pg!Q!Sees(p.db, t, i)
    BY <1>0, <2>1, <2>3, UpdateDisputeSame
  <2>5. \A i \in S : i \in Ids /\ Pg!Q!Sees(p.db, tx.s, i)
    BY <2>1, <2>2, <2>4, SeenSees
  <2>. QED BY <1>0, <2>2, <2>4, <2>5, SeenCall
<1>. QED BY <1>1, <1>2, <1>3, <1>4

\* The other calls about a dispute the caller has found.
LEMMA SeenCallsFake ==
  ASSUME ScopeInv, FakeInv, NEW id \in Ids
  PROVE  /\ ListEvents(id) \/ ListDeadlines(id) \/ ListLedger(id) \/ ListRisk(id) => FakeInv'
         /\ GetQuestionnaire(id) \/ ListNotices(id) \/ ListAttachmentMeta(id) => FakeInv'
         /\ \A x : SendQuestionnaire(id, x) \/ AnswerQuestionnaire(id, x) \/ GetNotice(id, x) \/ GetAttachment(id, x) => FakeInv'
         /\ \A fs : ClaimAttachments(id, fs) => FakeInv'
         /\ \A x : InsertAttachment(id, x) => FakeInv'
         /\ \A kind, cycle, met : SettleDeadline(id, kind, cycle, met) => FakeInv'
<1>0. TxOK /\ Alike(pg, mem)
  BY DEF ScopeInv, KeysInv, FakeInv
<1>1. \A part : Calling(part) /\ id \in tx.seen => tx.open /\ Pg!Q!Sees(pg, tx.s, id)
  BY SeenSees DEF Calling
<1>2. ListEvents(id) \/ ListDeadlines(id) \/ ListLedger(id) \/ ListRisk(id) => FakeInv'
  BY <1>0, <1>1, SameCall, ListEventsSame, ListDeadlinesSame, ListLedgerSame, ListRiskSame
     DEF ListEvents, ListDeadlines, ListLedger, ListRisk
<1>3. GetQuestionnaire(id) \/ ListNotices(id) \/ ListAttachmentMeta(id) => FakeInv'
  BY <1>0, <1>1, SameCall, GetQuestionnaireSame, GetNoticeSame, FileReadsSame
     DEF GetQuestionnaire, ListNotices, ListAttachmentMeta
<1>4. \A x : SendQuestionnaire(id, x) \/ AnswerQuestionnaire(id, x) => FakeInv'
  BY <1>0, <1>1, SameCall, SendQuestionnaireSame, AnswerQuestionnaireSame
     DEF SendQuestionnaire, AnswerQuestionnaire
<1>5. \A x : GetNotice(id, x) \/ GetAttachment(id, x) => FakeInv'
  BY <1>0, <1>1, SameCall, GetNoticeSame, FileReadsSame DEF GetNotice, GetAttachment
<1>6. \A fs : ClaimAttachments(id, fs) => FakeInv'
  BY <1>0, <1>1, SameCall, ClaimAttachmentsSame DEF ClaimAttachments
<1>7. ASSUME NEW x, InsertAttachment(id, x) PROVE FakeInv'
  <2>1. PICK p, q : p = Pg!InsertAttachment(pg, tx.s, id, x, now) /\ q = Fake!InsertAttachment(mem, tx.s, id, x, now)
    OBVIOUS
  <2>2. Call(p, q) /\ tx.open /\ Pg!Q!Sees(pg, tx.s, id) /\ \A r \in pg.files : r.id # x
    BY <1>1, <1>7, <2>1 DEF InsertAttachment
  <2>3. Same(pg, mem, p, q)
    BY <1>0, <2>1, <2>2, InsertAttachmentSame
  <2>. QED BY <1>0, <2>2, <2>3, SameCall
<1>8. \A kind, cycle, met : SettleDeadline(id, kind, cycle, met) => FakeInv'
  BY <1>0, <1>1, SameCall, SettleDeadlineSame DEF SettleDeadline
<1>. QED BY <1>2, <1>3, <1>4, <1>5, <1>6, <1>7, <1>8

LEMMA WritesFake ==
  ASSUME ScopeInv, FakeInv, NEW id \in Ids
  PROVE  /\ \A seq \in 1 .. 2 : \A to : AppendEvent(id, seq, to) => FakeInv'
         /\ \A cycle : \A dues \in {<<2, 3>>, <<3, 1>>} : InsertDeadlines(id, cycle, dues) => FakeInv'
         /\ \A seq : \A kinds \in {<<"advance">>, <<"clear">>, <<"clear", "advance">>} : AppendLedger(id, seq, kinds) => FakeInv'
         /\ \A seq, tier : InsertRisk(id, seq, tier) => FakeInv'
         /\ \A channel, actor : InsertNotice(id, channel, actor) => FakeInv'
         /\ \A orig : ResendNotice(id, orig) => FakeInv'
<1>0. TxOK /\ Alike(pg, mem)
  BY DEF ScopeInv, KeysInv, FakeInv
<1>1. \A part : Calling(part) /\ id \in tx.seen => tx.open /\ Pg!Q!Sees(pg, tx.s, id)
  BY SeenSees DEF Calling
<1>2. ASSUME NEW seq \in 1 .. 2, NEW to, AppendEvent(id, seq, to) PROVE FakeInv'
  <2>1. PICK e : e = [seq |-> seq, to |-> to]
    OBVIOUS
  <2>2. PICK p, q : p = Pg!AppendEvent(pg, tx.s, id, e) /\ q = Fake!AppendEvent(mem, tx.s, id, e)
    OBVIOUS
  <2>3. Call(p, q) /\ tx.open /\ Pg!Q!Sees(pg, tx.s, id)
    BY <1>1, <1>2, <2>1, <2>2 DEF AppendEvent
  <2>4. seq <= Cardinality({r \in pg.events : r.dispute = id}) + 1
    BY <1>2 DEF AppendEvent
  <2>5. Same(pg, mem, p, q)
    BY <1>0, <2>1, <2>2, <2>3, <2>4, AppendEventSame
  <2>. QED BY <1>0, <2>3, <2>5, SameCall
<1>3. ASSUME NEW cycle, NEW dues \in {<<2, 3>>, <<3, 1>>}, InsertDeadlines(id, cycle, dues) PROVE FakeInv'
  <2>1. PICK cs : cs = [i \in DOMAIN dues |-> [kind |-> IF i = 1 THEN "RESOLUTION" ELSE "REFUND", cycle |-> cycle, due |-> dues[i]]]
    OBVIOUS
  <2>2. PICK p, q : p = Pg!InsertDeadlines(pg, tx.s, id, cs) /\ q = Fake!InsertDeadlines(mem, tx.s, id, cs)
    OBVIOUS
  <2>3. Call(p, q) /\ tx.open /\ Pg!Q!Sees(pg, tx.s, id)
    BY <1>1, <1>3, <2>1, <2>2 DEF InsertDeadlines
  <2>4. ~\E c \in pg.deadlines : c.dispute = id /\ c.cycle = cycle
    BY <1>3 DEF InsertDeadlines
  <2>5. Same(pg, mem, p, q)
    BY <1>0, <2>1, <2>2, <2>3, <2>4, InsertDeadlinesSame, Zenon
  <2>. QED BY <1>0, <2>3, <2>5, SameCall
<1>4. ASSUME NEW seq, NEW kinds \in {<<"advance">>, <<"clear">>, <<"clear", "advance">>}, AppendLedger(id, seq, kinds)
      PROVE  FakeInv'
  <2>1. PICK es : es = [i \in DOMAIN kinds |-> [seq |-> seq, kind |-> kinds[i], reference |-> <<id, seq, kinds[i]>>]]
    OBVIOUS
  <2>2. PICK p, q : p = Pg!AppendLedger(pg, tx.s, id, es) /\ q = Fake!AppendLedger(mem, tx.s, id, es)
    OBVIOUS
  <2>3. Call(p, q) /\ tx.open /\ Pg!Q!Sees(pg, tx.s, id)
    BY <1>1, <1>4, <2>1, <2>2 DEF AppendLedger
  <2>4. Same(pg, mem, p, q)
    BY <1>0, <2>1, <2>2, <2>3, AppendLedgerSame, Zenon
  <2>. QED BY <1>0, <2>3, <2>4, SameCall
<1>5. ASSUME NEW seq, NEW tier, InsertRisk(id, seq, tier) PROVE FakeInv'
  <2>1. PICK r : r = [seq |-> seq, tier |-> tier]
    OBVIOUS
  <2>2. PICK p, q : p = Pg!InsertRisk(pg, tx.s, id, r) /\ q = Fake!InsertRisk(mem, tx.s, id, r)
    OBVIOUS
  <2>3. Call(p, q) /\ tx.open /\ Pg!Q!Sees(pg, tx.s, id)
    BY <1>1, <1>5, <2>1, <2>2 DEF InsertRisk
  <2>4. \A i \in DOMAIN pg.risk : ~(pg.risk[i].dispute = id /\ pg.risk[i].seq = seq)
    BY <1>5 DEF InsertRisk
  <2>5. Same(pg, mem, p, q)
    BY <1>0, <2>1, <2>2, <2>3, <2>4, InsertRiskSame, Zenon
  <2>. QED BY <1>0, <2>3, <2>5, SameCall
<1>6. ASSUME NEW channel, NEW actor, InsertNotice(id, channel, actor) PROVE FakeInv'
  <2>1. PICK sent : sent = (channel = "LETTER")
    OBVIOUS
  <2>2. PICK n : n = [dispute |-> id, seq |-> 1, channel |-> channel, actor |-> actor, sent |-> sent, resendOf |-> 0]
    OBVIOUS
  <2>3. PICK p, q : p = Pg!InsertNotice(pg, tx.s, n) /\ q = Fake!InsertNotice(mem, tx.s, n)
    OBVIOUS
  <2>4. Call(p, q) /\ tx.open /\ Pg!Q!Sees(pg, tx.s, id)
    BY <1>1, <1>6, <2>1, <2>2, <2>3 DEF InsertNotice
  <2>5. actor = Automatic => \A i \in DOMAIN pg.notices : ~(pg.notices[i].dispute = id /\ pg.notices[i].channel = channel)
    BY <1>6 DEF InsertNotice
  <2>6. Same(pg, mem, p, q)
    <3>1. sent \in BOOLEAN
      BY <2>1
    <3>. QED BY <1>0, <2>2, <2>3, <2>4, <2>5, <3>1, InsertNoticeSame, Zenon
  <2>. QED BY <1>0, <2>4, <2>6, SameCall
<1>7. ASSUME NEW orig, ResendNotice(id, orig) PROVE FakeInv'
  <2>1. PICK first, channel, actor : /\ first = IF orig.resend_of = 0 THEN orig.id ELSE orig.resend_of
                                     /\ channel = "EMAIL" /\ actor = "ann"
    OBVIOUS
  <2>2. PICK n : n = [dispute |-> id, seq |-> 1, channel |-> channel, actor |-> actor, sent |-> FALSE, resendOf |-> first]
    OBVIOUS
  <2>3. PICK p, q : p = Pg!InsertNotice(pg, tx.s, n) /\ q = Fake!InsertNotice(mem, tx.s, n)
    OBVIOUS
  <2>4. Call(p, q) /\ tx.open /\ Pg!Q!Sees(pg, tx.s, id)
    BY <1>1, <1>7, <2>1, <2>2, <2>3 DEF ResendNotice
  <2>5. actor # Automatic
    BY <2>1, Zenon DEF Automatic, Pg!Q!Automatic
  <2>6. Same(pg, mem, p, q)
    BY <1>0, <2>2, <2>3, <2>4, <2>5, InsertNoticeSame, Zenon
  <2>. QED BY <1>0, <2>4, <2>6, SameCall
<1>. QED BY <1>2, <1>3, <1>4, <1>5, <1>6, <1>7

LEMMA TenantCallsFake ==
  ASSUME ScopeInv, FakeInv
  PROVE  /\ \A t \in Tenants : GetTransaction(t) => FakeInv'
         /\ GetAccount \/ TenantName \/ TenantCalendar \/ TenantCore => FakeInv'
         /\ TenantTemplates \/ GetTenantMetadata \/ GetTenantLogo \/ GetAnalystAvatar => FakeInv'
         /\ \A kind, text : DeleteTenantTemplate(kind) \/ PutTenantTemplate(kind, text) => FakeInv'
         /\ \A image : PutTenantLogo(image) \/ PutAnalystAvatar(image) => FakeInv'
<1>0. TxOK /\ Alike(pg, mem)
  BY DEF ScopeInv, KeysInv, FakeInv
<1>1. \A part : Calling(part) => tx.open /\ tx.s \in Sessions /\ tx.s.tenant \in Tenants
  BY <1>0 DEF Calling, TxOK, Tenants
<1>2. \A t \in Tenants : GetTransaction(t) => FakeInv'
  BY <1>0, <1>1, SameCall, SettingsSame DEF GetTransaction
<1>3. ASSUME NEW part, Calling(part)
      PROVE  /\ Same(pg, mem, Pg!GetAccount(pg, tx.s, tx.s.tenant), Fake!GetAccount(mem, tx.s, tx.s.tenant))
             /\ Same(pg, mem, Pg!TenantName(pg, tx.s), Fake!TenantName(mem, tx.s))
             /\ Same(pg, mem, Pg!TenantCalendar(pg, tx.s), Fake!TenantCalendar(mem, tx.s))
             /\ Same(pg, mem, Pg!TenantCore(pg, tx.s), Fake!TenantCore(mem, tx.s))
  BY <1>0, <1>1, <1>3, SettingsSame
<1>4. GetAccount \/ TenantName \/ TenantCalendar \/ TenantCore => FakeInv'
  BY <1>0, <1>1, <1>3, SameCall DEF GetAccount, TenantName, TenantCalendar, TenantCore
<1>5. TenantTemplates \/ GetTenantMetadata \/ GetTenantLogo \/ GetAnalystAvatar => FakeInv'
  BY <1>0, <1>1, SameCall, OwnReadsSame DEF TenantTemplates, GetTenantMetadata, GetTenantLogo, GetAnalystAvatar
<1>6. \A kind, text : DeleteTenantTemplate(kind) \/ PutTenantTemplate(kind, text) => FakeInv'
  BY <1>0, <1>1, LastFake, DeleteTenantTemplateSame, PutTenantTemplateSame DEF DeleteTenantTemplate, PutTenantTemplate, LastCall
<1>7. \A image : PutTenantLogo(image) \/ PutAnalystAvatar(image) => FakeInv'
  BY <1>0, <1>1, LastFake, PutTenantLogoSame, PutAnalystAvatarSame DEF PutTenantLogo, PutAnalystAvatar, LastCall
<1>. QED BY <1>2, <1>4, <1>5, <1>6, <1>7

LEMMA AsidesFake ==
  ASSUME FakeInv
  PROVE  /\ CountByState \/ CountOverdue \/ SuspenseBalances \/ OutboxBacklog => FakeInv'
         /\ ClaimNotices => FakeInv'
         /\ \A n : \A failed \in BOOLEAN : FinishNotice(n, failed) => FakeInv'
         /\ \A n \in Ids : NoticeAttachments(n) => FakeInv'
         /\ PurgeDraftAttachments \/ PurgeIdempotencyKeys => FakeInv'
<1>0. Alike(pg, mem)
  BY DEF FakeInv
<1>1. CountByState \/ CountOverdue \/ SuspenseBalances \/ OutboxBacklog => FakeInv'
  BY <1>0, SameAside, CountByStateSame, CountOverdueSame, SuspenseBalancesSame, OutboxBacklogSame
     DEF CountByState, CountOverdue, SuspenseBalances, OutboxBacklog
<1>2. ASSUME ClaimNotices PROVE FakeInv'
  <2>1. PICK p, q : p = Pg!ClaimNotices(pg, 1) /\ q = Fake!ClaimNotices(mem, Len(mem.notices))
    OBVIOUS
  <2>2. PICK a, b : a = [p EXCEPT !.val = Claimed(@) \ Claimed(q.val)] /\ b = [q EXCEPT !.val = {}]
    OBVIOUS
  <2>3. Aside("letters", a, b)
    BY <1>2, <2>1, <2>2 DEF ClaimNotices
  <2>4. Same(pg, mem, a, b)
    BY <1>0, <2>1, <2>2, ClaimNoticesSame
  <2>. QED BY <2>3, <2>4, SameAside
<1>3. \A n : \A failed \in BOOLEAN : FinishNotice(n, failed) => FakeInv'
  BY <1>0, SameAside, FinishNoticeSame DEF FinishNotice
<1>4. \A n \in Ids : NoticeAttachments(n) => FakeInv'
  BY <1>0, SameAside, NoticeAttachmentsSame DEF NoticeAttachments
<1>5. PurgeDraftAttachments \/ PurgeIdempotencyKeys => FakeInv'
  BY <1>0, SameAside, PurgeDraftAttachmentsSame, PurgeIdempotencyKeysSame DEF PurgeDraftAttachments, PurgeIdempotencyKeys
<1>. QED BY <1>1, <1>2, <1>3, <1>4, <1>5

LEMMA PagesOfSeenFake ==
  ASSUME ScopeInv, FakeInv
  PROVE  NextDeadlines \/ LatestRisk \/ ListOverdue => FakeInv'
<1>0. TxOK /\ Alike(pg, mem)
  BY DEF ScopeInv, KeysInv, FakeInv
<1>1. ASSUME NEW part, Calling(part) PROVE tx.open /\ \A id \in tx.seen : id \in Ids /\ Pg!Q!Sees(pg, tx.s, id)
  BY <1>1, SeenSees DEF Calling
<1>2. NextDeadlines => FakeInv'
  BY <1>0, <1>1, SameCall, NextDeadlinesSame DEF NextDeadlines
<1>3. LatestRisk => FakeInv'
  BY <1>0, <1>1, SameCall, LatestRiskSame DEF LatestRisk
<1>4. ASSUME ListOverdue PROVE FakeInv'
  <2>1. PICK q : q = [state |-> "any", overdue |-> TRUE, after |-> {}, limit |-> 25, now |-> now]
    OBVIOUS
  <2>2. tx.open /\ Call(Pg!ListDisputes(pg, tx.s, q), Fake!ListDisputes(mem, tx.s, q))
    BY <1>1, <1>4, <2>1 DEF ListOverdue
  <2>3. CursorOK(q.after) /\ q.limit \in Nat
    BY <2>1 DEF CursorOK
  <2>4. Same(pg, mem, Pg!ListDisputes(pg, tx.s, q), Fake!ListDisputes(mem, tx.s, q))
    BY <1>0, <2>3, ListDisputesSame
  <2>. QED BY <1>0, <2>2, <2>4, SameCall
<1>. QED BY <1>2, <1>3, <1>4

LEMMA KeyCallsFake ==
  ASSUME ScopeInv, FakeInv, NEW k \in Keys
  PROVE  /\ GetIdempotent(k) => FakeInv'
         /\ \A h : PutIdempotent(k, h) => FakeInv'
<1>0. TxOK /\ Alike(pg, mem) /\ LookedUp
  BY DEF ScopeInv, KeysInv, FakeInv
<1>1. ASSUME GetIdempotent(k) PROVE FakeInv'
  <2>1. PICK p, q : p = Pg!GetIdempotent(pg, tx.s, Scope, k) /\ q = Fake!GetIdempotent(mem, tx.s, Scope, k)
    OBVIOUS
  <2>2. PICK t : t = IF p.err = "ok" THEN tx ELSE [tx EXCEPT !.missed = @ \cup {k}]
    OBVIOUS
  <2>3. tx.open /\ CallThen(p, q, t)
    BY <1>1, <2>1, <2>2 DEF GetIdempotent, Calling
  <2>4. Record(t) /\ t.seen = tx.seen
    BY <1>0, <2>2, <2>3 DEF Record, TxOK, TxFields
  <2>5. Same(pg, mem, p, q)
    BY <1>0, <2>1, GetIdempotentSame
  <2>. QED BY <1>0, <2>3, <2>4, <2>5, OtherCall
<1>2. ASSUME NEW h, PutIdempotent(k, h) PROVE FakeInv'
  <2>1. PICK p, q : p = Pg!PutIdempotent(pg, tx.s, Scope, k, h, now) /\ q = Fake!PutIdempotent(mem, tx.s, Scope, k, h, now)
    OBVIOUS
  <2>2. PICK t : t = [tx EXCEPT !.put = @ \cup {<<tx.s.tenant, k>>}, !.missed = @ \ {k}]
    OBVIOUS
  <2>3. tx.open /\ ~tx.failed /\ focus = "keys" /\ k \in tx.missed /\ CallThen(p, q, t)
    BY <1>2, <2>1, <2>2 DEF PutIdempotent, Calling
  <2>4. Record(t) /\ t.seen = tx.seen
    BY <1>0, <2>2, <2>3 DEF Record, TxOK, TxFields
  <2>5. Row(pg.keys, <<tx.s.tenant, k>>) = {}
    BY <1>0, <2>3 DEF LookedUp
  <2>6. Pg!Q!GetIdempotencyKey(pg, tx.s, Scope, k) = {}
    BY <2>5 DEF Row, Pg!Q!GetIdempotencyKey, Pg!Q!InTenant
  <2>7. Same(pg, mem, p, q)
    BY <1>0, <2>1, <2>6, PutIdempotentSame
  <2>. QED BY <1>0, <2>3, <2>4, <2>7, OtherCall
<1>. QED BY <1>1, <1>2

LEMMA HistoryFake ==
  ASSUME ScopeInv, FakeInv, NEW id \in Ids, NEW since, AccountHistory(id, since)
  PROVE  FakeInv'
<1>0. TxOK /\ Alike(pg, mem) /\ tx.open /\ DOMAIN tx = TxFields
  BY DEF ScopeInv, KeysInv, FakeInv, TxOK, AccountHistory, Calling
<1>1. PICK p, q : /\ p = Pg!AccountHistory(pg, tx.s, tx.s.tenant, id, since)
                  /\ q = Fake!AccountHistory(mem, tx.s, tx.s.tenant, id, since)
  OBVIOUS
<1>2. /\ p.err = "ok" /\ q.err = "ok" /\ p.db = pg /\ q.db = mem
      /\ \A i \in 1 .. 2 : p.val[i] <= q.val[i] /\ (tx.s.kind = "key" => p.val[i] = q.val[i])
  BY <1>0, <1>1, AccountHistorySame
<1>3. PICK T : T = tx' /\ T = [tx EXCEPT !.calls = @ + 1]
  BY DEF AccountHistory, Both
<1>4. /\ T.open = tx.open /\ T.s = tx.s /\ T.old = tx.old /\ T.snap = tx.snap
      /\ T.last = tx.last /\ T.seen = tx.seen
  BY <1>0, <1>3 DEF TxFields
<1>5. pg' = pg /\ mem' = mem /\ ans' = Answers(<<id, since>>, p, q)
  BY <1>1, <1>2 DEF AccountHistory, Both
<1>6. PICK a : /\ a = ans' /\ a.asked = <<id, since>> /\ a.p.err = p.err /\ a.p.val = p.val
               /\ a.m.err = q.err /\ a.m.val = q.val
  BY <1>5 DEF Answers
<1>7. AnswerAlike'
  BY <1>2, <1>3, <1>4, <1>6 DEF AnswerAlike
<1>8. Image(mem, T) /\ Seeing(pg, T)
  BY <1>0, <1>4 DEF FakeInv, Image, Seeing
<1>. QED BY <1>0, <1>3, <1>4, <1>5, <1>7, <1>8 DEF FakeInv

LEMMA PagesFake ==
  ASSUME WalkInv, FakeInv, ~tx.open, NEW s, NEW q, NEW after, CursorOK(after), NEW got, NEW must,
         Show(s, q, after, got, must)
  PROVE  FakeInv'
<1>0. Alike(pg, mem)
  BY DEF FakeInv
<1>1. PICK n : n = Limit(PageLimit) + 1 /\ n \in Nat
  BY StoreAssumption DEF Limit
<1>2. PICK r : r = Query(q, after, n)
  OBVIOUS
<1>3. CursorOK(r.after) /\ r.limit \in Nat
  BY <1>1, <1>2 DEF Query
<1>4. PICK p, m : p = Pg!ListDisputes(pg, s, r) /\ m = Fake!ListDisputes(mem, s, r)
  OBVIOUS
<1>5. Same(pg, mem, p, m)
  BY <1>0, <1>3, <1>4, ListDisputesSame
<1>6. pg' = p.db /\ mem' = m.db /\ ans' = Answers(<<>>, p, m) /\ tx' = tx
  BY <1>1, <1>2, <1>4 DEF Show
<1>7. Alike(pg', mem') /\ Said(p, m)
  BY <1>5, <1>6 DEF Same, Holds
<1>8. AnswerAlike' /\ ans'.asked = <<>>
  BY <1>6, <1>7, SaidAlike
<1>. QED BY <1>6, <1>7, <1>8 DEF FakeInv

LEMMA ReaderFake ==
  ASSUME WalkInv, FakeInv
  PROVE  /\ \A s, q : FirstPage(s, q) => FakeInv'
         /\ NextPage => FakeInv'
<1>1. \A s, q : FirstPage(s, q) => FakeInv'
  <2>1. CursorOK({})
    BY DEF CursorOK
  <2>. QED BY <2>1, PagesFake DEF FirstPage
<1>2. ASSUME NextPage PROVE FakeInv'
  <2>1. GotOK(walk.got, walk.after) /\ walk.after # {} /\ ~tx.open
    BY <1>2 DEF NextPage, WalkInv, WalkOK
  <2>2. PICK got, after : got = walk.got /\ after = walk.after
    OBVIOUS
  <2>3. PICK S : got \in Seq(S) /\ Len(got) > 0 /\ after = {Cursor(got[Len(got)])}
    BY <2>1, <2>2 DEF GotOK
  <2>4. PICK d : d = got[Len(got)] /\ d.id \in Int /\ d.opened \in Int
    <3>1. Len(got) \in DOMAIN got
      BY <2>3
    <3>. QED BY <2>1, <2>2, <3>1 DEF GotOK
  <2>5. CursorOK(after)
    BY <2>3, <2>4 DEF CursorOK, Cursor
  <2>6. Show(walk.s, walk.q, after, got, walk.must)
    BY <1>2, <2>2 DEF NextPage
  <2>. QED BY <2>1, <2>5, <2>6, PagesFake
<1>. QED BY <1>1, <1>2

\* A transaction begins with an image of what both hold.
LEMMA BeginFake ==
  ASSUME FakeInv, NEW s, Begin(s)
  PROVE  FakeInv'
<1>1. /\ ~tx.open /\ pg' = pg /\ mem' = mem /\ ans' = ans
      /\ Alike(pg, mem) /\ AnswerAlike /\ ans.asked = <<>>
  BY DEF Begin, FakeInv
<1>2. PICK db, m, snap : db = pg /\ m = mem /\ snap = Fake!snapshot(m)
  OBVIOUS
<1>3. PICK T : /\ T = tx' /\ T.open /\ T.s = s /\ T.old = db /\ T.snap = snap /\ T.seen = {} /\ ~T.last
  BY <1>2 DEF Begin
<1>4. Restored(db, m) /\ Own(db, m)
  BY <1>1, <1>2 DEF Alike
<1>5. /\ snap.disputes = m.disputes /\ snap.events = m.events /\ snap.idempotent = m.idempotent
      /\ snap.deadlines = m.deadlines /\ snap.ledger = m.ledger /\ snap.questions = m.questions
      /\ snap.notices = m.notices /\ snap.risk = m.risk /\ snap.files = m.files /\ DOMAIN snap = SnapFields
  BY <1>2 DEF Fake!snapshot, SnapFields
<1>6. Restored(db, snap)
  BY <1>4, <1>5 DEF Restored
<1>7. Image(mem', T) /\ Seeing(pg', T)
  BY <1>1, <1>2, <1>3, <1>4, <1>5, <1>6 DEF Image, Seeing
<1>8. AnswerAlike'
  BY <1>1 DEF AnswerAlike
<1>. QED BY <1>1, <1>3, <1>7, <1>8 DEF FakeInv

\* Silence says the same on both sides.
LEMMA SilenceFake ==
  ASSUME ans' = Silence
  PROVE  AnswerAlike' /\ ans'.asked = <<>>
<1>1. PICK a : a = ans' /\ a.asked = <<>> /\ a.p = [err |-> "ok", val |-> 0] /\ a.m = [err |-> "ok", val |-> 0]
  BY DEF Silence
<1>. QED BY <1>1 DEF AnswerAlike

\* A rollback puts both images back, and leaves in both what the transaction has not written.
LEMMA RollbackFake ==
  ASSUME ScopeInv, FakeInv, Rollback
  PROVE  FakeInv'
<1>1. tx.open /\ ~tx.last /\ ans' = Silence /\ tx' = NoTx(tx.n)
  BY DEF Rollback
<1>2. PICK old, snap, m, x : old = tx.old /\ snap = tx.snap /\ m = mem /\ x = pg.noticeId
  OBVIOUS
<1>3. /\ PgOK(old) /\ Restored(old, snap) /\ DOMAIN snap = SnapFields /\ Own(old, m)
      /\ DOMAIN m = MemFields /\ m.nextNotice = x
  BY <1>1, <1>2 DEF ScopeInv, FakeInv, Image, Alike
<1>4. PICK nd, nm : nd = [old EXCEPT !.noticeId = x] /\ nm = Fake!restore(m, snap) /\ pg' = nd /\ mem' = nm
  BY <1>2 DEF Rollback
<1>5. PgOK(nd)
  BY <1>3, <1>4, DrawKeeps DEF Keeps
<1>6. nd.noticeId = x /\ \A f \in PgFields \ {"noticeId"} : nd[f] = old[f]
  BY <1>3, <1>4 DEF PgOK, PgFields
<1>7. /\ DOMAIN nm = MemFields
      /\ \A f \in SnapFields : nm[f] = snap[f]
      /\ \A f \in MemFields \ SnapFields : nm[f] = m[f]
  BY <1>3, <1>4 DEF Fake!restore, MemFields, SnapFields
<1>8. Restored(nd, nm)
  BY <1>3, <1>6, <1>7 DEF Restored, PgFields, DisputeTables, NumberedTables, TenantTables, SnapFields
<1>9. Own(nd, nm)
  BY <1>3, <1>6, <1>7 DEF Own, SettingsAlike, PgFields, DisputeTables, NumberedTables, TenantTables, SnapFields, MemFields
<1>10. nm.nextNotice = x
  BY <1>3, <1>7 DEF SnapFields, MemFields
<1>11. Alike(pg', mem')
  BY <1>4, <1>5, <1>6, <1>7, <1>8, <1>9, <1>10 DEF Alike
<1>12. ~tx'.open
  BY <1>1 DEF NoTx
<1>. QED BY <1>1, <1>11, <1>12, SilenceFake DEF FakeInv

LEMMA OutsideFake ==
  ASSUME FakeInv
  PROVE  /\ Commit => FakeInv'
         /\ Tick => FakeInv'
         /\ UNCHANGED vars => FakeInv'
<1>1. ASSUME Commit PROVE FakeInv'
  <2>1. pg' = pg /\ mem' = mem /\ ans' = Silence /\ tx' = NoTx(tx.n)
    BY <1>1 DEF Commit
  <2>2. ~tx'.open
    BY <2>1 DEF NoTx
  <2>. QED BY <2>1, <2>2, SilenceFake DEF FakeInv
<1>2. Tick => FakeInv'
  BY DEF Tick, FakeInv, AnswerAlike
<1>3. UNCHANGED vars => FakeInv'
  BY DEF vars, FakeInv, AnswerAlike
<1>. QED BY <1>1, <1>2, <1>3

\* The stores at the start.
LEMMA FakeInit == Init => FakeInv
<1>. SUFFICES ASSUME Init PROVE FakeInv
  OBVIOUS
<1>1. PgOK(pg)
  BY ScopeInit DEF ScopeInv
<1>2. /\ pg.disputes = Seeds /\ pg.deadlines = Clocks /\ pg.events = {} /\ pg.keys = {} /\ pg.questionnaires = {}
      /\ pg.files = {} /\ pg.ledger = <<>> /\ pg.risk = <<>> /\ pg.notices = <<>>
      /\ pg.templates = {} /\ pg.logos = {} /\ pg.avatars = {} /\ pg.noticeId = 0
      /\ pg.transactions = EmptyPg.transactions /\ pg.accounts = EmptyPg.accounts /\ pg.settings = EmptyPg.settings
  BY DEF Init, EmptyPg
<1>3. PICK f, g : /\ f = [i \in {d.id : d \in Seeds} |-> CHOOSE d \in Seeds : d.id = i]
                  /\ g = [i \in Ids |-> [j \in {k \in {1} : \E c \in Clocks : c.dispute = i} |->
                            LET c == CHOOSE c \in Clocks : c.dispute = i
                            IN [kind |-> c.kind, cycle |-> c.cycle, due |-> c.due, end |-> c.end]]]
  OBVIOUS
<1>4. PICK m0 : m0 = Fake!NewMemStore(Ids, Tenants)
  OBVIOUS
<1>5. /\ DOMAIN m0 = MemFields
      /\ m0.questions = <<>> /\ m0.files = <<>> /\ m0.idempotent = <<>> /\ m0.logos = <<>> /\ m0.logoAt = <<>>
      /\ m0.avatars = <<>> /\ m0.calendars = <<>> /\ m0.cores = <<>> /\ m0.notices = <<>> /\ m0.nextNotice = 0
      /\ m0.events = [i \in Ids |-> <<>>] /\ m0.ledger = [i \in Ids |-> <<>>] /\ m0.risk = [i \in Ids |-> <<>>]
      /\ m0.templates = [t \in Tenants |-> <<>>]
  BY <1>4 DEF Fake!NewMemStore, MemFields
<1>6. PICK m : m = mem /\ m = [m0 EXCEPT
     !.transactions = [t \in Tenants |-> [id |-> t, tenant |-> t, account |-> t]],
     !.accounts = [t \in Tenants |-> [id |-> t, tenant |-> t]],
     !.names = [t \in Tenants |-> t], !.disputes = f, !.deadlines = g]
  BY <1>3, <1>4, Zenon DEF Init, SeededMem
<1>7. /\ DOMAIN m = MemFields
      /\ m.questions = <<>> /\ m.files = <<>> /\ m.idempotent = <<>> /\ m.logos = <<>> /\ m.logoAt = <<>>
      /\ m.avatars = <<>> /\ m.calendars = <<>> /\ m.cores = <<>> /\ m.notices = <<>> /\ m.nextNotice = 0
      /\ m.events = [i \in Ids |-> <<>>] /\ m.ledger = [i \in Ids |-> <<>>] /\ m.risk = [i \in Ids |-> <<>>]
      /\ m.templates = [t \in Tenants |-> <<>>] /\ m.disputes = f /\ m.deadlines = g
      /\ m.transactions = [t \in Tenants |-> [id |-> t, tenant |-> t, account |-> t]]
      /\ m.accounts = [t \in Tenants |-> [id |-> t, tenant |-> t]]
      /\ m.names = [t \in Tenants |-> t]
  BY <1>5, <1>6 DEF MemFields
<1>8. DisputesAlike(Seeds, f)
  <2>1. ASSUME NEW d \in Seeds PROVE d.id \in DOMAIN f /\ f[d.id] = d
    <3>1. d.id \in {e.id : e \in Seeds}
      OBVIOUS
    <3>2. PICK e : e = CHOOSE x \in Seeds : x.id = d.id
      OBVIOUS
    <3>3. e \in Seeds /\ e.id = d.id
      BY <3>2
    <3>4. e = d
      BY <3>3, StoreAssumption
    <3>. QED BY <1>3, <3>1, <3>2, <3>4
  <2>2. ASSUME NEW i \in DOMAIN f PROVE f[i] \in Seeds /\ f[i].id = i
    <3>1. PICK d \in Seeds : d.id = i
      BY <1>3, <2>2
    <3>. QED BY <2>1, <3>1
  <2>3. TableOK(Seeds)
    BY StoreAssumption DEF TableOK
  <2>. QED BY <2>1, <2>2, <2>3, StoreAssumption DEF DisputesAlike
<1>9. DeadlinesAlike(Seeds, Clocks, g)
  <2>1. ASSUME NEW c \in Clocks PROVE c.dispute \in Ids /\ Belongs(Seeds, c.dispute) /\ DOMAIN g[c.dispute] = {1} /\ g[c.dispute][1] = Pg!deadlineOf(c)
    <3>1. PICK i : i = c.dispute
      OBVIOUS
    <3>2. PICK d \in Seeds : d.id = i
      BY <3>1, StoreAssumption
    <3>3. i \in Ids
      BY <3>2, StoreAssumption
    <3>4. PICK o : o = CHOOSE x \in Clocks : x.dispute = i
      OBVIOUS
    <3>5. o = c
      <4>1. o \in Clocks /\ o.dispute = i
        BY <3>1, <3>4
      <4>. QED BY <3>1, <4>1, StoreAssumption
    <3>6. {k \in {1} : \E x \in Clocks : x.dispute = i} = {1}
      BY <3>1
    <3>7. g[i] = [j \in {1} |-> [kind |-> o.kind, cycle |-> o.cycle, due |-> o.due, end |-> o.end]]
      BY <1>3, <3>3, <3>4, <3>6
    <3>. QED BY <3>1, <3>2, <3>3, <3>5, <3>7 DEF Belongs, Pg!deadlineOf
  <2>2. ASSUME NEW i \in Ids, NEW k \in DOMAIN g[i] PROVE k = 1 /\ \E c \in Clocks : c.dispute = i /\ g[i][k] = Pg!deadlineOf(c)
    <3>1. DOMAIN g[i] = {j \in {1} : \E x \in Clocks : x.dispute = i}
      BY <1>3
    <3>2. k = 1 /\ \E x \in Clocks : x.dispute = i
      BY <2>2, <3>1
    <3>. QED BY <2>1, <3>2
  <2>3. ASSUME NEW i \in Ids PROVE \E T : g[i] \in Seq(T)
    <3>1. PICK D, r : /\ D = {j \in {1} : \E x \in Clocks : x.dispute = i}
                      /\ r = (LET c == CHOOSE c \in Clocks : c.dispute = i
                              IN [kind |-> c.kind, cycle |-> c.cycle, due |-> c.due, end |-> c.end])
      OBVIOUS
    <3>2. g[i] = [j \in D |-> r]
      BY <1>3, <3>1
    <3>3. CASE D = {}
      <4>1. g[i] = <<>>
        BY <3>2, <3>3
      <4>. QED BY <4>1
    <3>4. CASE D = {1}
      <4>1. g[i] = [j \in 1 .. 1 |-> r]
        <5>1. 1 .. 1 = {1}
          OBVIOUS
        <5>. QED BY <3>2, <3>4, <5>1
      <4>2. g[i] \in Seq({r})
        BY <4>1
      <4>. QED BY <4>2
    <3>. QED BY <3>1, <3>3, <3>4
  <2>4. DOMAIN g = Ids
    BY <1>3
  <2>5. \A c \in Clocks : \E k \in DOMAIN g[c.dispute] : g[c.dispute][k] = Pg!deadlineOf(c)
    BY <2>1
  <2>. QED BY <2>1, <2>2, <2>3, <2>4, <2>5, StoreAssumption DEF DeadlinesAlike
<1>10. ASSUME NEW id PROVE Slice(<<>>, id) = <<>>
  <2>1. PlacesOf(<<>>, id) = {}
    BY DEF PlacesOf
  <2>2. Cardinality(PlacesOf(<<>>, id)) = 0
    BY <2>1, FS_EmptySet
  <2>. QED BY <2>2 DEF Slice
<1>11. IsTable(<<>>)
  BY DEF IsTable
<1>12. LedgerAlike(Seeds, <<>>, [i \in Ids |-> <<>>]) /\ RiskAlike(<<>>, [i \in Ids |-> <<>>])
  BY <1>10, <1>11 DEF LedgerAlike, RiskAlike
<1>13. /\ EventsAlike({}, [i \in Ids |-> <<>>]) /\ KeysAlike({}, <<>>) /\ QuestionsAlike({}, <<>>)
       /\ FilesAlike({}, <<>>) /\ NoticesAlike(<<>>, <<>>)
  <2>1. EventsAlike({}, [i \in Ids |-> <<>>])
    BY DEF EventsAlike
  <2>2. KeysAlike({}, <<>>) /\ QuestionsAlike({}, <<>>) /\ FilesAlike({}, <<>>)
    BY FS_EmptySet DEF KeysAlike, QuestionsAlike, FilesAlike
  <2>3. NoticesAlike(<<>>, <<>>)
    BY <1>11 DEF NoticesAlike
  <2>. QED BY <2>1, <2>2, <2>3
<1>14. Restored(pg, m)
  BY <1>2, <1>7, <1>8, <1>9, <1>12, <1>13 DEF Restored
<1>15. Own(pg, m)
  BY <1>2, <1>7 DEF Own, TemplatesAlike, LogosAlike, AvatarsAlike, SettingsAlike
<1>16. Alike(pg, mem)
  BY <1>1, <1>2, <1>6, <1>7, <1>14, <1>15 DEF Alike
<1>17. ~tx.open /\ AnswerAlike /\ ans.asked = <<>>
  BY DEF Init, NoTx, Silence, AnswerAlike
<1>. QED BY <1>16, <1>17 DEF FakeInv

LEMMA FakeNext ==
  ASSUME ScopeInv, WalkInv, FakeInv, [Next]_vars
  PROVE  FakeInv'
<1>1. CASE \E s \in Sessions : Begin(s)
  BY <1>1, BeginFake
<1>2. CASE Rollback \/ Commit \/ Tick \/ UNCHANGED vars
  BY <1>2, RollbackFake, OutsideFake
<1>3. ASSUME NEW id \in Ids,
             \/ GetDispute(id) \/ ListEvents(id) \/ ListDeadlines(id) \/ ListLedger(id) \/ ListRisk(id)
             \/ GetQuestionnaire(id) \/ ListNotices(id) \/ ListAttachmentMeta(id)
             \/ \E team \in Teams : InsertDispute(id, team) \/ \E v \in 1..2 : UpdateDisputeTeam(id, v, team)
             \/ \E v \in 1..2, st \in {"INITIATED", "CLOSED"} : UpdateDisputeState(id, v, st)
      PROVE  FakeInv'
  <2>1. CASE ListEvents(id) \/ ListDeadlines(id) \/ ListLedger(id) \/ ListRisk(id)
    BY <2>1, SeenCallsFake
  <2>2. CASE GetQuestionnaire(id) \/ ListNotices(id) \/ ListAttachmentMeta(id)
    BY <2>2, SeenCallsFake
  <2>3. CASE GetDispute(id)
    BY <2>3, DisputeCallsFake
  <2>4. CASE \E team \in Teams : InsertDispute(id, team) \/ \E v \in 1..2 : UpdateDisputeTeam(id, v, team)
    BY <2>4, DisputeCallsFake
  <2>5. CASE \E v \in 1..2, st \in {"INITIATED", "CLOSED"} : UpdateDisputeState(id, v, st)
    BY <2>5, DisputeCallsFake
  <2>. QED BY <1>3, <2>1, <2>2, <2>3, <2>4, <2>5
<1>4. ASSUME NEW id \in Ids,
             \/ \E seq \in 1..2, to \in {"INITIATED", "CHARGEBACK_LOST"} : AppendEvent(id, seq, to)
             \/ \E since \in 1..2 : AccountHistory(id, since)
             \/ \E cycle \in 0..1, dues \in {<<2, 3>>, <<3, 1>>} : InsertDeadlines(id, cycle, dues)
             \/ \E kind \in {"RESOLUTION", "REFUND"}, cycle \in 0..1, met \in BOOLEAN : SettleDeadline(id, kind, cycle, met)
             \/ \E seq \in 1..2, kinds \in {<<"advance">>, <<"clear">>, <<"clear", "advance">>} : AppendLedger(id, seq, kinds)
             \/ \E seq \in 1..2, tier \in {"LOW", "HIGH"} : InsertRisk(id, seq, tier)
      PROVE  FakeInv'
  <2>1. CASE \E seq \in 1..2, to \in {"INITIATED", "CHARGEBACK_LOST"} : AppendEvent(id, seq, to)
    BY <2>1, WritesFake
  <2>2. CASE \E since \in 1..2 : AccountHistory(id, since)
    BY <2>2, HistoryFake
  <2>3. CASE \E cycle \in 0..1, dues \in {<<2, 3>>, <<3, 1>>} : InsertDeadlines(id, cycle, dues)
    BY <2>3, WritesFake
  <2>4. CASE \E kind \in {"RESOLUTION", "REFUND"}, cycle \in 0..1, met \in BOOLEAN : SettleDeadline(id, kind, cycle, met)
    BY <2>4, SeenCallsFake
  <2>5. CASE \E seq \in 1..2, kinds \in {<<"advance">>, <<"clear">>, <<"clear", "advance">>} : AppendLedger(id, seq, kinds)
    BY <2>5, WritesFake
  <2>6. CASE \E seq \in 1..2, tier \in {"LOW", "HIGH"} : InsertRisk(id, seq, tier)
    BY <2>6, WritesFake
  <2>. QED BY <1>4, <2>1, <2>2, <2>3, <2>4, <2>5, <2>6
<1>5. ASSUME NEW id \in Ids,
             \/ \E q \in {"q1", "q2"} : SendQuestionnaire(id, q) \/ AnswerQuestionnaire(id, q)
             \/ \E channel \in {"EMAIL", "LETTER"}, actor \in {Automatic, "ann"} : InsertNotice(id, channel, actor)
             \/ \E i \in DOMAIN pg.notices : ResendNotice(id, pg.notices[i])
             \/ \E n \in 1..2 : GetNotice(id, n)
             \/ \E f \in Files : InsertAttachment(id, f) \/ GetAttachment(id, f)
             \/ \E fs \in {{"f1"}, Files} : ClaimAttachments(id, fs)
             \/ NoticeAttachments(id)
      PROVE  FakeInv'
  <2>1. CASE \E q \in {"q1", "q2"} : SendQuestionnaire(id, q) \/ AnswerQuestionnaire(id, q)
    BY <2>1, SeenCallsFake
  <2>2. CASE \E channel \in {"EMAIL", "LETTER"}, actor \in {Automatic, "ann"} : InsertNotice(id, channel, actor)
    BY <2>2, WritesFake
  <2>3. CASE \E n \in 1..2 : GetNotice(id, n)
    BY <2>3, SeenCallsFake
  <2>4. CASE \E f \in Files : InsertAttachment(id, f) \/ GetAttachment(id, f)
    BY <2>4, SeenCallsFake
  <2>5. CASE \E fs \in {{"f1"}, Files} : ClaimAttachments(id, fs)
    BY <2>5, SeenCallsFake
  <2>6. CASE NoticeAttachments(id)
    BY <2>6, AsidesFake
  <2>7. CASE \E i \in DOMAIN pg.notices : ResendNotice(id, pg.notices[i])
    BY <2>7, WritesFake
  <2>. QED BY <1>5, <2>1, <2>2, <2>3, <2>4, <2>5, <2>6, <2>7
<1>6. CASE \/ \E t \in Tenants : GetTransaction(t)
           \/ GetAccount \/ TenantName \/ TenantCalendar \/ TenantCore
           \/ TenantTemplates \/ GetTenantMetadata \/ GetTenantLogo \/ GetAnalystAvatar
           \/ \E kind \in Kinds : DeleteTenantTemplate(kind) \/ \E text \in {"a", "b"} : PutTenantTemplate(kind, text)
           \/ \E image \in {"p", "q"} : PutTenantLogo(image) \/ PutAnalystAvatar(image)
  <2>1. CASE \E t \in Tenants : GetTransaction(t)
    BY <2>1, TenantCallsFake
  <2>2. CASE GetAccount \/ TenantName \/ TenantCalendar \/ TenantCore
    BY <2>2, TenantCallsFake
  <2>3. CASE TenantTemplates \/ GetTenantMetadata \/ GetTenantLogo \/ GetAnalystAvatar
    BY <2>3, TenantCallsFake
  <2>4. CASE \E kind \in Kinds : DeleteTenantTemplate(kind) \/ \E text \in {"a", "b"} : PutTenantTemplate(kind, text)
    BY <2>4, TenantCallsFake
  <2>5. CASE \E image \in {"p", "q"} : PutTenantLogo(image) \/ PutAnalystAvatar(image)
    BY <2>5, TenantCallsFake
  <2>. QED BY <1>6, <2>1, <2>2, <2>3, <2>4, <2>5
<1>7. CASE \/ CountByState \/ CountOverdue \/ SuspenseBalances \/ OutboxBacklog \/ ClaimNotices
           \/ \E n \in 1..2, failed \in BOOLEAN : FinishNotice(n, failed)
           \/ PurgeDraftAttachments \/ PurgeIdempotencyKeys
  BY <1>7, AsidesFake
<1>8. CASE \/ \E s \in Sessions, st \in {"any", "INITIATED"} : FirstPage(s, [state |-> st, overdue |-> FALSE])
           \/ NextPage
  BY <1>8, ReaderFake
<1>9. CASE \E k \in Keys : GetIdempotent(k) \/ \E h \in {"h1", "h2"} : PutIdempotent(k, h)
  BY <1>9, KeyCallsFake
<1>10. CASE NextDeadlines \/ LatestRisk \/ ListOverdue
  BY <1>10, PagesOfSeenFake
<1>. QED
  BY <1>1, <1>2, <1>3, <1>4, <1>5, <1>6, <1>7, <1>8, <1>9, <1>10, Zenon DEF Next

\* What the tables of the two have in common, as HoldAlike says it.
LEMMA HoldFromAlike ==
  ASSUME Alike(pg, mem)
  PROVE  HoldAlike
<1>1. PICK db, m : db = pg /\ m = mem /\ Restored(db, m) /\ db.noticeId = m.nextNotice
  BY DEF Alike
<1>2. db.disputes = Fake!Elements(m.disputes)
  BY <1>1 DEF Restored, DisputesAlike, Fake!Elements
<1>3. db.questionnaires = Fake!Elements(m.questions)
  BY <1>1 DEF Restored, QuestionsAlike, Fake!Elements
<1>4. db.files = Fake!Elements(m.files)
  BY <1>1 DEF Restored, FilesAlike, Fake!Elements
<1>5. {<<k.tenant, k.scope, k.key>> : k \in db.keys} = DOMAIN m.idempotent
  <2>1. PICK rows, f : rows = db.keys /\ f = m.idempotent /\ KeysAlike(rows, f)
    BY <1>1 DEF Restored
  <2>2. {KeyOf(k) : k \in rows} = DOMAIN f
    <3>1. /\ \A k \in rows : KeyOf(k) \in DOMAIN f
          /\ \A x \in DOMAIN f : \E k \in rows : KeyOf(k) = x
      BY <2>1 DEF KeysAlike
    <3>. QED BY <3>1
  <2>. QED BY <2>1, <2>2, Zenon DEF KeyOf
<1>6. {Pg!noticeOf(n) : n \in Fake!Elements(db.notices)} = Fake!Elements(m.notices)
  <2>1. PICK rows, list : rows = db.notices /\ list = m.notices /\ list = [i \in DOMAIN rows |-> Pg!noticeOf(rows[i])]
    BY <1>1 DEF Restored, NoticesAlike
  <2>2. {Pg!noticeOf(n) : n \in Fake!Elements(rows)} = Fake!Elements(list)
    BY <2>1 DEF Fake!Elements
  <2>. QED BY <2>1, <2>2
<1>7. ASSUME NEW id \in Ids
      PROVE  {Pg!EventOf(e) : e \in {r \in db.events : r.dispute = id}} = Fake!Elements(m.events[id])
  <2>1. PICK rows, f : rows = db.events /\ f = m.events /\ EventsAlike(rows, f)
    BY <1>1 DEF Restored
  <2>2. ASSUME NEW r \in rows, r.dispute = id PROVE Pg!EventOf(r) \in Fake!Elements(f[id])
    BY <2>1, <2>2 DEF EventsAlike, Fake!Elements
  <2>3. ASSUME NEW k \in DOMAIN f[id] PROVE \E r \in rows : r.dispute = id /\ Pg!EventOf(r) = f[id][k]
    <3>1. PICK r : r = [dispute |-> id, seq |-> k, to |-> f[id][k].to] /\ r \in rows
      BY <2>1 DEF EventsAlike
    <3>2. r.dispute = id /\ r.seq = k
      BY <3>1
    <3>. QED BY <2>1, <3>1, <3>2 DEF EventsAlike
  <2>4. {Pg!EventOf(e) : e \in {r \in rows : r.dispute = id}} = Fake!Elements(f[id])
    BY <2>2, <2>3 DEF Fake!Elements
  <2>. QED BY <2>1, <2>4
<1>8. ASSUME NEW id \in Ids
      PROVE  {Pg!deadlineOf(c) : c \in {r \in db.deadlines : r.dispute = id}} = Fake!Elements(m.deadlines[id])
  <2>1. PICK rows, f : rows = db.deadlines /\ f = m.deadlines /\ DeadlinesAlike(db.disputes, rows, f)
    BY <1>1 DEF Restored
  <2>2. {Pg!deadlineOf(c) : c \in {r \in rows : r.dispute = id}} = Fake!Elements(f[id])
    BY <2>1 DEF DeadlinesAlike, Fake!Elements
  <2>. QED BY <2>1, <2>2
<1>9. ASSUME NEW id \in Ids
      PROVE  {Pg!EntryOf(e) : e \in {r \in Fake!Elements(db.ledger) : r.dispute = id}} = Fake!Elements(m.ledger[id])
  <2>1. PICK rows, f : rows = db.ledger /\ f = m.ledger /\ LedgerAlike(db.disputes, rows, f)
    BY <1>1 DEF Restored
  <2>2. PICK S : S = Slice(rows, id) /\ f[id] = [k \in DOMAIN S |-> Pg!EntryOf(S[k])] /\ IsTable(rows)
    BY <2>1 DEF LedgerAlike
  <2>3. /\ \A k \in DOMAIN S : \E i \in DOMAIN rows : rows[i].dispute = id /\ S[k] = rows[i]
        /\ \A i \in DOMAIN rows : rows[i].dispute = id => \E k \in DOMAIN S : S[k] = rows[i]
    BY <2>2, SliceHas
  <2>4. {r \in Fake!Elements(rows) : r.dispute = id} = {S[k] : k \in DOMAIN S}
    BY <2>3 DEF Fake!Elements
  <2>5. Fake!Elements(f[id]) = {Pg!EntryOf(S[k]) : k \in DOMAIN S}
    BY <2>2 DEF Fake!Elements
  <2>. QED BY <2>1, <2>4, <2>5
<1>10. ASSUME NEW id \in Ids
       PROVE  Cardinality({i \in DOMAIN db.risk : db.risk[i].dispute = id}) = Len(m.risk[id])
  <2>1. PICK rows, f : rows = db.risk /\ f = m.risk /\ RiskAlike(rows, f)
    BY <1>1 DEF Restored
  <2>2. PICK S, n, P : S = Slice(rows, id) /\ P = PlacesOf(rows, id) /\ n = Cardinality(P)
    OBVIOUS
  <2>3. f[id] = [k \in DOMAIN S |-> Assessed(S[k])] /\ IsTable(rows) /\ P \in SUBSET (DOMAIN rows)
    BY <2>1, <2>2 DEF RiskAlike, PlacesOf
  <2>4. IsFiniteSet(P)
    BY <2>2, <2>3, PlacesOK
  <2>5. n \in Nat
    BY <2>2, <2>4, FS_CardinalityType
  <2>6. DOMAIN S = 1 .. n
    BY <2>2 DEF Slice
  <2>7. Len(f[id]) = n
    BY <2>3, <2>5, <2>6
  <2>. QED BY <2>1, <2>2, <2>7 DEF PlacesOf
<1>. QED BY <1>1, <1>2, <1>3, <1>4, <1>5, <1>6, <1>7, <1>8, <1>9, <1>10, Zenon DEF HoldAlike

(* Whatever the service asks of its store, in whatever order and with whatever rollbacks,      *)
(* sweeps and ticks between, the in-memory store of the unit tests gives the Postgres store's  *)
(* error or answer, and between transactions the two hold the same rows: for every number of   *)
(* tenants, sessions, disputes, transactions and calls.                                        *)
THEOREM FakeStandsIn == Spec => []FakeIsLikePostgres
<1>1. Init => ScopeInv /\ WalkInv /\ FakeInv
  BY ScopeInit, WalkInit, FakeInit
<1>2. ScopeInv /\ WalkInv /\ FakeInv /\ [Next]_vars => (ScopeInv /\ WalkInv /\ FakeInv)'
  BY ScopeNext, WalkNext, FakeNext
<1>3. FakeInv => FakeIsLikePostgres
  BY HoldFromAlike DEF FakeInv, FakeIsLikePostgres
<1>. QED BY <1>1, <1>2, <1>3, PTL DEF Spec
=============================================================================
