------------------------- MODULE NoticeOutboxProofs -------------------------
(***************************************************************************)
(* Proofs about the outbox, for any number of replicas, notices, files and *)
(* faults and any batch size: what is marked sent was accepted, an email   *)
(* carries the files its author named, and every copy of an email beyond   *)
(* the first has a fault of its own behind it.                             *)
(***************************************************************************)
EXTENDS NoticeOutbox, FiniteSetTheorems, TLAPS

RowType == [sent : BOOLEAN, due : BOOLEAN, resendOf : Nat, named : SUBSET Files]

FileType == [status : {"none", "draft", "claimed", "purged"}, notice : Nat]

DispType == [pc : {"wait", "pass", "deliver", "send", "finish"}, batch : SUBSET (Nat \ {0}),
             cur : Nat, files : SUBSET Files, ok : BOOLEAN]

\* The dispatcher's own bookkeeping: it holds existing notices, is at one notice only
\* between rendering and finishing it, and that notice has left the batch.
DispOK(d) ==
  /\ disp[d].batch \subseteq Ids /\ disp[d].cur \notin disp[d].batch
  /\ disp[d].pc \in {"send", "finish"} => disp[d].cur \in Ids
  /\ disp[d].pc \notin {"send", "finish"} => disp[d].cur = 0
  /\ disp[d].pc \in {"wait", "pass"} => disp[d].batch = {}

OutboxTypeOK ==
  /\ notices \in Seq(RowType) /\ Len(notices) =< MaxNotices
  /\ files \in [Files -> FileType]
  /\ disp \in [Dispatchers -> DispType]
  /\ accepted \in [1..MaxNotices -> Nat] /\ faults \in Nat
  /\ \A d \in Dispatchers : DispOK(d)

\* What an insert does to the outbox: the rows there were stay, one new row follows.
LEMMA InsertLemma ==
  ASSUME notices \in Seq(RowType), NEW row \in RowType, notices' = Append(notices, row)
  PROVE  /\ notices' \in Seq(RowType) /\ Len(notices') = Len(notices) + 1
         /\ Ids = 1..Len(notices) /\ Ids' = 1..(Len(notices) + 1)
         /\ \A i \in Ids : notices'[i] = notices[i]
         /\ notices'[Len(notices) + 1] = row
BY DEF Ids

\* A write to one row leaves the others alone.
LEMMA WriteLemma ==
  ASSUME notices \in Seq(RowType), NEW i \in Ids, NEW row \in RowType,
         notices' = [notices EXCEPT ![i] = row]
  PROVE  /\ notices' \in Seq(RowType) /\ Len(notices') = Len(notices) /\ Ids' = Ids
         /\ \A j \in Ids : notices'[j] = IF j = i THEN row ELSE notices[j]
BY DEF Ids

\* A claim ends the due time of the batch and changes nothing else.
LEMMA ClaimLemma ==
  ASSUME notices \in Seq(RowType), NEW batch \in SUBSET Ids,
         notices' = [i \in Ids |-> [notices[i] EXCEPT !.due = @ /\ i \notin batch]]
  PROVE  /\ notices' \in Seq(RowType) /\ Len(notices') = Len(notices) /\ Ids' = Ids
         /\ \A i \in Ids : /\ notices'[i].sent = notices[i].sent
                           /\ notices'[i].due = (notices[i].due /\ i \notin batch)
                           /\ notices'[i].resendOf = notices[i].resendOf
                           /\ notices'[i].named = notices[i].named
<1>1. Ids = 1..Len(notices) /\ Len(notices) \in Nat
  BY DEF Ids
<1>2. \A i \in Ids : notices[i] \in RowType
  BY DEF Ids
<1>3. \A i \in Ids : notices'[i] \in RowType
  BY <1>2 DEF RowType
<1>4. notices' \in [1..Len(notices) -> RowType]
  BY <1>1, <1>3
<1>5. notices' \in Seq(RowType) /\ Len(notices') = Len(notices)
  BY <1>1, <1>4
<1>6. Ids' = Ids
  BY <1>1, <1>4, <1>5 DEF Ids
<1> QED BY <1>2, <1>5, <1>6 DEF RowType

\* What the dispatchers hold stays well formed when one of them moves on and the rows
\* only grow in number.
LEMMA DispLemma ==
  ASSUME OutboxTypeOK, NEW d \in Dispatchers, NEW r \in DispType,
         disp' = [disp EXCEPT ![d] = r], Ids \subseteq Ids',
         r.batch \subseteq Ids', r.cur \notin r.batch,
         r.pc \in {"send", "finish"} => r.cur \in Ids',
         r.pc \notin {"send", "finish"} => r.cur = 0,
         r.pc \in {"wait", "pass"} => r.batch = {}
  PROVE  disp' \in [Dispatchers -> DispType] /\ \A e \in Dispatchers : DispOK(e)'
<1>1. \A e \in Dispatchers : disp'[e] = IF e = d THEN r ELSE disp[e]
  BY DEF OutboxTypeOK
<1>2. disp' \in [Dispatchers -> DispType]
  BY DEF OutboxTypeOK
<1>3. \A e \in Dispatchers : e # d => DispOK(e)'
  BY <1>1 DEF OutboxTypeOK, DispOK
<1>4. DispOK(d)'
  BY <1>1 DEF DispOK
<1> QED BY <1>2, <1>3, <1>4

\* The record a dispatcher moves on with after finishing a notice.
LEMMA NextOfLemma ==
  ASSUME OutboxTypeOK, NEW d \in Dispatchers, disp[d].pc = "finish"
  PROVE  /\ NextOf(d) \in DispType /\ NextOf(d).batch = disp[d].batch /\ NextOf(d).cur = 0
         /\ NextOf(d).pc \in {"pass", "deliver"} /\ NextOf(d).ok = FALSE
         /\ NextOf(d).pc = "pass" => disp[d].batch = {}
BY DEF OutboxTypeOK, DispType, NextOf, Waiting

LEMMA WaitingLemma ==
  /\ Waiting \in DispType /\ Waiting.pc = "wait" /\ Waiting.batch = {} /\ Waiting.cur = 0
  /\ Waiting.ok = FALSE
BY DEF Waiting, DispType

\* Ids of an outbox whose rows did not change.
LEMMA SameIds == notices' = notices => Ids' = Ids
BY DEF Ids

LEMMA TypeInit == Init => OutboxTypeOK
<1> SUFFICES ASSUME Init PROVE OutboxTypeOK
  OBVIOUS
<1>1. notices \in Seq(RowType) /\ Len(notices) =< MaxNotices
  BY OutboxAssumption DEF Init
<1>2. files \in [Files -> FileType]
  BY DEF Init, File, FileType
<1>3. disp \in [Dispatchers -> DispType] /\ \A d \in Dispatchers : DispOK(d)
  BY WaitingLemma DEF Init, DispOK
<1> QED BY <1>1, <1>2, <1>3 DEF Init, OutboxTypeOK

\* Every action keeps the types.
LEMMA TypeStep == OutboxTypeOK /\ [Next]_vars => OutboxTypeOK'
<1> SUFFICES ASSUME OutboxTypeOK, [Next]_vars PROVE OutboxTypeOK'
  OBVIOUS
<1>0. /\ notices \in Seq(RowType) /\ Len(notices) =< MaxNotices /\ Len(notices) \in Nat
      /\ Ids = 1..Len(notices) /\ files \in [Files -> FileType]
      /\ disp \in [Dispatchers -> DispType]
      /\ accepted \in [1..MaxNotices -> Nat] /\ faults \in Nat
      /\ \A d \in Dispatchers : DispOK(d)
  BY DEF OutboxTypeOK, Ids
<1>1. ASSUME NEW row \in RowType, Insert(row), files' \in [Files -> FileType] PROVE OutboxTypeOK'
  <2>1. /\ notices' = Append(notices, row) /\ Len(notices) < MaxNotices
        /\ disp' = disp /\ accepted' = accepted /\ faults' = faults
    BY <1>1 DEF Insert
  <2>2. /\ notices' \in Seq(RowType) /\ Len(notices') = Len(notices) + 1
        /\ Ids \subseteq Ids'
    BY <1>0, <2>1, InsertLemma
  <2>3. Len(notices') =< MaxNotices
    BY <1>0, <2>1, <2>2, OutboxAssumption
  <2>4. \A d \in Dispatchers : DispOK(d)'
    BY <1>0, <2>1, <2>2 DEF DispOK
  <2> QED BY <1>0, <1>1, <2>1, <2>2, <2>3, <2>4 DEF OutboxTypeOK
<1>2. CASE Notify
  <2>1. Row(0, {}) \in RowType
    BY DEF Row, RowType
  <2> QED BY <1>0, <1>1, <1>2, <2>1 DEF Notify
<1>3. ASSUME NEW named \in SUBSET Files, ComposeEmail(named) PROVE OutboxTypeOK'
  <2>1. Row(0, named) \in RowType
    BY DEF Row, RowType
  <2>2. files' \in [Files -> FileType]
    BY <1>0, <1>3 DEF ComposeEmail, ClaimAttachments, File, FileType
  <2> QED BY <1>1, <1>3, <2>1, <2>2 DEF ComposeEmail
<1>4. ASSUME NEW i \in Ids, Resend(i) PROVE OutboxTypeOK'
  <2>1. Row(IF notices[i].resendOf # 0 THEN notices[i].resendOf ELSE i, notices[i].named) \in RowType
    <3>1. notices[i] \in RowType /\ i \in Nat
      BY <1>0
    <3> QED BY <3>1 DEF Row, RowType
  <2> QED BY <1>0, <1>1, <1>4, <2>1 DEF Resend
<1>5. ASSUME files' \in [Files -> FileType],
             UNCHANGED <<notices, disp, kick, mails, accepted, faults>>
      PROVE  OutboxTypeOK'
  BY <1>0, <1>5, SameIds DEF OutboxTypeOK, DispOK
<1>6. ASSUME NEW f \in Files, Upload(f) PROVE OutboxTypeOK'
  BY <1>0, <1>5, <1>6 DEF Upload, File, FileType
<1>7. CASE PurgeDraftAttachments
  BY <1>0, <1>5, <1>7 DEF PurgeDraftAttachments, File, FileType
<1>8. ASSUME NEW d \in Dispatchers, WakeByKick(d) \/ WakeByTimer(d) PROVE OutboxTypeOK'
  <2> DEFINE r == [disp[d] EXCEPT !.pc = "pass"]
  <2>1. /\ disp[d].pc = "wait" /\ disp' = [disp EXCEPT ![d] = r]
        /\ UNCHANGED <<notices, files, accepted, faults>>
    BY <1>8 DEF WakeByKick, WakeByTimer, Wake
  <2>2. disp[d] \in DispType /\ DispOK(d)
    BY <1>0
  <2>3. r \in DispType /\ r.batch = {} /\ r.cur = 0 /\ r.pc = "pass"
    BY <2>1, <2>2 DEF DispType, DispOK
  <2>4. disp' \in [Dispatchers -> DispType] /\ \A e \in Dispatchers : DispOK(e)'
    BY <2>1, <2>3, SameIds, DispLemma
  <2> QED BY <1>0, <2>1, <2>4 DEF OutboxTypeOK
<1>9. ASSUME NEW d \in Dispatchers, ClaimNotices(d) PROVE OutboxTypeOK'
  <2>1. PICK batch \in SUBSET Claimable :
          /\ notices' = [i \in Ids |-> [notices[i] EXCEPT !.due = @ /\ i \notin batch]]
          /\ disp' = [disp EXCEPT ![d].batch = batch,
                                  ![d].pc = IF batch = {} THEN "wait" ELSE "deliver"]
    BY <1>9 DEF ClaimNotices
  <2> DEFINE r == [disp[d] EXCEPT !.batch = batch, !.pc = IF batch = {} THEN "wait" ELSE "deliver"]
  <2>2. disp[d].pc = "pass" /\ disp[d] \in DispType /\ DispOK(d) /\ batch \subseteq Ids
    BY <1>0, <1>9 DEF ClaimNotices, Claimable
  <2>3. notices' \in Seq(RowType) /\ Len(notices') = Len(notices) /\ Ids' = Ids
    BY <1>0, <2>1, <2>2, ClaimLemma
  <2>4. disp' = [disp EXCEPT ![d] = r]
    BY <1>0, <2>1
  <2>5. 0 \notin batch /\ batch \subseteq Nat \ {0}
    BY <1>0, <2>2
  <2>6. /\ r \in DispType /\ r.batch = batch /\ r.cur = 0
        /\ r.pc = IF batch = {} THEN "wait" ELSE "deliver"
    BY <2>2, <2>5 DEF DispType, DispOK
  <2> HIDE DEF r
  <2>7. disp' \in [Dispatchers -> DispType] /\ \A e \in Dispatchers : DispOK(e)'
    BY <2>2, <2>3, <2>4, <2>5, <2>6, DispLemma
  <2> QED BY <1>0, <1>9, <2>3, <2>7 DEF OutboxTypeOK, ClaimNotices
<1>10. ASSUME NEW d \in Dispatchers, Render(d) PROVE OutboxTypeOK'
  <2>1. PICK i \in disp[d].batch :
          disp' = [disp EXCEPT ![d].cur = i, ![d].batch = @ \ {i}, ![d].pc = "send",
                               ![d].files = NoticeAttachments(i)]
    BY <1>10 DEF Render
  <2> DEFINE r == [disp[d] EXCEPT !.cur = i, !.batch = @ \ {i}, !.pc = "send",
                                  !.files = NoticeAttachments(i)]
  <2>2. /\ disp[d] \in DispType /\ DispOK(d) /\ disp' = [disp EXCEPT ![d] = r]
        /\ UNCHANGED <<notices, files, accepted, faults>> /\ NoticeAttachments(i) \subseteq Files
    BY <1>0, <1>10, <2>1 DEF Render, NoticeAttachments
  <2>3. /\ r \in DispType /\ r.batch = disp[d].batch \ {i} /\ r.cur = i /\ r.pc = "send"
    BY <2>2 DEF DispType
  <2>4. i \in Ids /\ r.batch \subseteq Ids
    BY <2>2, <2>3 DEF DispOK
  <2>5. disp' \in [Dispatchers -> DispType] /\ \A e \in Dispatchers : DispOK(e)'
    BY <2>2, <2>3, <2>4, SameIds, DispLemma
  <2> QED BY <1>0, <2>2, <2>5 DEF OutboxTypeOK
<1>11. ASSUME NEW d \in Dispatchers, NEW h \in BOOLEAN, disp[d].pc = "send",
              disp' = [disp EXCEPT ![d].pc = "finish", ![d].ok = h],
              UNCHANGED <<notices, files>>,
              accepted' \in [1..MaxNotices -> Nat], faults' \in Nat
       PROVE  OutboxTypeOK'
  <2> DEFINE r == [disp[d] EXCEPT !.pc = "finish", !.ok = h]
  <2>1. disp[d] \in DispType /\ DispOK(d) /\ disp' = [disp EXCEPT ![d] = r]
    BY <1>0, <1>11
  <2>2. r \in DispType /\ r.batch = disp[d].batch /\ r.cur = disp[d].cur /\ r.pc = "finish"
    BY <2>1 DEF DispType
  <2>3. r.batch \subseteq Ids /\ r.cur \notin r.batch /\ r.cur \in Ids
    BY <1>11, <2>1, <2>2 DEF DispOK
  <2>4. disp' \in [Dispatchers -> DispType] /\ \A e \in Dispatchers : DispOK(e)'
    BY <1>11, <2>1, <2>2, <2>3, SameIds, DispLemma
  <2> QED BY <1>0, <1>11, <2>4 DEF OutboxTypeOK
<1>12. ASSUME NEW d \in Dispatchers, SendOK(d) \/ SendUnheard(d) \/ SendFails(d) PROVE OutboxTypeOK'
  <2>1. disp[d].pc = "send" /\ UNCHANGED <<notices, files>> /\ faults' \in Nat
    BY <1>0, <1>12 DEF SendOK, SendUnheard, SendFails, Accept
  <2>2. \E h \in BOOLEAN : disp' = [disp EXCEPT ![d].pc = "finish", ![d].ok = h]
    BY <1>12 DEF SendOK, SendUnheard, SendFails, Accept
  <2>3. accepted' \in [1..MaxNotices -> Nat]
    BY <1>0, <1>12 DEF SendOK, SendUnheard, SendFails, Accept
  <2> QED BY <1>11, <2>1, <2>2, <2>3
<1>13. ASSUME NEW d \in Dispatchers, disp[d].pc = "finish",
              disp' = [disp EXCEPT ![d] = NextOf(d)],
              notices' \in Seq(RowType), Len(notices') = Len(notices), Ids' = Ids,
              faults' \in Nat, UNCHANGED <<files, accepted>>
       PROVE  OutboxTypeOK'
  <2>1. DispOK(d)
    BY <1>0
  <2>2. /\ NextOf(d) \in DispType /\ NextOf(d).batch \subseteq Ids' /\ NextOf(d).cur = 0
        /\ NextOf(d).pc \in {"pass", "deliver"} /\ (NextOf(d).pc = "pass" => NextOf(d).batch = {})
    BY <1>13, <2>1, NextOfLemma DEF DispOK
  <2> DEFINE r == NextOf(d)
  <2>3. /\ r \in DispType /\ r.batch \subseteq Ids' /\ r.cur \notin r.batch
        /\ (r.pc \in {"send", "finish"} => r.cur \in Ids')
        /\ (r.pc \notin {"send", "finish"} => r.cur = 0)
        /\ (r.pc \in {"wait", "pass"} => r.batch = {}) /\ disp' = [disp EXCEPT ![d] = r]
    BY <1>0, <1>13, <2>2
  <2> HIDE DEF r
  <2>4. disp' \in [Dispatchers -> DispType] /\ \A e \in Dispatchers : DispOK(e)'
    BY <1>13, <2>3, DispLemma
  <2> QED BY <1>0, <1>13, <2>4 DEF OutboxTypeOK
<1>14. ASSUME NEW d \in Dispatchers, FinishNotice(d) PROVE OutboxTypeOK'
  <2> DEFINE i == disp[d].cur
             row == [notices[i] EXCEPT !.sent = @ \/ disp[d].ok]
  <2>1. /\ disp[d].pc = "finish" /\ disp' = [disp EXCEPT ![d] = NextOf(d)]
        /\ UNCHANGED <<files, accepted, faults>>
    BY <1>14 DEF FinishNotice
  <2>2. i \in Ids /\ disp[d] \in DispType
    BY <1>0, <2>1 DEF DispOK
  <2>3. notices[i] \in RowType
    BY <1>0, <2>2
  <2>4. row \in RowType
    BY <2>2, <2>3 DEF RowType, DispType
  <2>5. notices' = [notices EXCEPT ![i] = row]
    BY <1>14 DEF FinishNotice
  <2>6. notices' \in Seq(RowType) /\ Len(notices') = Len(notices) /\ Ids' = Ids
    BY <1>0, <2>2, <2>4, <2>5, WriteLemma
  <2> QED BY <1>0, <1>13, <2>1, <2>6
<1>15. ASSUME NEW d \in Dispatchers, FinishLost(d) PROVE OutboxTypeOK'
  <2>1. /\ disp[d].pc = "finish" /\ disp' = [disp EXCEPT ![d] = NextOf(d)] /\ faults' \in Nat
        /\ UNCHANGED <<notices, files, accepted>>
    BY <1>0, <1>15 DEF FinishLost
  <2> QED BY <1>0, <1>13, <2>1, SameIds
<1>16. ASSUME NEW d \in Dispatchers, Crash(d) PROVE OutboxTypeOK'
  <2>3. /\ disp' = [disp EXCEPT ![d] = Waiting] /\ faults' \in Nat
        /\ UNCHANGED <<notices, files, accepted>>
    BY <1>0, <1>16 DEF Crash
  <2>4. disp' \in [Dispatchers -> DispType] /\ \A e \in Dispatchers : DispOK(e)'
    BY <2>3, WaitingLemma, SameIds, DispLemma
  <2> QED BY <1>0, <2>3, <2>4 DEF OutboxTypeOK
<1>17. ASSUME NEW i \in Ids, LeaseEnds(i) PROVE OutboxTypeOK'
  <2> DEFINE row == [notices[i] EXCEPT !.due = TRUE]
  <2>1. notices[i] \in RowType
    BY <1>0
  <2>2. row \in RowType
    BY <2>1 DEF RowType
  <2>3. notices' \in Seq(RowType) /\ Len(notices') = Len(notices) /\ Ids' = Ids
    BY <1>0, <1>17, <2>2, WriteLemma DEF LeaseEnds
  <2>4. \A d \in Dispatchers : DispOK(d)'
    BY <1>0, <1>17, <2>3 DEF DispOK, LeaseEnds
  <2>5. faults' \in Nat
    BY <1>0, <1>17 DEF LeaseEnds
  <2> QED BY <1>0, <1>17, <2>3, <2>4, <2>5 DEF OutboxTypeOK, LeaseEnds
<1>18. CASE UNCHANGED vars
  BY <1>0, <1>5, <1>18 DEF vars
<1> QED BY <1>2, <1>3, <1>4, <1>6, <1>7, <1>8, <1>9, <1>10, <1>12, <1>14, <1>15, <1>16, <1>17, <1>18
        DEF Next, Deliver

\* What a type-correct state says, in the form the steps below use it.
LEMMA TypeFacts ==
  ASSUME OutboxTypeOK
  PROVE  /\ notices \in Seq(RowType) /\ Len(notices) =< MaxNotices /\ Len(notices) \in Nat
         /\ Ids = 1..Len(notices) /\ Ids \subseteq 1..MaxNotices
         /\ \A i \in Ids : notices[i] \in RowType
         /\ \A d \in Dispatchers : disp[d] \in DispType /\ DispOK(d)
         /\ accepted \in [1..MaxNotices -> Nat] /\ faults \in Nat
<1>1. notices \in Seq(RowType) /\ Len(notices) =< MaxNotices /\ Len(notices) \in Nat
  BY DEF OutboxTypeOK
<1>2. Ids = 1..Len(notices)
  BY <1>1 DEF Ids
<1>3. \A i \in Ids : notices[i] \in RowType
  BY <1>1, <1>2
<1>4. Ids \subseteq 1..MaxNotices
  BY <1>1, <1>2, OutboxAssumption
<1> QED BY <1>1, <1>2, <1>3, <1>4 DEF OutboxTypeOK

\* Which rows a request adds.
LEMMA RequestRow ==
  ASSUME OutboxTypeOK,
         Notify \/ (\E named \in SUBSET Files : ComposeEmail(named)) \/ (\E i \in Ids : Resend(i))
  PROVE  \E row \in RowType : ~row.sent /\ row.due /\ Insert(row)
<1>1. CASE Notify
  <2>1. Row(0, {}) \in RowType /\ ~Row(0, {}).sent /\ Row(0, {}).due
    BY DEF Row, RowType
  <2> QED BY <1>1, <2>1 DEF Notify
<1>2. ASSUME NEW named \in SUBSET Files, ComposeEmail(named)
      PROVE  \E row \in RowType : ~row.sent /\ row.due /\ Insert(row)
  <2>1. Row(0, named) \in RowType /\ ~Row(0, named).sent /\ Row(0, named).due
    BY DEF Row, RowType
  <2> QED BY <1>2, <2>1 DEF ComposeEmail
<1>3. ASSUME NEW i \in Ids, Resend(i)
      PROVE  \E row \in RowType : ~row.sent /\ row.due /\ Insert(row)
  <2> DEFINE row == Row(IF notices[i].resendOf # 0 THEN notices[i].resendOf ELSE i, notices[i].named)
  <2>1. notices[i] \in RowType /\ i \in Nat
    BY TypeFacts
  <2>2. row \in RowType /\ ~row.sent /\ row.due
    BY <2>1 DEF Row, RowType
  <2>3. Insert(row)
    BY <1>3 DEF Resend
  <2> QED BY <2>2, <2>3
<1> QED BY <1>1, <1>2, <1>3

\* The facts of an insert that the invariants need.
LEMMA InsertEffect ==
  ASSUME OutboxTypeOK, NEW row \in RowType, Insert(row)
  PROVE  /\ Ids' = Ids \cup {Len(notices) + 1} /\ Len(notices) + 1 \notin Ids
         /\ Len(notices) + 1 \in 1..MaxNotices
         /\ \A i \in Ids : notices'[i] = notices[i]
         /\ notices'[Len(notices) + 1] = row
         /\ UNCHANGED <<disp, mails, accepted, faults>>
<1>1. notices' = Append(notices, row) /\ Len(notices) < MaxNotices
  BY DEF Insert
<1>2. /\ notices' \in Seq(RowType) /\ Len(notices') = Len(notices) + 1
      /\ Ids = 1..Len(notices) /\ Ids' = 1..(Len(notices) + 1)
      /\ \A i \in Ids : notices'[i] = notices[i]
      /\ notices'[Len(notices) + 1] = row
  BY <1>1, TypeFacts, InsertLemma
<1>3. Len(notices) \in Nat
  BY TypeFacts
<1> QED BY <1>1, <1>2, <1>3, OutboxAssumption DEF Insert

\* The facts of a finish: one row may become sent.
LEMMA FinishEffect ==
  ASSUME OutboxTypeOK, NEW d \in Dispatchers, FinishNotice(d)
  PROVE  /\ Ids' = Ids /\ disp[d].cur \in Ids
         /\ \A i \in Ids : /\ notices'[i].sent
                                = (notices[i].sent \/ (i = disp[d].cur /\ disp[d].ok))
                           /\ notices'[i].due = notices[i].due
                           /\ notices'[i].resendOf = notices[i].resendOf
                           /\ notices'[i].named = notices[i].named
         /\ UNCHANGED <<files, mails, accepted, faults>>
<1> DEFINE c == disp[d].cur
           row == [notices[c] EXCEPT !.sent = @ \/ disp[d].ok]
<1>1. c \in Ids /\ disp[d] \in DispType
  BY TypeFacts DEF FinishNotice, DispOK
<1>2. notices[c] \in RowType
  BY <1>1, TypeFacts
<1>3. row \in RowType
  BY <1>1, <1>2 DEF RowType, DispType
<1>4. notices' = [notices EXCEPT ![c] = row]
  BY DEF FinishNotice
<1>5. Ids' = Ids /\ \A j \in Ids : notices'[j] = IF j = c THEN row ELSE notices[j]
  BY <1>1, <1>3, <1>4, TypeFacts, WriteLemma
<1>6. /\ row.sent = (notices[c].sent \/ disp[d].ok) /\ row.due = notices[c].due
      /\ row.resendOf = notices[c].resendOf /\ row.named = notices[c].named
  BY <1>2 DEF RowType
<1>7. \A i \in Ids : notices[i].sent \in BOOLEAN
  BY TypeFacts DEF RowType
<1> HIDE DEF row
<1> QED BY <1>1, <1>5, <1>6, <1>7 DEF FinishNotice

\* The facts of a lease that ends.
LEMMA LeaseEffect ==
  ASSUME OutboxTypeOK, NEW i \in Ids, LeaseEnds(i)
  PROVE  /\ Ids' = Ids
         /\ \A j \in Ids : /\ notices'[j].sent = notices[j].sent
                           /\ notices'[j].due = (notices[j].due \/ j = i)
                           /\ notices'[j].resendOf = notices[j].resendOf
                           /\ notices'[j].named = notices[j].named
         /\ UNCHANGED <<files, disp, mails, accepted>>
<1> DEFINE row == [notices[i] EXCEPT !.due = TRUE]
<1>1. notices[i] \in RowType
  BY TypeFacts
<1>2. row \in RowType
  BY <1>1 DEF RowType
<1>3. Ids' = Ids /\ \A j \in Ids : notices'[j] = IF j = i THEN row ELSE notices[j]
  BY <1>2, TypeFacts, WriteLemma DEF LeaseEnds
<1>4. /\ row.sent = notices[i].sent /\ row.due = TRUE
      /\ row.resendOf = notices[i].resendOf /\ row.named = notices[i].named
  BY <1>1 DEF RowType
<1>5. \A j \in Ids : notices[j].due \in BOOLEAN
  BY TypeFacts DEF RowType
<1> HIDE DEF row
<1>6. UNCHANGED <<files, disp, mails, accepted>>
  BY DEF LeaseEnds
<1>7. ASSUME NEW j \in Ids
      PROVE  /\ notices'[j].sent = notices[j].sent
             /\ notices'[j].due = (notices[j].due \/ j = i)
             /\ notices'[j].resendOf = notices[j].resendOf
             /\ notices'[j].named = notices[j].named
  <2>1. CASE j = i
    BY <1>3, <1>4, <2>1
  <2>2. CASE j # i
    BY <1>3, <1>5, <2>2
  <2> QED BY <2>1, <2>2
<1> QED BY <1>3, <1>6, <1>7

\* The facts of a claim.
LEMMA ClaimEffect ==
  ASSUME OutboxTypeOK, NEW d \in Dispatchers, ClaimNotices(d)
  PROVE  \E batch \in SUBSET Claimable :
           /\ Ids' = Ids
           /\ \A i \in Ids : /\ notices'[i].sent = notices[i].sent
                             /\ notices'[i].due = (notices[i].due /\ i \notin batch)
                             /\ notices'[i].resendOf = notices[i].resendOf
                             /\ notices'[i].named = notices[i].named
           /\ disp[d].pc = "pass" /\ disp[d].batch = {} /\ disp[d].cur = 0
           /\ \A e \in Dispatchers : e # d => disp'[e] = disp[e]
           /\ disp'[d].batch = batch /\ disp'[d].pc \in {"wait", "deliver"} /\ disp'[d].cur = 0
           /\ UNCHANGED <<files, mails, accepted, faults>>
<1>1. PICK batch \in SUBSET Claimable :
        /\ notices' = [i \in Ids |-> [notices[i] EXCEPT !.due = @ /\ i \notin batch]]
        /\ disp' = [disp EXCEPT ![d].batch = batch,
                                ![d].pc = IF batch = {} THEN "wait" ELSE "deliver"]
  BY DEF ClaimNotices
<1>2. disp[d].pc = "pass" /\ disp[d].batch = {} /\ disp[d].cur = 0 /\ batch \subseteq Ids
  BY TypeFacts DEF ClaimNotices, DispOK, Claimable
<1>3. /\ Ids' = Ids
      /\ \A i \in Ids : /\ notices'[i].sent = notices[i].sent
                        /\ notices'[i].due = (notices[i].due /\ i \notin batch)
                        /\ notices'[i].resendOf = notices[i].resendOf
                        /\ notices'[i].named = notices[i].named
  BY <1>1, <1>2, TypeFacts, ClaimLemma
<1>4. disp[d] \in DispType /\ disp \in [Dispatchers -> DispType]
  BY DEF OutboxTypeOK
<1>5. /\ \A e \in Dispatchers : e # d => disp'[e] = disp[e]
      /\ disp'[d].batch = batch /\ disp'[d].pc \in {"wait", "deliver"} /\ disp'[d].cur = 0
  BY <1>1, <1>2, <1>4 DEF DispType
<1> QED BY <1>2, <1>3, <1>5 DEF ClaimNotices

\* The facts of rendering a notice.
LEMMA RenderEffect ==
  ASSUME OutboxTypeOK, NEW d \in Dispatchers, Render(d)
  PROVE  \E i \in disp[d].batch :
           /\ i \in Ids /\ disp[d].cur = 0 /\ disp[d].pc = "deliver"
           /\ \A e \in Dispatchers : e # d => disp'[e] = disp[e]
           /\ disp'[d].batch = disp[d].batch \ {i} /\ disp'[d].cur = i /\ disp'[d].pc = "send"
           /\ disp'[d].files = NoticeAttachments(i)
           /\ UNCHANGED <<notices, files, mails, accepted, faults>>
<1>1. PICK i \in disp[d].batch :
        disp' = [disp EXCEPT ![d].cur = i, ![d].batch = @ \ {i}, ![d].pc = "send",
                             ![d].files = NoticeAttachments(i)]
  BY DEF Render
<1>2. disp[d] \in DispType /\ disp \in [Dispatchers -> DispType] /\ DispOK(d)
  BY DEF OutboxTypeOK
<1>3. i \in Ids /\ disp[d].cur = 0 /\ disp[d].pc = "deliver"
  BY <1>2 DEF DispOK, Render
<1>4. /\ \A e \in Dispatchers : e # d => disp'[e] = disp[e]
      /\ disp'[d].batch = disp[d].batch \ {i} /\ disp'[d].cur = i /\ disp'[d].pc = "send"
      /\ disp'[d].files = NoticeAttachments(i)
  BY <1>1, <1>2 DEF DispType
<1> QED BY <1>1, <1>3, <1>4 DEF Render

\* The facts of an offer to the relay: it is accepted and heard of, accepted and not
\* heard of, at the price of a fault, or not accepted.
LEMMA SendEffect ==
  ASSUME OutboxTypeOK, NEW d \in Dispatchers, SendOK(d) \/ SendUnheard(d) \/ SendFails(d)
  PROVE  /\ disp[d].pc = "send" /\ disp[d].cur \in Ids /\ disp[d].cur \notin disp[d].batch
         /\ \A e \in Dispatchers : e # d => disp'[e] = disp[e]
         /\ disp'[d].batch = disp[d].batch /\ disp'[d].cur = disp[d].cur
         /\ disp'[d].pc = "finish"
         /\ UNCHANGED <<notices, files>>
         /\ \/ /\ disp'[d].ok = TRUE /\ faults' = faults
               /\ accepted' = [accepted EXCEPT ![disp[d].cur] = @ + 1]
               /\ mails' = mails \cup {[id |-> disp[d].cur, files |-> disp[d].files]}
            \/ /\ disp'[d].ok = FALSE /\ faults' = faults + 1
               /\ accepted' = [accepted EXCEPT ![disp[d].cur] = @ + 1]
               /\ mails' = mails \cup {[id |-> disp[d].cur, files |-> disp[d].files]}
            \/ /\ disp'[d].ok = FALSE /\ faults' = faults
               /\ accepted' = accepted /\ mails' = mails
<1>1. disp[d] \in DispType /\ disp \in [Dispatchers -> DispType] /\ DispOK(d)
  BY DEF OutboxTypeOK
<1>2. disp[d].pc = "send"
  BY DEF SendOK, SendUnheard, SendFails, Accept
<1>3. disp[d].cur \in Ids /\ disp[d].cur \notin disp[d].batch
  BY <1>1, <1>2 DEF DispOK
<1>4. ASSUME NEW h \in BOOLEAN, disp' = [disp EXCEPT ![d].pc = "finish", ![d].ok = h]
      PROVE  /\ \A e \in Dispatchers : e # d => disp'[e] = disp[e]
             /\ disp'[d].batch = disp[d].batch /\ disp'[d].cur = disp[d].cur
             /\ disp'[d].pc = "finish" /\ disp'[d].ok = h
  BY <1>1, <1>4 DEF DispType
<1>5. CASE SendOK(d)
  BY <1>2, <1>3, <1>4, <1>5 DEF SendOK, Accept
<1>6. CASE SendUnheard(d)
  BY <1>2, <1>3, <1>4, <1>6 DEF SendUnheard, Accept
<1>7. CASE SendFails(d)
  BY <1>2, <1>3, <1>4, <1>7 DEF SendFails
<1> QED BY <1>5, <1>6, <1>7

\* The facts of moving on: after a finish, lost or not, or after a crash.
LEMMA MoveOnEffect ==
  ASSUME OutboxTypeOK, NEW d \in Dispatchers, FinishNotice(d) \/ FinishLost(d) \/ Crash(d)
  PROVE  /\ \A e \in Dispatchers : e # d => disp'[e] = disp[e]
         /\ disp'[d].pc \in {"wait", "pass", "deliver"} /\ disp'[d].cur = 0
         /\ ~Crash(d) => disp[d].pc = "finish" /\ disp'[d].batch = disp[d].batch
         /\ Crash(d) => disp'[d].batch = {}
<1>1. disp \in [Dispatchers -> DispType]
  BY DEF OutboxTypeOK
<1>2. CASE ~Crash(d)
  <2>1. disp[d].pc = "finish" /\ disp' = [disp EXCEPT ![d] = NextOf(d)]
    BY <1>2 DEF FinishNotice, FinishLost
  <2>2. NextOf(d).batch = disp[d].batch /\ NextOf(d).cur = 0 /\ NextOf(d).pc \in {"pass", "deliver"}
    BY <2>1, NextOfLemma
  <2> QED BY <1>1, <1>2, <2>1, <2>2
<1>3. CASE Crash(d)
  BY <1>1, <1>3, WaitingLemma DEF Crash
<1> QED BY <1>2, <1>3

\* The facts of waking up.
LEMMA WakeEffect ==
  ASSUME OutboxTypeOK, NEW d \in Dispatchers, WakeByKick(d) \/ WakeByTimer(d)
  PROVE  /\ \A e \in Dispatchers : e # d => disp'[e] = disp[e]
         /\ disp[d].pc = "wait" /\ disp'[d].pc = "pass" /\ disp[d].cur = 0 /\ disp'[d].cur = 0
         /\ disp[d].batch = {} /\ disp'[d].batch = {}
         /\ UNCHANGED <<notices, files, mails, accepted, faults>>
<1>1. disp \in [Dispatchers -> DispType] /\ disp[d] \in DispType /\ DispOK(d)
  BY DEF OutboxTypeOK
<1>2. /\ disp[d].pc = "wait" /\ disp' = [disp EXCEPT ![d].pc = "pass"]
      /\ UNCHANGED <<notices, files, mails, accepted, faults>>
  BY DEF WakeByKick, WakeByTimer, Wake
<1>3. disp[d].batch = {} /\ disp[d].cur = 0
  BY <1>1, <1>2 DEF DispOK
<1> QED BY <1>1, <1>2, <1>3 DEF DispType

-----------------------------------------------------------------------------
(* SentWasAccepted *)

\* A dispatcher that will record a delivery saw the relay accept it.
SentInv ==
  /\ SentWasAccepted
  /\ \A d \in Dispatchers : disp[d].pc = "finish" /\ disp[d].ok => accepted[disp[d].cur] > 0

LEMMA SentStep == OutboxTypeOK /\ SentInv /\ [Next]_vars => SentInv'
<1> SUFFICES ASSUME OutboxTypeOK, SentInv, [Next]_vars PROVE SentInv'
  OBVIOUS
<1>0. /\ Ids \subseteq 1..MaxNotices /\ accepted \in [1..MaxNotices -> Nat]
      /\ \A d \in Dispatchers : disp[d].pc = "finish" => disp[d].cur \in Ids
  BY TypeFacts DEF DispOK
<1>1. CASE Notify \/ (\E named \in SUBSET Files : ComposeEmail(named)) \/ (\E i \in Ids : Resend(i))
  <2>1. PICK row \in RowType : ~row.sent /\ Insert(row)
    BY <1>1, RequestRow
  <2> QED BY <2>1, InsertEffect DEF SentInv, SentWasAccepted
<1>2. CASE PurgeDraftAttachments \/ (\E f \in Files : Upload(f)) \/ UNCHANGED vars
  BY <1>2, SameIds DEF PurgeDraftAttachments, Upload, vars, SentInv, SentWasAccepted
<1>3. ASSUME NEW d \in Dispatchers, WakeByKick(d) \/ WakeByTimer(d) PROVE SentInv'
  BY <1>3, WakeEffect, SameIds DEF SentInv, SentWasAccepted
<1>4. ASSUME NEW d \in Dispatchers, ClaimNotices(d) PROVE SentInv'
  BY <1>4, ClaimEffect DEF SentInv, SentWasAccepted
<1>5. ASSUME NEW d \in Dispatchers, Render(d) PROVE SentInv'
  BY <1>5, RenderEffect, SameIds DEF SentInv, SentWasAccepted
<1>6. ASSUME NEW d \in Dispatchers, SendOK(d) \/ SendUnheard(d) \/ SendFails(d) PROVE SentInv'
  <2>1. /\ disp[d].cur \in Ids /\ Ids' = Ids /\ notices' = notices
        /\ \A e \in Dispatchers : e # d => disp'[e] = disp[e]
        /\ disp'[d].cur = disp[d].cur
        /\ \/ accepted' = [accepted EXCEPT ![disp[d].cur] = @ + 1]
           \/ accepted' = accepted /\ disp'[d].ok = FALSE
    BY <1>6, SendEffect, SameIds
  <2>2. \A i \in Ids : accepted[i] \in Nat /\ i \in 1..MaxNotices
    BY <1>0
  <2>3. \A i \in Ids : accepted[i] > 0 => accepted'[i] > 0
    <3>1. CASE accepted' = [accepted EXCEPT ![disp[d].cur] = @ + 1]
      BY <1>0, <2>1, <2>2, <3>1
    <3>2. CASE accepted' = accepted
      BY <3>2
    <3> QED BY <2>1, <3>1, <3>2
  <2>4. disp'[d].ok => accepted'[disp[d].cur] > 0
    <3>1. CASE accepted' = [accepted EXCEPT ![disp[d].cur] = @ + 1]
      <4>1. disp[d].cur \in 1..MaxNotices /\ accepted[disp[d].cur] \in Nat
        BY <2>1, <2>2
      <4>2. accepted'[disp[d].cur] = accepted[disp[d].cur] + 1
        BY <1>0, <3>1, <4>1
      <4> QED BY <4>1, <4>2
    <3>2. CASE disp'[d].ok = FALSE
      BY <3>2
    <3> QED BY <2>1, <3>1, <3>2
  <2> QED BY <1>0, <2>1, <2>3, <2>4 DEF SentInv, SentWasAccepted
<1>7. ASSUME NEW d \in Dispatchers, FinishNotice(d) PROVE SentInv'
  <2>1. disp[d].pc = "finish"
    BY <1>7 DEF FinishNotice
  <2>2. \A i \in Ids' : notices'[i].sent => accepted'[i] > 0
    BY <1>7, <2>1, FinishEffect DEF SentInv, SentWasAccepted
  <2>3. \A e \in Dispatchers : disp'[e].pc = "finish" => e # d /\ disp'[e] = disp[e]
    BY <1>7, MoveOnEffect
  <2>4. accepted' = accepted
    BY <1>7, FinishEffect
  <2> QED BY <2>2, <2>3, <2>4 DEF SentInv, SentWasAccepted
<1>8. ASSUME NEW d \in Dispatchers, FinishLost(d) \/ Crash(d) PROVE SentInv'
  <2>1. UNCHANGED <<notices, accepted>> /\ Ids' = Ids
    BY <1>8, SameIds DEF FinishLost, Crash
  <2>2. \A e \in Dispatchers : disp'[e].pc = "finish" => disp'[e] = disp[e]
    BY <1>8, MoveOnEffect
  <2> QED BY <2>1, <2>2 DEF SentInv, SentWasAccepted
<1>9. ASSUME NEW i \in Ids, LeaseEnds(i) PROVE SentInv'
  BY <1>9, LeaseEffect DEF SentInv, SentWasAccepted
<1> QED BY <1>1, <1>2, <1>3, <1>4, <1>5, <1>6, <1>7, <1>8, <1>9 DEF Next, Deliver

\* What is recorded as sent the relay accepted, for any number of replicas and faults: a
\* finish never outruns the answer it records.
THEOREM SentIsAccepted == Spec => []SentWasAccepted
<1>1. Init => OutboxTypeOK /\ SentInv
  BY TypeInit, WaitingLemma DEF Init, SentInv, SentWasAccepted, Ids
<1>2. OutboxTypeOK /\ SentInv /\ [Next]_vars => (OutboxTypeOK /\ SentInv)'
  BY TypeStep, SentStep
<1>3. SentInv => SentWasAccepted
  BY DEF SentInv
<1> QED BY <1>1, <1>2, <1>3, PTL DEF Spec

-----------------------------------------------------------------------------
(* FilesArrive *)

\* The files claimed for a notice that is no resend are those its author named, and
\* so are those a dispatcher has read and those the relay was given.
FilesInv ==
  /\ \A f \in Files : files[f].status = "claimed" => files[f].notice \in Ids
  /\ \A i \in Ids : notices[i].resendOf = 0 => NoticeAttachments(i) = notices[i].named
  /\ \A d \in Dispatchers :
       disp[d].pc = "send" /\ notices[disp[d].cur].resendOf = 0
         => disp[d].files = notices[disp[d].cur].named
  /\ \A m \in mails : m.id \in Ids
  /\ FilesArrive

LEMMA FilesStep == OutboxTypeOK /\ FilesInv /\ [Next]_vars => FilesInv'
<1> SUFFICES ASSUME OutboxTypeOK, FilesInv, [Next]_vars PROVE FilesInv'
  OBVIOUS
<1>0. /\ \A d \in Dispatchers : disp[d].pc = "send" => disp[d].cur \in Ids
      /\ files \in [Files -> FileType] /\ 0 \notin Ids
  BY TypeFacts DEF DispOK, OutboxTypeOK
\* A new row whose claimed files are the ones it names, or that is a resend.
<1>1. ASSUME NEW row \in RowType, Insert(row),
             \A f \in Files : files'[f] # files[f] =>
               /\ files[f].status = "draft" /\ files'[f] = File("claimed", Len(notices) + 1),
             row.resendOf = 0 =>
               {f \in Files : files'[f] = File("claimed", Len(notices) + 1)} = row.named
      PROVE  FilesInv'
  <2>0. PICK n : n = Len(notices) + 1
    OBVIOUS
  <2>1. /\ Ids' = Ids \cup {n} /\ n \notin Ids
        /\ \A i \in Ids : notices'[i] = notices[i]
        /\ notices'[n] = row /\ UNCHANGED <<disp, mails>>
    BY <1>1, <2>0, InsertEffect
  <2>2. \A f \in Files, i \in Ids : files'[f] = File("claimed", i) <=> files[f] = File("claimed", i)
    BY <1>1, <2>0, <2>1 DEF File
  <2>3. \A i \in Ids : NoticeAttachments(i)' = NoticeAttachments(i)
    BY <2>2 DEF NoticeAttachments
  <2>4. NoticeAttachments(n)' = {f \in Files : files'[f] = File("claimed", n)}
    BY DEF NoticeAttachments
  <2>5. \A f \in Files : files'[f].status = "claimed" => files'[f].notice \in Ids'
    BY <1>1, <2>0, <2>1 DEF FilesInv, File
  <2>6. \A i \in Ids' : notices'[i].resendOf = 0 => NoticeAttachments(i)' = notices'[i].named
    BY <1>1, <2>0, <2>1, <2>3, <2>4 DEF FilesInv
  <2> QED BY <1>0, <2>1, <2>5, <2>6 DEF FilesInv, FilesArrive
<1>2. CASE Notify
  <2>1. Row(0, {}) \in RowType /\ Row(0, {}).named = {} /\ Insert(Row(0, {})) /\ files' = files
    BY <1>2 DEF Row, RowType, Notify
  <2>2. Len(notices) + 1 \notin Ids
    BY TypeFacts
  <2>3. {f \in Files : files'[f] = File("claimed", Len(notices) + 1)} = {}
    BY <2>1, <2>2 DEF FilesInv, File
  <2> QED BY <1>1, <2>1, <2>3
<1>3. ASSUME NEW named \in SUBSET Files, ComposeEmail(named) PROVE FilesInv'
  <2>1. Row(0, named) \in RowType /\ Row(0, named).named = named /\ Insert(Row(0, named))
    BY <1>3 DEF Row, RowType, ComposeEmail
  <2>2. /\ \A f \in named : files[f].status = "draft"
        /\ \A f \in Files : files'[f] = IF f \in named THEN File("claimed", Len(notices) + 1)
                                        ELSE files[f]
    BY <1>3 DEF ComposeEmail, ClaimAttachments
  <2>3. Len(notices) + 1 \notin Ids
    BY TypeFacts
  <2>4. {f \in Files : files'[f] = File("claimed", Len(notices) + 1)} = named
    BY <2>2, <2>3 DEF FilesInv, File
  <2> QED BY <1>1, <2>1, <2>2, <2>4
<1>4. ASSUME NEW i \in Ids, Resend(i) PROVE FilesInv'
  <2> DEFINE root == IF notices[i].resendOf # 0 THEN notices[i].resendOf ELSE i
             row == Row(root, notices[i].named)
  <2>1. notices[i] \in RowType /\ i \in Nat /\ i # 0
    BY TypeFacts
  <2>2. row \in RowType /\ row.resendOf # 0
    BY <2>1 DEF Row, RowType
  <2>3. Insert(row) /\ files' = files
    BY <1>4 DEF Resend
  <2> QED BY <1>1, <2>2, <2>3
<1>5. ASSUME UNCHANGED <<notices, disp, mails>>,
             \A f \in Files : files'[f] # files[f] =>
               files[f].status # "claimed" /\ files'[f].status # "claimed"
      PROVE  FilesInv'
  <2>1. Ids' = Ids
    BY <1>5, SameIds
  <2>2. \A f \in Files, i \in Ids : files'[f] = File("claimed", i) <=> files[f] = File("claimed", i)
    BY <1>5 DEF File
  <2>3. \A i \in Ids : NoticeAttachments(i)' = NoticeAttachments(i)
    BY <2>2 DEF NoticeAttachments
  <2> QED BY <1>5, <2>1, <2>3 DEF FilesInv, FilesArrive
<1>6. ASSUME NEW f \in Files, Upload(f) PROVE FilesInv'
  <2>1. /\ files[f].status = "none" /\ files'[f] = File("draft", 0)
        /\ \A g \in Files : g # f => files'[g] = files[g]
    BY <1>0, <1>6 DEF Upload
  <2>2. UNCHANGED <<notices, disp, mails>>
    BY <1>6 DEF Upload
  <2> QED BY <1>5, <2>1, <2>2 DEF File
<1>7. CASE PurgeDraftAttachments
  <2>1. \A f \in Files : files'[f] = IF files[f].status = "draft" THEN File("purged", 0) ELSE files[f]
    BY <1>7 DEF PurgeDraftAttachments
  <2>2. UNCHANGED <<notices, disp, mails>>
    BY <1>7 DEF PurgeDraftAttachments
  <2> QED BY <1>5, <2>1, <2>2 DEF File
<1>8. CASE UNCHANGED vars
  BY <1>5, <1>8 DEF vars
\* The dispatchers do not touch a file or what a row names.
<1>9. ASSUME Ids' = Ids, files' = files,
             \A i \in Ids : /\ notices'[i].resendOf = notices[i].resendOf
                            /\ notices'[i].named = notices[i].named
      PROVE  /\ \A f \in Files : files'[f].status = "claimed" => files'[f].notice \in Ids'
             /\ \A i \in Ids' : notices'[i].resendOf = 0 => NoticeAttachments(i)' = notices'[i].named
  <2>1. \A i \in Ids : NoticeAttachments(i)' = NoticeAttachments(i)
    BY <1>9 DEF NoticeAttachments
  <2> QED BY <1>9, <2>1 DEF FilesInv
<1>10. ASSUME Ids' = Ids, files' = files, mails' = mails,
              \A i \in Ids : /\ notices'[i].resendOf = notices[i].resendOf
                             /\ notices'[i].named = notices[i].named,
              \A e \in Dispatchers : disp'[e].pc = "send" => disp'[e] = disp[e]
       PROVE  FilesInv'
  BY <1>0, <1>9, <1>10 DEF FilesInv, FilesArrive
<1>11. ASSUME NEW d \in Dispatchers, WakeByKick(d) \/ WakeByTimer(d) PROVE FilesInv'
  BY <1>10, <1>11, WakeEffect, SameIds
<1>12. ASSUME NEW d \in Dispatchers, ClaimNotices(d) PROVE FilesInv'
  BY <1>10, <1>12, ClaimEffect
<1>13. ASSUME NEW d \in Dispatchers, FinishNotice(d) \/ FinishLost(d) \/ Crash(d) PROVE FilesInv'
  <2>1. \A e \in Dispatchers : disp'[e].pc = "send" => disp'[e] = disp[e]
    BY <1>13, MoveOnEffect
  <2>2. CASE FinishNotice(d)
    BY <1>10, <2>1, <2>2, FinishEffect
  <2>3. CASE FinishLost(d) \/ Crash(d)
    <3>1. UNCHANGED <<notices, files, mails>>
      BY <2>3 DEF FinishLost, Crash
    <3> QED BY <1>10, <2>1, <3>1, SameIds
  <2> QED BY <1>13, <2>2, <2>3
<1>14. ASSUME NEW i \in Ids, LeaseEnds(i) PROVE FilesInv'
  BY <1>10, <1>14, LeaseEffect
<1>15. ASSUME NEW d \in Dispatchers, Render(d) PROVE FilesInv'
  <2>1. PICK i \in disp[d].batch :
           /\ i \in Ids
           /\ \A e \in Dispatchers : e # d => disp'[e] = disp[e]
           /\ disp'[d].cur = i /\ disp'[d].files = NoticeAttachments(i)
           /\ UNCHANGED <<notices, files, mails, accepted, faults>>
    BY <1>15, RenderEffect
  <2>2. Ids' = Ids
    BY <2>1, SameIds
  <2>3. notices[i].resendOf = 0 => NoticeAttachments(i) = notices[i].named
    BY <2>1 DEF FilesInv
  <2>4. \A e \in Dispatchers : disp'[e].pc = "send" /\ notices'[disp'[e].cur].resendOf = 0
           => disp'[e].files = notices'[disp'[e].cur].named
    BY <2>1, <2>3 DEF FilesInv
  <2> QED BY <1>9, <2>1, <2>2, <2>4 DEF FilesInv, FilesArrive
<1>16. ASSUME NEW d \in Dispatchers, SendOK(d) \/ SendUnheard(d) \/ SendFails(d) PROVE FilesInv'
  <2>1. /\ disp[d].pc = "send" /\ disp[d].cur \in Ids
        /\ \A e \in Dispatchers : e # d => disp'[e] = disp[e]
        /\ disp'[d].pc = "finish"
        /\ UNCHANGED <<notices, files>>
        /\ \/ mails' = mails
           \/ mails' = mails \cup {[id |-> disp[d].cur, files |-> disp[d].files]}
    BY <1>16, SendEffect
  <2>2. Ids' = Ids
    BY <2>1, SameIds
  <2>3. \A m \in mails' : m.id \in Ids /\ (notices[m.id].resendOf = 0 => m.files = notices[m.id].named)
    BY <2>1 DEF FilesInv, FilesArrive
  <2>4. \A e \in Dispatchers : disp'[e].pc = "send" => disp'[e] = disp[e]
    BY <2>1
  <2> QED BY <1>9, <2>1, <2>2, <2>3, <2>4 DEF FilesInv, FilesArrive
<1> QED BY <1>2, <1>3, <1>4, <1>6, <1>7, <1>8, <1>11, <1>12, <1>13, <1>14, <1>15, <1>16
        DEF Next, Deliver

\* Every email the relay was given carries exactly the files its author named, however
\* sweeps, uploads and later emails interleave with its attempts.
THEOREM FilesAlwaysArrive == Spec => []FilesArrive
<1>1. Init => OutboxTypeOK /\ FilesInv
  BY TypeInit, WaitingLemma DEF Init, FilesInv, FilesArrive, Ids, File
<1>2. OutboxTypeOK /\ FilesInv /\ [Next]_vars => (OutboxTypeOK /\ FilesInv)'
  BY TypeStep, FilesStep
<1>3. FilesInv => FilesArrive
  BY DEF FilesInv
<1> QED BY <1>1, <1>2, <1>3, PTL DEF Spec

-----------------------------------------------------------------------------
(* DeliveredOnce *)

\* The dispatchers that have claimed notice i and not yet offered it to the relay.
Holders(i) ==
  {d \in Dispatchers : i \in disp[d].batch \/ (disp[d].pc = "send" /\ disp[d].cur = i)}

\* One further acceptance is to come from every holder, and one from the next claim.
ToCome(i) == Cardinality(Holders(i)) + (IF notices[i].due /\ ~notices[i].sent THEN 1 ELSE 0)

Reporting(i) == \E d \in Dispatchers : disp[d].pc = "finish" /\ disp[d].cur = i /\ disp[d].ok

\* A notice no dispatcher works on, that is not marked sent and not due, has been accepted
\* only as often as something went wrong: its lease may end without a fault.
DeliveryAt(i) ==
  /\ accepted[i] + ToCome(i) =< 1 + faults
  /\ ~notices[i].sent /\ ~notices[i].due /\ Holders(i) = {} /\ ~Reporting(i)
       => accepted[i] =< faults

DeliveryInv ==
  /\ \A i \in 1..MaxNotices : i \notin Ids => accepted[i] = 0
  /\ \A i \in Ids : DeliveryAt(i)

LEMMA HoldersFinite ==
  ASSUME NEW i
  PROVE  IsFiniteSet(Holders(i)) /\ Cardinality(Holders(i)) \in Nat
<1>1. Holders(i) \subseteq Dispatchers
  BY DEF Holders
<1> QED BY <1>1, OutboxAssumption, FS_Subset, FS_CardinalityType

LEMMA HoldersFiniteNext ==
  ASSUME NEW i
  PROVE  IsFiniteSet(Holders(i)') /\ Cardinality(Holders(i)') \in Nat
<1>1. Holders(i)' \subseteq Dispatchers
  BY DEF Holders
<1> QED BY <1>1, OutboxAssumption, FS_Subset, FS_CardinalityType

\* A set with a member has at least one element, without it one less, and with another
\* one more.
LEMMA CountLemma ==
  ASSUME NEW S, IsFiniteSet(S), NEW x
  PROVE  /\ x \in S => Cardinality(S) >= 1 /\ Cardinality(S \ {x}) = Cardinality(S) - 1
         /\ x \notin S => Cardinality(S \cup {x}) = Cardinality(S) + 1
<1>1. Cardinality(S) \in Nat
  BY FS_CardinalityType
<1>2. CASE x \in S
  <2>1. /\ IsFiniteSet(S \ {x}) /\ Cardinality(S \ {x}) = Cardinality(S) - 1
    BY <1>2, FS_RemoveElement
  <2>2. Cardinality(S \ {x}) \in Nat
    BY <2>1, FS_CardinalityType
  <2> QED BY <1>1, <1>2, <2>1, <2>2
<1>3. CASE x \notin S
  BY <1>3, FS_AddElement
<1> QED BY <1>2, <1>3

\* A step that leaves a notice's row, its holders and its reporters alone and takes no
\* fault back keeps what is said of it.
LEMMA DeliveryKept ==
  ASSUME OutboxTypeOK, NEW i \in Ids, DeliveryAt(i), faults' \in Nat, faults' >= faults,
         accepted'[i] = accepted[i], notices'[i].sent = notices[i].sent,
         notices'[i].due = notices[i].due, Holders(i)' = Holders(i),
         Reporting(i) => Reporting(i)'
  PROVE  DeliveryAt(i)'
<1>1. accepted[i] \in Nat /\ faults \in Nat
  BY TypeFacts
<1>2. ToCome(i)' = ToCome(i) /\ ToCome(i) \in Nat
  BY HoldersFinite DEF ToCome
<1> QED BY <1>1, <1>2 DEF DeliveryAt

\* Who holds and who reports a notice after one dispatcher has moved.
LEMMA OthersKeep ==
  ASSUME NEW d \in Dispatchers, NEW i, \A e \in Dispatchers : e # d => disp'[e] = disp[e]
  PROVE  /\ \A e \in Dispatchers : e # d => (e \in Holders(i)' <=> e \in Holders(i))
         /\ d \in Holders(i)' <=> i \in disp'[d].batch \/ (disp'[d].pc = "send" /\ disp'[d].cur = i)
         /\ d \in Holders(i) <=> i \in disp[d].batch \/ (disp[d].pc = "send" /\ disp[d].cur = i)
         /\ Holders(i) \subseteq Dispatchers /\ Holders(i)' \subseteq Dispatchers
         /\ Reporting(i) /\ ~(disp[d].pc = "finish" /\ disp[d].cur = i /\ disp[d].ok) => Reporting(i)'
BY DEF Holders, Reporting

LEMMA HoldersKept ==
  ASSUME NEW d \in Dispatchers, NEW i, \A e \in Dispatchers : e # d => disp'[e] = disp[e],
         d \in Holders(i)' <=> d \in Holders(i)
  PROVE  Holders(i)' = Holders(i)
<1>1. \A e \in Dispatchers : e \in Holders(i)' <=> e \in Holders(i)
  <2> SUFFICES ASSUME NEW e \in Dispatchers PROVE e \in Holders(i)' <=> e \in Holders(i)
    OBVIOUS
  <2>1. CASE e = d
    BY <2>1
  <2>2. CASE e # d
    BY <2>2 DEF Holders
  <2> QED BY <2>1, <2>2
<1>2. Holders(i) \subseteq Dispatchers /\ Holders(i)' \subseteq Dispatchers
  BY DEF Holders
<1> QED BY <1>1, <1>2

LEMMA DeliveryStep == OutboxTypeOK /\ DeliveryInv /\ [Next]_vars => DeliveryInv'
<1> SUFFICES ASSUME OutboxTypeOK, DeliveryInv, [Next]_vars PROVE DeliveryInv'
  OBVIOUS
<1>0. /\ Ids \subseteq 1..MaxNotices /\ accepted \in [1..MaxNotices -> Nat] /\ faults \in Nat
      /\ \A i \in Ids : accepted[i] \in Nat
      /\ \A i \in 1..MaxNotices : i \notin Ids => accepted[i] = 0
      /\ \A i \in Ids : DeliveryAt(i)
      /\ \A d \in Dispatchers : DispOK(d)
  BY TypeFacts DEF DeliveryInv
<1>1. CASE Notify \/ (\E named \in SUBSET Files : ComposeEmail(named)) \/ (\E i \in Ids : Resend(i))
  <2>1. PICK row \in RowType : ~row.sent /\ row.due /\ Insert(row)
    BY <1>1, RequestRow
  <2>2. PICK n : n = Len(notices) + 1
    OBVIOUS
  <2>3. /\ Ids' = Ids \cup {n} /\ n \notin Ids /\ n \in 1..MaxNotices
        /\ \A i \in Ids : notices'[i] = notices[i]
        /\ notices'[n] = row /\ UNCHANGED <<disp, accepted, faults>>
    BY <2>1, <2>2, InsertEffect
  <2>4. \A i \in Ids : DeliveryAt(i)'
    <3> SUFFICES ASSUME NEW i \in Ids PROVE DeliveryAt(i)'
      OBVIOUS
    <3>1. Holders(i)' = Holders(i) /\ Reporting(i)' = Reporting(i)
      BY <2>3 DEF Holders, Reporting
    <3> QED BY <1>0, <2>3, <3>1, DeliveryKept
  <2>5. DeliveryAt(n)'
    <3>1. Holders(n) = {}
      BY <1>0, <2>3 DEF Holders, DispOK
    <3>2. Holders(n)' = {}
      BY <2>3, <3>1 DEF Holders
    <3>3. ToCome(n)' = 1
      BY <2>1, <2>3, <3>2, FS_EmptySet DEF ToCome
    <3> QED BY <1>0, <2>1, <2>3, <3>3 DEF DeliveryAt
  <2> QED BY <1>0, <2>3, <2>4, <2>5 DEF DeliveryInv
\* The ids that do not exist yet do not change in any other step.
<1>2. ASSUME Ids' = Ids, \A i \in 1..MaxNotices : i \notin Ids => accepted'[i] = accepted[i],
             \A i \in Ids : DeliveryAt(i)'
      PROVE  DeliveryInv'
  BY <1>0, <1>2 DEF DeliveryInv
<1>3. CASE PurgeDraftAttachments \/ (\E f \in Files : Upload(f)) \/ UNCHANGED vars
  <2>1. UNCHANGED <<notices, disp, accepted, faults>>
    BY <1>3 DEF PurgeDraftAttachments, Upload, vars
  <2>2. ASSUME NEW i \in Ids PROVE DeliveryAt(i)'
    <3>1. Holders(i)' = Holders(i) /\ Reporting(i)' = Reporting(i)
      BY <2>1 DEF Holders, Reporting
    <3> QED BY <1>0, <2>1, <3>1, DeliveryKept
  <2> QED BY <1>2, <2>1, <2>2, SameIds
<1>4. ASSUME NEW d \in Dispatchers, WakeByKick(d) \/ WakeByTimer(d) PROVE DeliveryInv'
  <2>1. /\ \A e \in Dispatchers : e # d => disp'[e] = disp[e]
        /\ disp[d].pc = "wait" /\ disp'[d].pc = "pass" /\ disp[d].batch = {} /\ disp'[d].batch = {}
        /\ UNCHANGED <<notices, accepted, faults>>
    BY <1>4, WakeEffect
  <2>2. ASSUME NEW i \in Ids PROVE DeliveryAt(i)'
    <3>1. d \notin Holders(i) /\ d \notin Holders(i)' /\ (Reporting(i) => Reporting(i)')
      BY <2>1, OthersKeep
    <3>2. Holders(i)' = Holders(i)
      BY <2>1, <3>1, HoldersKept
    <3> QED BY <1>0, <2>1, <3>1, <3>2, DeliveryKept
  <2> QED BY <1>2, <2>1, <2>2, SameIds
<1>5. ASSUME NEW d \in Dispatchers, ClaimNotices(d) PROVE DeliveryInv'
  <2>1. PICK batch \in SUBSET Claimable :
           /\ Ids' = Ids
           /\ \A i \in Ids : /\ notices'[i].sent = notices[i].sent
                             /\ notices'[i].due = (notices[i].due /\ i \notin batch)
           /\ disp[d].pc = "pass" /\ disp[d].batch = {}
           /\ \A e \in Dispatchers : e # d => disp'[e] = disp[e]
           /\ disp'[d].batch = batch /\ disp'[d].pc \in {"wait", "deliver"}
           /\ UNCHANGED <<accepted, faults>>
    BY <1>5, ClaimEffect
  <2>2. ASSUME NEW i \in Ids PROVE DeliveryAt(i)'
    <3>1. d \notin Holders(i) /\ (Reporting(i) => Reporting(i)')
      BY <2>1, OthersKeep
    <3>2. CASE i \in batch
      <4>1. Holders(i)' = Holders(i) \cup {d}
        BY <2>1, <3>2, OthersKeep
      <4>2. Cardinality(Holders(i)') = Cardinality(Holders(i)) + 1 /\ Holders(i)' # {}
        BY <3>1, <4>1, CountLemma, HoldersFinite
      <4>3. notices[i].due /\ ~notices[i].sent /\ ~notices'[i].due
        BY <2>1, <3>2 DEF Claimable
      <4>4. ToCome(i)' = ToCome(i)
        BY <4>2, <4>3, HoldersFinite DEF ToCome
      <4> QED BY <1>0, <2>1, <4>2, <4>4 DEF DeliveryAt
    <3>3. CASE i \notin batch
      <4>1. Holders(i)' = Holders(i)
        <5>1. d \notin Holders(i)'
          BY <2>1, <3>3, OthersKeep
        <5> QED BY <2>1, <3>1, <5>1, HoldersKept
      <4>2. notices'[i].due = notices[i].due /\ notices'[i].sent = notices[i].sent
        <5>1. notices[i].due \in BOOLEAN
          BY TypeFacts DEF RowType
        <5> QED BY <2>1, <3>3, <5>1
      <4> QED BY <1>0, <2>1, <3>1, <4>1, <4>2, DeliveryKept
    <3> QED BY <3>2, <3>3
  <2> QED BY <1>2, <2>1, <2>2
<1>6. ASSUME NEW d \in Dispatchers, Render(d) PROVE DeliveryInv'
  <2>1. PICK i \in disp[d].batch :
           /\ disp[d].pc = "deliver"
           /\ \A e \in Dispatchers : e # d => disp'[e] = disp[e]
           /\ disp'[d].batch = disp[d].batch \ {i} /\ disp'[d].cur = i /\ disp'[d].pc = "send"
           /\ UNCHANGED <<notices, accepted, faults>>
    BY <1>6, RenderEffect
  <2>2. ASSUME NEW j \in Ids PROVE DeliveryAt(j)'
    <3>1. Holders(j)' = Holders(j) /\ (Reporting(j) => Reporting(j)')
      BY <2>1, OthersKeep
    <3> QED BY <1>0, <2>1, <3>1, DeliveryKept
  <2> QED BY <1>2, <2>1, <2>2, SameIds
<1>7. ASSUME NEW d \in Dispatchers, SendOK(d) \/ SendUnheard(d) \/ SendFails(d) PROVE DeliveryInv'
  <2>1. PICK c : c = disp[d].cur
    OBVIOUS
  <2>2. /\ disp[d].pc = "send" /\ c \in Ids /\ c \notin disp[d].batch
        /\ \A e \in Dispatchers : e # d => disp'[e] = disp[e]
        /\ disp'[d].batch = disp[d].batch /\ disp'[d].cur = c
        /\ disp'[d].pc = "finish"
        /\ notices' = notices
        /\ \/ /\ disp'[d].ok = TRUE /\ faults' = faults
              /\ accepted' = [accepted EXCEPT ![c] = @ + 1]
           \/ /\ disp'[d].ok = FALSE /\ faults' = faults + 1
              /\ accepted' = [accepted EXCEPT ![c] = @ + 1]
           \/ /\ disp'[d].ok = FALSE /\ faults' = faults
              /\ accepted' = accepted
    BY <1>7, <2>1, SendEffect
  <2>3. \A i \in 1..MaxNotices : i # c => accepted'[i] = accepted[i]
    BY <1>0, <2>2
  <2>4. faults' \in Nat /\ faults' >= faults
    BY <1>0, <2>2
  <2>5. ASSUME NEW j \in Ids, j # c PROVE DeliveryAt(j)'
    <3>1. Holders(j)' = Holders(j) /\ (Reporting(j) => Reporting(j)')
      BY <2>1, <2>2, <2>5, OthersKeep
    <3>2. accepted'[j] = accepted[j]
      BY <1>0, <2>3, <2>5
    <3> QED BY <1>0, <2>2, <2>4, <3>1, <3>2, DeliveryKept
  <2>6. DeliveryAt(c)'
    <3>1. d \in Holders(c) /\ Holders(c)' = Holders(c) \ {d}
      BY <2>1, <2>2, OthersKeep
    <3>2. Cardinality(Holders(c)) >= 1 /\ Cardinality(Holders(c)') = Cardinality(Holders(c)) - 1
      BY <3>1, CountLemma, HoldersFinite
    <3>3. ToCome(c)' = ToCome(c) - 1 /\ ToCome(c) >= 1 /\ ToCome(c) \in Nat
      BY <2>2, <3>2, HoldersFinite DEF ToCome
    <3>4. accepted[c] \in Nat /\ accepted[c] + ToCome(c) =< 1 + faults
      BY <1>0, <2>2 DEF DeliveryAt
    <3>5. CASE disp'[d].ok = TRUE /\ faults' = faults /\ accepted' = [accepted EXCEPT ![c] = @ + 1]
      <4>1. accepted'[c] = accepted[c] + 1
        BY <1>0, <2>2, <3>5
      <4>2. Reporting(c)'
        BY <2>2, <3>5 DEF Reporting
      <4>3. accepted'[c] + ToCome(c)' =< 1 + faults'
        BY <1>0, <3>3, <3>4, <3>5, <4>1
      <4> QED BY <4>2, <4>3 DEF DeliveryAt
    <3>6. CASE faults' = faults + 1 /\ accepted' = [accepted EXCEPT ![c] = @ + 1]
      <4>1. accepted'[c] = accepted[c] + 1
        BY <1>0, <2>2, <3>6
      <4>2. accepted'[c] + ToCome(c)' =< 1 + faults' /\ accepted'[c] =< faults'
        BY <1>0, <3>3, <3>4, <3>6, <4>1
      <4> QED BY <4>2 DEF DeliveryAt
    <3>7. CASE faults' = faults /\ accepted' = accepted
      <4>1. accepted'[c] + ToCome(c)' =< 1 + faults' /\ accepted'[c] =< faults'
        BY <1>0, <3>3, <3>4, <3>7
      <4> QED BY <4>1 DEF DeliveryAt
    <3> QED BY <2>2, <3>5, <3>6, <3>7
  <2> QED BY <1>0, <1>2, <2>2, <2>3, <2>5, <2>6, SameIds
<1>8. ASSUME NEW d \in Dispatchers, FinishNotice(d) PROVE DeliveryInv'
  <2>1. PICK c : c = disp[d].cur
    OBVIOUS
  <2>2. /\ Ids' = Ids /\ UNCHANGED <<accepted, faults>>
        /\ \A i \in Ids : /\ notices'[i].sent = (notices[i].sent \/ (i = c /\ disp[d].ok))
                          /\ notices'[i].due = notices[i].due
    BY <1>8, <2>1, FinishEffect
  <2>4. disp[d].pc = "finish" /\ disp'[d].batch = disp[d].batch /\ disp'[d].pc # "send"
        /\ \A e \in Dispatchers : e # d => disp'[e] = disp[e]
    <3>1. disp[d].pc = "finish" /\ disp' = [disp EXCEPT ![d] = NextOf(d)]
      BY <1>8 DEF FinishNotice
    <3>2. disp \in [Dispatchers -> DispType]
      BY DEF OutboxTypeOK
    <3> QED BY <3>1, <3>2, NextOfLemma
  <2>5. ASSUME NEW i \in Ids PROVE DeliveryAt(i)'
    <3>1. Holders(i)' = Holders(i)
      <4>1. d \in Holders(i)' <=> d \in Holders(i)
        BY <2>4, OthersKeep
      <4> QED BY <2>4, <4>1, HoldersKept
    <3>2. notices[i].sent \in BOOLEAN /\ notices[i].due \in BOOLEAN
      BY TypeFacts DEF RowType
    <3>3. CASE i = c /\ disp[d].ok
      <4>1. notices'[i].sent = TRUE
        BY <2>2, <3>3
      <4>2. ToCome(i)' =< ToCome(i) /\ ToCome(i)' \in Nat /\ ToCome(i) \in Nat
        BY <3>1, <4>1, HoldersFinite DEF ToCome
      <4>3. accepted[i] \in Nat /\ accepted[i] + ToCome(i) =< 1 + faults
        BY <1>0 DEF DeliveryAt
      <4>4. accepted'[i] + ToCome(i)' =< 1 + faults'
        BY <1>0, <2>2, <4>2, <4>3
      <4> QED BY <4>1, <4>4 DEF DeliveryAt
    <3>4. CASE ~(i = c /\ disp[d].ok)
      <4>1. notices'[i].sent = notices[i].sent /\ notices'[i].due = notices[i].due
        BY <2>2, <3>2, <3>4
      <4>2. Reporting(i) => Reporting(i)'
        BY <2>1, <2>4, <3>4, OthersKeep
      <4> QED BY <1>0, <2>2, <3>1, <4>1, <4>2, DeliveryKept
    <3> QED BY <3>3, <3>4
  <2> QED BY <1>2, <2>2, <2>5
\* A lost finish or a crash may end what was reported or held, and is a fault.
<1>9. ASSUME NEW d \in Dispatchers, FinishLost(d) \/ Crash(d) PROVE DeliveryInv'
  <2>1. UNCHANGED <<notices, accepted>> /\ faults' = faults + 1 /\ Ids' = Ids
    BY <1>9, SameIds DEF FinishLost, Crash
  <2>2. /\ \A e \in Dispatchers : e # d => disp'[e] = disp[e]
        /\ disp'[d].pc # "send" /\ disp'[d].batch \subseteq disp[d].batch
    BY <1>9, MoveOnEffect
  <2>3. ASSUME NEW i \in Ids PROVE DeliveryAt(i)'
    <3>1. Holders(i)' \subseteq Holders(i)
      BY <2>2, OthersKeep
    <3>2. Cardinality(Holders(i)') =< Cardinality(Holders(i))
      BY <3>1, HoldersFinite, FS_Subset
    <3>3. ToCome(i)' =< ToCome(i) /\ ToCome(i)' \in Nat /\ ToCome(i) \in Nat
      BY <2>1, <3>2, HoldersFinite, HoldersFiniteNext DEF ToCome
    <3>4. accepted[i] \in Nat /\ accepted[i] + ToCome(i) =< 1 + faults
      BY <1>0 DEF DeliveryAt
    <3>5. accepted'[i] + ToCome(i)' =< 1 + faults' /\ accepted'[i] =< faults'
      BY <1>0, <2>1, <3>3, <3>4
    <3> QED BY <3>5 DEF DeliveryAt
  <2> QED BY <1>2, <2>1, <2>3
<1>10. ASSUME NEW i \in Ids, LeaseEnds(i) PROVE DeliveryInv'
  <2>1. /\ Ids' = Ids /\ UNCHANGED <<disp, accepted>>
        /\ \A j \in Ids : /\ notices'[j].sent = notices[j].sent
                          /\ notices'[j].due = (notices[j].due \/ j = i)
    BY <1>10, LeaseEffect
  <2>2. faults' \in Nat /\ faults' >= faults
    BY <1>0, <1>10 DEF LeaseEnds
  <2>3. \A j \in Ids : Holders(j)' = Holders(j) /\ (Reporting(j) => Reporting(j)')
    BY <2>1 DEF Holders, Reporting
  <2>4. ASSUME NEW j \in Ids, j # i PROVE DeliveryAt(j)'
    <3>1. notices[j].due \in BOOLEAN
      BY TypeFacts DEF RowType
    <3>2. notices'[j].due = notices[j].due
      BY <2>1, <2>4, <3>1
    <3> QED BY <1>0, <2>1, <2>2, <2>3, <3>2, DeliveryKept
  <2>5. DeliveryAt(i)'
    <3>1. /\ ~notices[i].sent /\ ~notices[i].due /\ ~notices'[i].sent /\ notices'[i].due
      BY <1>10, <2>1 DEF LeaseEnds
    <3>2. ToCome(i)' = ToCome(i) + 1 /\ ToCome(i) = Cardinality(Holders(i)) /\ ToCome(i) \in Nat
      BY <2>3, <3>1, HoldersFinite DEF ToCome
    <3>3. accepted[i] \in Nat /\ accepted[i] + ToCome(i) =< 1 + faults
      BY <1>0 DEF DeliveryAt
    <3>4. CASE InFlight(i)
      <4>1. faults' = faults + 1
        BY <1>10, <3>4 DEF LeaseEnds
      <4>2. accepted'[i] + ToCome(i)' =< 1 + faults'
        BY <1>0, <2>1, <3>2, <3>3, <4>1
      <4> QED BY <3>1, <4>2 DEF DeliveryAt
    <3>5. CASE ~InFlight(i)
      <4>1. Holders(i) = {} /\ ~Reporting(i)
        BY <3>5 DEF InFlight, Holders, Reporting
      <4>2. ToCome(i) = 0
        BY <3>2, <4>1, FS_EmptySet
      <4>3. accepted[i] =< faults
        BY <1>0, <3>1, <4>1 DEF DeliveryAt
      <4>4. accepted'[i] + ToCome(i)' =< 1 + faults'
        BY <1>0, <2>1, <2>2, <3>2, <3>3, <4>2, <4>3
      <4> QED BY <3>1, <4>4 DEF DeliveryAt
    <3> QED BY <3>4, <3>5
  <2> QED BY <1>2, <2>1, <2>4, <2>5
<1> QED BY <1>1, <1>3, <1>4, <1>5, <1>6, <1>7, <1>8, <1>9, <1>10 DEF Next, Deliver

\* Every copy of an email beyond the first has a fault of its own behind it: the lease
\* and the order of claim, send and finish count acceptances against faults exactly, for
\* any number of replicas and any batch size.
THEOREM DeliveredOnceAlways == Spec => []DeliveredOnce
<1>1. Init => OutboxTypeOK /\ DeliveryInv
  BY TypeInit DEF Init, DeliveryInv, Ids
<1>2. OutboxTypeOK /\ DeliveryInv /\ [Next]_vars => (OutboxTypeOK /\ DeliveryInv)'
  BY TypeStep, DeliveryStep
<1>3. OutboxTypeOK /\ DeliveryInv => DeliveredOnce
  <2> SUFFICES ASSUME OutboxTypeOK, DeliveryInv, NEW i \in Ids PROVE accepted[i] =< 1 + faults
    BY DEF DeliveredOnce
  <2>1. accepted[i] \in Nat /\ faults \in Nat
    BY TypeFacts
  <2>2. ToCome(i) \in Nat
    BY HoldersFinite DEF ToCome
  <2>3. accepted[i] + ToCome(i) =< 1 + faults
    BY DEF DeliveryInv, DeliveryAt
  <2> QED BY <2>1, <2>2, <2>3
<1> QED BY <1>1, <1>2, <1>3, PTL DEF Spec
=============================================================================
