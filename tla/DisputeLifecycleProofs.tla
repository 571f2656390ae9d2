----------------------- MODULE DisputeLifecycleProofs -----------------------
(***************************************************************************)
(* Theorems about DisputeLifecycle, for every rules table, every set of    *)
(* amounts and liabilities and any number of appeals and reassignments.    *)
(***************************************************************************)
EXTENDS DisputeLifecycle, TLAPS

-----------------------------------------------------------------------------
(* Lemmas about the domain's operators *)

\* Where an event may lead: to a state of the lifecycle, with at most the regime's
\* appeals; an advance is made only from the states before any, and only a dispute
\* that has one goes on to the later states that carry it.
Before == {"INITIATED", "INVESTIGATING", "QUESTIONNAIRE_SENT", "QUESTIONNAIRE_RECEIVED"}

LEMMA ApplyStates ==
  ASSUME NEW r \in RuleRows, NEW from \in AllStates, NEW used \in 0..r.MaxAppeals,
         NEW e \in AllEvents, NEW n \in Apply(r, from, used, e)
  PROVE  /\ n = [state |-> n.state, appeals |-> n.appeals]
         /\ n.state \in AllStates /\ n.appeals \in 0..r.MaxAppeals
         /\ \/ n.appeals = used /\ from # "CLOSED"
            \/ n.appeals = used + 1 /\ from = "CLOSED" /\ n.state = "INVESTIGATING"
         /\ n.state \in RefundStates => from \in Before
         /\ n.state \in Before => from \in Before \cup {"CLOSED"}
         /\ n.state = "FINAL_CREDIT_ISSUED" => from = "CHARGEBACK_WON"
         /\ from = "CHARGEBACK_LOST" /\ HasProvisionalCredit(r) =>
              n.state = "PROVISIONAL_CREDIT_REVERSED"
<1>1. CASE e = "APPEAL"
  BY <1>1 DEF Apply, RuleRows, AllStates, RefundStates, Before
<1>2. CASE e # "APPEAL"
  <2>1. PICK to \in next(r, from, e) : n = [state |-> to, appeals |-> used]
    BY <1>2 DEF Apply
  <2>2. to \in AllStates /\ from # "CLOSED"
    BY <2>1 DEF next, RefundStates, Undecided, Contested, closing
  <2>3. /\ to \in RefundStates => from \in Before
        /\ to \in Before => from \in Before
        /\ to = "FINAL_CREDIT_ISSUED" => from = "CHARGEBACK_WON"
        /\ from = "CHARGEBACK_LOST" /\ HasProvisionalCredit(r) =>
             to = "PROVISIONAL_CREDIT_REVERSED"
    BY <2>1 DEF next, RefundStates, Undecided, Contested, Before, refundState, HasProvisionalCredit, closing
  <2> QED BY <2>1, <2>2, <2>3
<1> QED BY <1>1, <1>2
\* What booking one posting does to the four balances.
LEMMA BookOne ==
  ASSUME NEW b \in [Accounts -> Int], NEW kind, NEW amount \in Int, amount >= 0,
         NEW debit \in Accounts, NEW credit \in Accounts, debit # credit
  PROVE  LET c == Book(b, post(kind, debit, credit, amount))
         IN /\ c \in [Accounts -> Int]
            /\ \A a \in Accounts \ {debit, credit} : c[a] = b[a]
            /\ c[debit]  = IF debit  = "CUSTOMER" THEN b[debit] - amount  ELSE b[debit] + amount
            /\ c[credit] = IF credit = "CUSTOMER" THEN b[credit] + amount ELSE b[credit] - amount
<1> DEFINE p == [kind |-> kind, debit |-> debit, credit |-> credit, amount |-> amount]
<1>1. CASE amount > 0
  <2>1. post(kind, debit, credit, amount) = <<p>>
    BY <1>1 DEF post
  <2>2. Book(b, <<p>>) = [a \in Accounts |-> b[a] + add(a, p)]
    BY DEF Book
  <2>3. /\ \A a \in Accounts \ {debit, credit} : add(a, p) = 0
        /\ add(debit, p) = IF debit = "CUSTOMER" THEN -amount ELSE amount
        /\ add(credit, p) = IF credit = "CUSTOMER" THEN amount ELSE -amount
    BY DEF add
  <2>4. \A a \in Accounts : add(a, p) \in Int
    BY DEF add
  <2> QED BY <2>1, <2>2, <2>3, <2>4
<1>2. CASE amount = 0
  <2>1. post(kind, debit, credit, amount) = <<>>
    BY <1>2 DEF post
  <2> QED BY <2>1, <1>2 DEF Book
<1> QED BY <1>1, <1>2

\* The books of a dispute, in the terms the invariants use.
Conserved(b) ==
  /\ b["CUSTOMER"] = b["SUSPENSE"] + b["RECOVERY"] + b["LOSS"]
  /\ b["RECOVERY"] >= 0 /\ b["LOSS"] >= 0

\* What entering a state does to the books: a credit state advances the claim less
\* the liability, a state that settles empties suspense, any other leaves the books
\* alone; the books stay conserved throughout.
LEMMA EnterBooks ==
  ASSUME NEW r \in RuleRows, NEW entered \in AllStates, NEW claim \in Nat,
         NEW liability \in Int, 0 =< liability, liability < claim,
         NEW how \in SuspenseSettlements,
         NEW b \in [Accounts -> Int], b["SUSPENSE"] >= 0, Conserved(b)
  PROVE  LET c == Book(b, Postings(r, entered, claim, liability, b["SUSPENSE"], how))
         IN /\ c \in [Accounts -> Int] /\ Conserved(c)
            /\ entered \in RefundStates => c["SUSPENSE"] = b["SUSPENSE"] + claim - liability
            /\ entered \in {"CHARGEBACK_WON", "PROVISIONAL_CREDIT_REVERSED", "CLOSED"} =>
                 c["SUSPENSE"] = 0
            /\ entered = "CHARGEBACK_LOST" /\ ~HasProvisionalCredit(r) => c["SUSPENSE"] = 0
            /\ entered \notin RefundStates => c["SUSPENSE"] \in {0, b["SUSPENSE"]}
<1> DEFINE s == b["SUSPENSE"]
           ps == Postings(r, entered, claim, liability, s, how)
           c == Book(b, ps)
<1>0. s \in Int /\ claim - liability \in Int /\ claim - liability > 0
  BY DEF Accounts
<1>1. CASE entered \in RefundStates
  <2>0. PICK amount \in Int : amount = claim - liability /\ amount >= 0
    BY <1>0
  <2>1. PICK kind \in PostingKinds : ps = post(kind, "SUSPENSE", "CUSTOMER", amount)
    BY <1>1, <2>0 DEF Postings, creditKind, RefundStates, PostingKinds, CreditKinds
  <2>2. /\ c \in [Accounts -> Int]
        /\ c["SUSPENSE"] = s + amount /\ c["CUSTOMER"] = b["CUSTOMER"] + amount
        /\ c["RECOVERY"] = b["RECOVERY"] /\ c["LOSS"] = b["LOSS"]
    BY <2>0, <2>1, BookOne DEF Accounts
  <2> QED BY <1>1, <2>0, <2>2, <1>0 DEF Accounts, Conserved, RefundStates
<1>2. CASE entered = "PROVISIONAL_CREDIT_REVERSED"
  <2>1. ps = post("PROVISIONAL_CREDIT_REVERSAL", "CUSTOMER", "SUSPENSE", s)
    BY <1>2 DEF Postings, reversal, RefundStates
  <2>2. /\ c \in [Accounts -> Int]
        /\ c["SUSPENSE"] = s - s /\ c["CUSTOMER"] = b["CUSTOMER"] - s
        /\ c["RECOVERY"] = b["RECOVERY"] /\ c["LOSS"] = b["LOSS"]
    BY <2>1, <1>0, BookOne DEF Accounts
  <2> QED BY <1>2, <2>2, <1>0 DEF Accounts, Conserved, RefundStates
<1>3. CASE \/ entered \in {"CHARGEBACK_WON", "CLOSED"}
           \/ entered = "CHARGEBACK_LOST" /\ ~HasProvisionalCredit(r)
  <2>1. PICK w \in SuspenseSettlements : ps = settle(w, s)
    BY <1>3 DEF Postings, settlements, RefundStates, SuspenseSettlements
  <2>2. PICK kind \in PostingKinds, to \in {"RECOVERY", "LOSS"} : ps = post(kind, to, "SUSPENSE", s)
    BY <2>1 DEF settle, PostingKinds
  <2>3. /\ c \in [Accounts -> Int]
        /\ c["SUSPENSE"] = s - s /\ c["CUSTOMER"] = b["CUSTOMER"]
        /\ c[to] = b[to] + s
        /\ \A a \in {"RECOVERY", "LOSS"} \ {to} : c[a] = b[a]
    <3>1. CASE to = "RECOVERY"
      BY <2>2, <3>1, <1>0, BookOne DEF Accounts
    <3>2. CASE to = "LOSS"
      BY <2>2, <3>2, <1>0, BookOne DEF Accounts
    <3> QED BY <3>1, <3>2
  <2> QED BY <1>3, <2>3, <1>0 DEF Accounts, Conserved, RefundStates
<1>4. CASE ~(\/ entered \in RefundStates \cup {"PROVISIONAL_CREDIT_REVERSED", "CHARGEBACK_WON", "CLOSED"}
             \/ entered = "CHARGEBACK_LOST" /\ ~HasProvisionalCredit(r))
  <2>1. ps = <<>>
    BY <1>4 DEF Postings, settlements, RefundStates
  <2>2. c = b
    BY <2>1 DEF Book
  <2> QED BY <1>4, <2>2
<1> QED BY <1>1, <1>2, <1>3, <1>4
-----------------------------------------------------------------------------
(* Type correctness *)

\* The type invariant with the dispute in existence.
Exists == TypeOK /\ state # "NONE"

LEMMA ExistsType ==
  ASSUME Exists
  PROVE  /\ regime \in DOMAIN Rules /\ Rules[regime] \in RuleRows
         /\ disputed \in Amounts /\ disputed \in Nat \ {0} /\ addresses \in SUBSET Channels
         /\ state \in AllStates /\ appeals \in 0..Rules[regime].MaxAppeals
         /\ bal \in [Accounts -> Int] /\ clocks \in SUBSET Deadlines
         /\ questionnaire \in {"none", "sent", "received"} /\ risk \in RiskTiers
         /\ notices \in SUBSET [seq : Nat, kind : NoticeKinds, channel : Channels,
                                outcome : Outcomes \cup {""}]
BY RulesAssumption, InputsAssumption DEF Exists, TypeOK, Init

LogRows == [event : AllEvents \cup {"OPENED", "REASSIGNED"},
            from : AllStates \cup {"NONE"}, to : AllStates]

LedgerRow == [seq : Nat, kind : PostingKinds, amount : Nat]

LEMMA LogType ==
  ASSUME Exists
  PROVE  version \in Nat /\ version > 0 /\ Len(log) = version /\ log \in Seq(LogRows)
<1>1. version \in Nat \ {0}
  BY DEF Exists, TypeOK, Init
<1>2. Len(log) = version /\ log \in Seq(LogRows)
  BY DEF Exists, TypeOK, Init, LogRows
<1> QED BY <1>1, <1>2

LEMMA LedgerType == ASSUME Exists PROVE ledger \in Seq(LedgerRow)
BY DEF Exists, TypeOK, Init, LedgerRow

\* The sequence number of a posted row is a natural number.
LEMMA SeqOfRow == ASSUME Exists PROVE \A i \in DOMAIN ledger : ledger[i].seq \in Nat
<1> SUFFICES ASSUME NEW i \in DOMAIN ledger PROVE ledger[i].seq \in Nat
  OBVIOUS
<1>1. ledger[i] \in LedgerRow
  <2>1. ledger \in Seq(LedgerRow)
    BY LedgerType
  <2> QED BY <2>1
<1>2. \A row \in LedgerRow : row.seq \in Nat
  BY DEF LedgerRow
<1> QED BY <1>1, <1>2

\* Appending a row to the log moves the version on by one.
LEMMA LogGrows ==
  ASSUME Exists, NEW row \in LogRows, version' = version + 1, log' = Append(log, row)
  PROVE  version' \in Nat \ {0} /\ Len(log') = version' /\ log' \in Seq(LogRows)
<1>1. version \in Nat /\ version > 0 /\ Len(log) = version /\ log \in Seq(LogRows)
  BY LogType
<1> QED BY <1>1

\* The clocks a transition leaves are deadlines again.
LEMMA SettledDeadlines ==
  ASSUME NEW r \in RuleRows, NEW cs \in SUBSET Deadlines, NEW entered, NEW appealed,
         NEW cycle \in Nat
  PROVE  settleDeadlines(r, cs, entered, appealed, cycle) \in SUBSET Deadlines
<1>1. \A c \in cs : c.status = "open" => [c EXCEPT !.status = Settle(c.kind, entered)] \in Deadlines
  BY DEF Deadlines, Settle
<1>2. AppealDeadlines(r, cycle) \in SUBSET Deadlines
  BY DEF AppealDeadlines, Deadlines, DeadlineKinds
<1> QED BY <1>1, <1>2 DEF settleDeadlines

\* The notices a transition adds are notices.
LEMMA NotifiedType ==
  ASSUME NEW r \in RuleRows, NEW book \in SUBSET Channels, NEW entered, NEW seq \in Nat,
         NEW outcome \in Outcomes \cup {""}
  PROVE  notify(r, book, entered, seq, outcome) \in
           SUBSET [seq : Nat, kind : NoticeKinds, channel : Channels, outcome : Outcomes \cup {""}]
<1>1. NoticesFor(entered) \subseteq NoticeKinds
  BY DEF NoticesFor, NoticeKinds
<1>2. SUFFICES ASSUME NEW n \in notify(r, book, entered, seq, outcome)
               PROVE  n \in [seq : Nat, kind : NoticeKinds, channel : Channels,
                             outcome : Outcomes \cup {""}]
  OBVIOUS
<1>3. PICK kc \in NoticesFor(entered) \X book :
        n = [seq |-> seq, kind |-> kc[1], channel |-> kc[2],
             outcome |-> IF kc[1] = "RESOLUTION" THEN outcome ELSE ""]
  BY DEF notify
<1> QED BY <1>1, <1>3

\* The rows a transition's postings become are ledger rows.
LEMMA LedgerRowsType ==
  ASSUME NEW r \in RuleRows, NEW entered, NEW claim \in Int, NEW liability \in Int,
         NEW outstanding \in Int, NEW how, NEW seq \in Nat
  PROVE  LedgerRows(seq, Postings(r, entered, claim, liability, outstanding, how)) \in
           Seq(LedgerRow)
<1> DEFINE ps == Postings(r, entered, claim, liability, outstanding, how)
<1>1. \/ ps = <<>>
      \/ \E kind \in PostingKinds, debit \in Accounts, credit \in Accounts, amount \in Int :
           ps = post(kind, debit, credit, amount)
  BY DEF Postings, creditKind, reversal, settlements, settle, PostingKinds, CreditKinds, Accounts
<1>2. CASE ps = <<>>
  BY <1>2 DEF LedgerRows
<1>3. ASSUME NEW kind \in PostingKinds, NEW debit \in Accounts, NEW credit \in Accounts,
             NEW amount \in Int, ps = post(kind, debit, credit, amount)
      PROVE  LedgerRows(seq, ps) \in Seq(LedgerRow)
  <2>1. CASE amount > 0
    <3>1. ps = <<[kind |-> kind, debit |-> debit, credit |-> credit, amount |-> amount]>>
      BY <1>3, <2>1 DEF post
    <3>2. LedgerRows(seq, ps) = <<[seq |-> seq, kind |-> kind, amount |-> amount]>>
      BY <3>1 DEF LedgerRows
    <3>3. [seq |-> seq, kind |-> kind, amount |-> amount] \in LedgerRow
      BY <1>3, <2>1 DEF LedgerRow
    <3> QED BY <3>2, <3>3
  <2>2. CASE ~(amount > 0)
    BY <1>3, <2>2 DEF LedgerRows, post
  <2> QED BY <2>1, <2>2
<1> QED BY <1>1, <1>2, <1>3

\* A liability the code accepts leaves something of the claim, and a settlement it
\* accepts is one of the two.
LEMMA PayloadType ==
  ASSUME NEW r \in RuleRows, NEW claim \in Nat \ {0}, NEW e, NEW p \in Payloads,
         PayloadValid(r, claim, e, p)
  PROVE  /\ p.liability \in Int /\ 0 =< p.liability /\ p.liability < claim
         /\ ParseSettlement(r, p.settlement) \in SuspenseSettlements
<1>1. p.liability \in Int
  BY InputsAssumption DEF Payloads
<1>2. 0 =< p.liability /\ p.liability < claim
  <2>1. p.liability >= 0 /\ ~(p.liability >= claim /\ claim > 0)
    BY DEF PayloadValid, LiabilityAllowed
  <2> QED BY <1>1, <2>1
<1>3. ParseSettlement(r, p.settlement) \in SuspenseSettlements
  <2>1. p.settlement \in SuspenseSettlements \cup {""}
    BY DEF PayloadValid, SettlementAllowed
  <2> QED BY <2>1 DEF ParseSettlement, RuleRows
<1> QED BY <1>1, <1>2, <1>3

\* The clocks a dispute opens with, acknowledged, are deadlines.
LEMMA OpeningType ==
  ASSUME NEW r \in RuleRows
  PROVE  acknowledge(OpeningDeadlines(r)) \in SUBSET Deadlines
<1>1. OpeningDeadlines(r) \in SUBSET Deadlines
  BY DEF OpeningDeadlines, Deadlines, RuleRows
<1>2. \A c \in Deadlines : [c EXCEPT !.status = "met"] \in Deadlines
  BY DEF Deadlines
<1> QED BY <1>1, <1>2 DEF acknowledge

LEMMA OutcomeType == ASSUME NEW l, NEW b PROVE OutcomeOf(l, b) \in Outcomes
BY DEF OutcomeOf, Outcomes

LEMMA TypeStep == ASSUME TypeOK, [Next]_vars PROVE TypeOK'
<1>1. ASSUME NEW r \in DOMAIN Rules, NEW amount \in Amounts, NEW book \in AddressBooks,
             NEW tm \in Teams, NEW tier \in RiskTiers, CreateDispute(r, amount, book, tm, tier)
      PROVE  TypeOK'
  <2>1. Init /\ Rules[r] \in RuleRows /\ book \in SUBSET Channels
    BY <1>1, RulesAssumption, InputsAssumption DEF TypeOK, CreateDispute, AllStates, RefundStates
  <2>2. clocks' \in SUBSET Deadlines
    BY <1>1, <2>1, OpeningType DEF CreateDispute
  <2>3. notices' \in SUBSET [seq : Nat, kind : NoticeKinds, channel : Channels,
                             outcome : Outcomes \cup {""}]
    BY <1>1, <2>1, NotifiedType DEF CreateDispute
  <2>4. /\ regime' \in DOMAIN Rules /\ disputed' \in Amounts /\ addresses' \in SUBSET Channels
        /\ state' \in AllStates /\ appeals' \in 0..Rules[regime'].MaxAppeals
        /\ version' \in Nat \ {0} /\ Len(log') = version'
        /\ log' \in Seq(LogRows)
    <3>1. /\ regime' = r /\ disputed' = amount /\ addresses' = book
          /\ state' = "INITIATED" /\ appeals' = 0 /\ version' = 1
          /\ log' = <<[event |-> "OPENED", from |-> "NONE", to |-> "INITIATED"]>>
      BY <1>1, <2>1 DEF CreateDispute, Init
    <3>2. "INITIATED" \in AllStates
      BY DEF AllStates
    <3>3. [event |-> "OPENED", from |-> "NONE", to |-> "INITIATED"] \in LogRows
      BY <3>2 DEF LogRows
    <3>4. Rules[r].MaxAppeals \in Nat
      BY <2>1 DEF RuleRows
    <3> QED BY <2>1, <3>1, <3>2, <3>3, <3>4
  <2>5. /\ ledger' \in Seq(LedgerRow)
        /\ bal' \in [Accounts -> Int]
        /\ questionnaire' \in {"none", "sent", "received"} /\ risk' \in RiskTiers
    <3>1. /\ ledger' = <<>> /\ bal' = [a \in Accounts |-> 0]
          /\ questionnaire' = "none" /\ risk' = tier
      BY <1>1, <2>1 DEF CreateDispute, Init
    <3> QED BY <3>1
  <2> QED BY <2>2, <2>3, <2>4, <2>5 DEF TypeOK, LogRows, LedgerRow
<1>2. ASSUME NEW e \in AllEvents, ApplyEvent(e) PROVE TypeOK'
  <2> DEFINE r == Rules[regime]
  <2>1. Exists
    BY <1>2 DEF ApplyEvent, Exists
  <2>2. PICK n \in Apply(r, state, appeals, e), p \in Payloads :
          LET ps == Postings(r, n.state, disputed, p.liability, bal["SUSPENSE"],
                             ParseSettlement(r, p.settlement))
          IN /\ PayloadValid(r, disputed, e, p)
             /\ state' = n.state /\ appeals' = n.appeals /\ version' = version + 1
             /\ log' = Append(log, [event |-> e, from |-> state, to |-> n.state])
             /\ questionnaire' = Questionnaire(e, questionnaire)
             /\ clocks' = settleDeadlines(r, clocks, n.state, n.appeals > appeals, n.appeals)
             /\ ledger' = ledger \o LedgerRows(version + 1, ps)
             /\ bal' = Book(bal, ps)
             /\ notices' = notices \cup
                  notify(r, addresses, n.state, version + 1, OutcomeOf(ledger', bal'))
    BY <1>2 DEF ApplyEvent
  <2>3. /\ regime' = regime /\ disputed' = disputed /\ addresses' = addresses
        /\ risk' \in IF e = "RECEIVE_QUESTIONNAIRE" THEN RiskTiers ELSE {risk}
    BY <1>2 DEF ApplyEvent
  <2>t. r \in RuleRows /\ state \in AllStates /\ appeals \in 0..r.MaxAppeals
    BY <2>1, ExistsType
  <2> HIDE DEF r
  <2>4. /\ n.state \in AllStates /\ n.appeals \in 0..r.MaxAppeals /\ n.appeals \in Nat
    <3>1. n.state \in AllStates /\ n.appeals \in 0..r.MaxAppeals
      BY <2>t, ApplyStates
    <3> QED BY <3>1, <2>t DEF RuleRows
  <2>5. /\ p.liability \in Int /\ bal["SUSPENSE"] \in Int /\ disputed \in Int
        /\ ParseSettlement(r, p.settlement) \in SuspenseSettlements
    <3>1. PayloadValid(r, disputed, e, p)
      BY <2>2
    <3>2. disputed \in Nat \ {0} /\ bal \in [Accounts -> Int]
      BY <2>1, ExistsType
    <3> QED BY <2>t, <3>1, <3>2, PayloadType DEF Accounts
  <2>6. clocks' \in SUBSET Deadlines
    <3>1. clocks' = settleDeadlines(r, clocks, n.state, n.appeals > appeals, n.appeals)
      BY <2>2
    <3>2. clocks \in SUBSET Deadlines
      BY <2>1, ExistsType
    <3> QED BY <2>t, <2>4, <3>1, <3>2, SettledDeadlines
  <2>7. notices' \in SUBSET [seq : Nat, kind : NoticeKinds, channel : Channels,
                             outcome : Outcomes \cup {""}]
    <3>0. version + 1 \in Nat
      BY <2>1, LogType
    <3>1. version + 1 \in Nat /\ addresses \in SUBSET Channels
      BY <3>0, <2>1, ExistsType
    <3>2. PICK outcome \in Outcomes \cup {""} : outcome = OutcomeOf(ledger', bal')
      BY OutcomeType
    <3>3. notify(r, addresses, n.state, version + 1, outcome) \in
            SUBSET [seq : Nat, kind : NoticeKinds, channel : Channels, outcome : Outcomes \cup {""}]
      BY <3>1, <2>t, NotifiedType
    <3>4. notices' = notices \cup notify(r, addresses, n.state, version + 1, outcome)
      BY <2>2, <3>2
    <3> QED BY <3>3, <3>4, <2>1, ExistsType
  <2>8. ledger' \in Seq(LedgerRow)
    <3> DEFINE rows == LedgerRows(version + 1, Postings(r, n.state, disputed, p.liability,
                                    bal["SUSPENSE"], ParseSettlement(r, p.settlement)))
    <3>1. version + 1 \in Nat
      BY <2>1, LogType
    <3>2. rows \in Seq(LedgerRow)
      BY <3>1, <2>t, <2>5, LedgerRowsType
    <3>3. ledger' = ledger \o rows
      BY <2>2
    <3> HIDE DEF rows
    <3> QED BY <3>2, <3>3, <2>1, LedgerType
  <2>9. bal' \in [Accounts -> Int]
    <3> DEFINE ps == Postings(r, n.state, disputed, p.liability, bal["SUSPENSE"],
                              ParseSettlement(r, p.settlement))
    <3>1. ps = <<>> \/ \A a \in Accounts : add(a, ps[1]) \in Int
      BY <2>5 DEF Postings, reversal, settlements, settle, post, add, Accounts
    <3>2. bal' = Book(bal, ps) /\ bal \in [Accounts -> Int]
      BY <2>1, <2>2, ExistsType
    <3> HIDE DEF ps
    <3> QED BY <3>1, <3>2 DEF Book
  <2>10. /\ version' \in Nat \ {0} /\ Len(log') = version'
         /\ log' \in Seq(LogRows)
         /\ questionnaire' \in {"none", "sent", "received"} /\ risk' \in RiskTiers
    <3>1. /\ version' = version + 1
          /\ log' = Append(log, [event |-> e, from |-> state, to |-> n.state])
          /\ questionnaire' \in {"sent", "received", questionnaire}
      BY <2>2 DEF Questionnaire
    <3>2. [event |-> e, from |-> state, to |-> n.state] \in LogRows
      BY <2>t, <2>4 DEF LogRows
    <3>3. version' \in Nat \ {0} /\ Len(log') = version' /\ log' \in Seq(LogRows)
      BY <2>1, <3>1, <3>2, LogGrows
    <3>4. questionnaire' \in {"none", "sent", "received"} /\ risk' \in RiskTiers
      BY <2>1, <2>3, <3>1, ExistsType
    <3> QED BY <3>3, <3>4
  <2> QED
    <3>1. /\ regime' \in DOMAIN Rules /\ disputed' \in Amounts
          /\ addresses' \in SUBSET Channels
      BY <2>1, <2>3, ExistsType
    <3>2. state' \in AllStates /\ appeals' \in 0..Rules[regime'].MaxAppeals
      BY <2>2, <2>3, <2>4 DEF r
    <3> QED BY <3>1, <3>2, <2>6, <2>7, <2>8, <2>9, <2>10 DEF TypeOK, LogRows, LedgerRow
<1>3. ASSUME NEW tm \in Teams, Reassign(tm) PROVE TypeOK'
  <2>1. Exists
    BY <1>3 DEF Reassign, Exists
  <2>2. /\ version' \in Nat \ {0} /\ Len(log') = version'
        /\ log' \in Seq(LogRows)
    <3>1. [event |-> "REASSIGNED", from |-> state, to |-> state] \in LogRows
      BY <2>1, ExistsType DEF LogRows
    <3> QED BY <1>3, <2>1, <3>1, LogGrows DEF Reassign
  <2>3. UNCHANGED <<regime, disputed, addresses, state, appeals, ledger, bal, clocks,
                    questionnaire, risk, notices>>
    BY <1>3 DEF Reassign
  <2> QED BY <2>1, <2>2, <2>3, ExistsType, LedgerType DEF TypeOK, LogRows, LedgerRow
<1>4. CASE UNCHANGED vars
  BY <1>4 DEF TypeOK, Init, vars
<1> QED BY <1>1, <1>2, <1>3, <1>4 DEF Next

\* Type correctness: whatever events arrive with whatever payloads, in whatever order,
\* the committed row, log, ledger, clocks and notices of a dispute are well formed,
\* its appeals within the regime's cap and its log exactly as long as its version.
THEOREM TypeCorrect == Spec => []TypeOK
<1>1. Init => TypeOK
  BY DEF TypeOK
<1> QED BY <1>1, TypeStep, PTL DEF Spec

-----------------------------------------------------------------------------
(* Money.  That a closed dispute has nothing in suspense is not inductive: *)
(* a reversal or a settlement empties suspense only of what the books say  *)
(* is in it, and a second refund on top of an open one would be settled as *)
(* one.  OneAdvance says where an advance may be outstanding, Conserved    *)
(* what the four balances owe each other.                                  *)

MoneyInv == TypeOK /\ OneAdvance /\ Conserved(bal)

LEMMA MoneyStep == ASSUME MoneyInv, [Next]_vars PROVE OneAdvance' /\ Conserved(bal)'
<1>1. ASSUME NEW r \in DOMAIN Rules, NEW amount \in Amounts, NEW book \in AddressBooks,
             NEW tm \in Teams, NEW tier \in RiskTiers, CreateDispute(r, amount, book, tm, tier)
      PROVE  OneAdvance' /\ Conserved(bal)'
  <2>1. Init
    BY <1>1 DEF MoneyInv, TypeOK, CreateDispute, AllStates, RefundStates
  <2>2. bal' = bal /\ bal["SUSPENSE"] = 0 /\ disputed' = amount /\ amount \in Nat
    BY <1>1, <2>1, InputsAssumption DEF Init, CreateDispute, Accounts
  <2> QED BY <2>2 DEF OneAdvance, MoneyInv, Conserved
<1>2. ASSUME NEW e \in AllEvents, ApplyEvent(e) PROVE OneAdvance' /\ Conserved(bal)'
  <2> DEFINE r == Rules[regime]
  <2>1. Exists
    BY <1>2 DEF ApplyEvent, Exists, MoneyInv
  <2>2. PICK n \in Apply(r, state, appeals, e), p \in Payloads :
          /\ PayloadValid(r, disputed, e, p)
          /\ state' = n.state
          /\ bal' = Book(bal, Postings(r, n.state, disputed, p.liability, bal["SUSPENSE"],
                                       ParseSettlement(r, p.settlement)))
    BY <1>2 DEF ApplyEvent
  <2>3. regime' = regime /\ disputed' = disputed
    BY <1>2 DEF ApplyEvent
  <2>4. /\ r \in RuleRows /\ state \in AllStates /\ appeals \in 0..r.MaxAppeals
        /\ disputed \in Nat \ {0} /\ bal \in [Accounts -> Int]
    BY <2>1, ExistsType
  <2> HIDE DEF r
  <2>5. /\ n.state \in AllStates
        /\ n.state \in RefundStates => state \in Before
        /\ n.state \in Before => state \in Before \cup {"CLOSED"}
        /\ n.state = "FINAL_CREDIT_ISSUED" => state = "CHARGEBACK_WON"
    BY <2>4, ApplyStates
  <2>6. /\ p.liability \in Int /\ 0 =< p.liability /\ p.liability < disputed
        /\ ParseSettlement(r, p.settlement) \in SuspenseSettlements
    BY <2>2, <2>4, PayloadType
  <2>7. bal["SUSPENSE"] >= 0 /\ bal["SUSPENSE"] =< disputed /\ Conserved(bal)
    BY <2>4 DEF MoneyInv, OneAdvance, Accounts
  <2>8. /\ Conserved(bal') /\ bal' \in [Accounts -> Int]
        /\ n.state \in RefundStates => bal'["SUSPENSE"] = bal["SUSPENSE"] + disputed - p.liability
        /\ n.state \in {"CHARGEBACK_WON", "PROVISIONAL_CREDIT_REVERSED", "CLOSED"} =>
             bal'["SUSPENSE"] = 0
        /\ n.state = "CHARGEBACK_LOST" /\ ~HasProvisionalCredit(r) => bal'["SUSPENSE"] = 0
        /\ n.state \notin RefundStates => bal'["SUSPENSE"] \in {0, bal["SUSPENSE"]}
    BY <2>2, <2>4, <2>5, <2>6, <2>7, EnterBooks
  <2>9. state \in Before \cup {"CLOSED", "CHARGEBACK_WON"} => bal["SUSPENSE"] = 0
    BY <2>4, <2>7 DEF MoneyInv, OneAdvance, Advanced, Before, RefundStates, Accounts
  <2>10. 0 =< bal'["SUSPENSE"] /\ bal'["SUSPENSE"] =< disputed
    <3>1. CASE n.state \in RefundStates
      BY <3>1, <2>4, <2>5, <2>6, <2>8, <2>9
    <3>2. CASE n.state \notin RefundStates
      BY <3>2, <2>4, <2>7, <2>8
    <3> QED BY <3>1, <3>2
  <2>11. bal'["SUSPENSE"] > 0 => Advanced'
    <3>1. CASE n.state \in RefundStates
      BY <3>1, <2>2 DEF Advanced
    <3>2. CASE n.state \in Before \cup {"FINAL_CREDIT_ISSUED"}
      <4>1. n.state \notin RefundStates
        BY <3>2 DEF Before, RefundStates
      <4> QED BY <3>2, <4>1, <2>5, <2>8, <2>9
    <3>3. CASE n.state \in {"CHARGEBACK_WON", "PROVISIONAL_CREDIT_REVERSED", "CLOSED"}
      BY <3>3, <2>8
    <3>4. CASE n.state = "CHARGEBACK_LOST"
      BY <3>4, <2>2, <2>3, <2>8 DEF Advanced, r
    <3>5. CASE n.state \in {"CHARGEBACK_FILED", "CHARGEBACK_ACKNOWLEDGED", "EVIDENCE_SUBMITTED"}
      BY <3>5, <2>2 DEF Advanced
    <3> QED BY <2>5, <3>1, <3>2, <3>3, <3>4, <3>5 DEF AllStates, Before
  <2> QED BY <2>3, <2>8, <2>10, <2>11 DEF OneAdvance, Conserved
<1>3. ASSUME NEW tm \in Teams, Reassign(tm) PROVE OneAdvance' /\ Conserved(bal)'
  BY <1>3 DEF Reassign, MoneyInv, OneAdvance, Advanced, Conserved
<1>4. CASE UNCHANGED vars
  BY <1>4 DEF vars, MoneyInv, OneAdvance, Advanced, Conserved
<1> QED BY <1>1, <1>2, <1>3, <1>4 DEF Next

LEMMA MoneyInvariant == Spec => []MoneyInv
<1>1. Init => MoneyInv
  BY DEF Init, MoneyInv, TypeOK, OneAdvance, Conserved, Accounts
<1>2. MoneyInv /\ [Next]_vars => MoneyInv'
  BY TypeStep, MoneyStep DEF MoneyInv
<1> QED BY <1>1, <1>2, PTL DEF Spec

\* At most one advance is outstanding at any time, whatever the appeals: refunds never
\* stack, because ApplyEvent issues one only from states that suspense is empty in.
THEOREM OneAdvanceAlways == Spec => []OneAdvance
<1>1. MoneyInv => OneAdvance
  BY DEF MoneyInv
<1> QED BY <1>1, MoneyInvariant, PTL

\* ledger.go: "a dispute's suspense balance is zero once it is CLOSED, whichever path
\* it took", for any rules table and any number of appeals.
THEOREM SuspenseAlwaysClears == Spec => []SuspenseClears
<1>1. MoneyInv => SuspenseClears
  <2> SUFFICES ASSUME MoneyInv, state = "CLOSED" PROVE bal["SUSPENSE"] = 0
    BY DEF SuspenseClears
  <2>1. bal["SUSPENSE"] \in Int
    BY ExistsType DEF MoneyInv, Exists, Accounts
  <2> QED BY <2>1 DEF MoneyInv, OneAdvance, Advanced, RefundStates
<1> QED BY <1>1, MoneyInvariant, PTL

\* The books Postings writes balance when a dispute closes: the customer is left with
\* what the bank recovered and absorbed together, and no account is negative.
THEOREM ClosedBooksAlwaysBalance == Spec => []ClosedBooksBalance
<1>1. MoneyInv => ClosedBooksBalance
  <2> SUFFICES ASSUME MoneyInv, state = "CLOSED"
               PROVE  /\ bal["CUSTOMER"] = bal["RECOVERY"] + bal["LOSS"]
                      /\ \A a \in Accounts : bal[a] >= 0
    BY DEF ClosedBooksBalance
  <2>1. \A a \in Accounts : bal[a] \in Int
    BY ExistsType DEF MoneyInv, Exists
  <2>2. bal["SUSPENSE"] = 0
    BY <2>1 DEF MoneyInv, OneAdvance, Advanced, RefundStates, Accounts
  <2> QED BY <2>1, <2>2 DEF MoneyInv, Conserved, Accounts
<1> QED BY <1>1, MoneyInvariant, PTL

-----------------------------------------------------------------------------
(* Clocks.  That no clock has a later cycle than the dispute makes the     *)
(* invariant inductive: without it an appeal could meet a clock of its own *)
(* cycle already settled.                                                  *)

ClockInv == TypeOK /\ ResolutionClockRuns /\ \A c \in clocks : c.cycle =< appeals

\* Settling leaves a clock's kind and cycle, and its status once it is not open.
Settled(c, entered) ==
  IF c.status = "open" THEN [c EXCEPT !.status = Settle(c.kind, entered)] ELSE c

LEMMA SettledClock ==
  ASSUME NEW c \in Deadlines, NEW entered
  PROVE  /\ Settled(c, entered).kind = c.kind /\ Settled(c, entered).cycle = c.cycle
         /\ c.kind = "RESOLUTION" =>
              (Settled(c, entered).status = "open" <=> c.status = "open" /\ entered # "CLOSED")
         /\ entered = "CLOSED" => Settled(c, entered).status # "open"
         /\ c.status # "open" => Settled(c, entered) = c
BY DEF Deadlines, DeadlineKinds, Settled, Settle, RefundStates

LEMMA ClockStep == ASSUME ClockInv, TypeOK', [Next]_vars
                   PROVE  ResolutionClockRuns' /\ (\A c \in clocks : c.cycle =< appeals)'
<1>1. ASSUME NEW r \in DOMAIN Rules, NEW amount \in Amounts, NEW book \in AddressBooks,
             NEW tm \in Teams, NEW tier \in RiskTiers, CreateDispute(r, amount, book, tm, tier)
      PROVE  ResolutionClockRuns' /\ (\A c \in clocks : c.cycle =< appeals)'
  <2>1. state' = "INITIATED" /\ appeals' = 0 /\ clocks' = acknowledge(OpeningDeadlines(Rules[r]))
    BY <1>1 DEF CreateDispute, ClockInv, TypeOK, Init, AllStates, RefundStates
  <2>2. \A c \in clocks' : c.cycle = 0 /\ (c.kind = "RESOLUTION" => c.status = "open")
    BY <2>1 DEF acknowledge, OpeningDeadlines
  <2>3. [kind |-> "RESOLUTION", cycle |-> 0, status |-> "open"] \in clocks'
    <3>1. [kind |-> "RESOLUTION", cycle |-> 0, status |-> "open"] \in OpeningDeadlines(Rules[r])
      BY RulesAssumption DEF OpeningDeadlines
    <3> QED BY <2>1, <3>1 DEF acknowledge
  <2> QED BY <2>1, <2>2, <2>3 DEF ResolutionClockRuns
<1>2. ASSUME NEW e \in AllEvents, ApplyEvent(e)
      PROVE  ResolutionClockRuns' /\ (\A c \in clocks : c.cycle =< appeals)'
  <2> DEFINE r == Rules[regime]
  <2>1. Exists
    BY <1>2 DEF ApplyEvent, Exists, ClockInv
  <2>2. PICK n \in Apply(r, state, appeals, e) :
          /\ state' = n.state /\ appeals' = n.appeals
          /\ clocks' = settleDeadlines(r, clocks, n.state, n.appeals > appeals, n.appeals)
    BY <1>2 DEF ApplyEvent
  <2>3. /\ r \in RuleRows /\ state \in AllStates /\ appeals \in 0..r.MaxAppeals
        /\ clocks \in SUBSET Deadlines /\ "RESOLUTION" \in r.Clocks /\ r.MaxAppeals \in Nat
    BY <2>1, ExistsType, RulesAssumption DEF RuleRows
  <2> HIDE DEF r
  <2>4. \/ n.appeals = appeals /\ state # "CLOSED"
        \/ n.appeals = appeals + 1 /\ state = "CLOSED" /\ n.state = "INVESTIGATING"
    BY <2>3, ApplyStates
  <2>5. appeals \in Nat /\ \A c \in clocks : c.cycle \in Nat
    BY <2>3 DEF Deadlines
  <2>6. /\ \A c \in clocks : c.kind = "RESOLUTION" =>
             (c.status = "open" <=> state # "CLOSED" /\ c.cycle = appeals)
        /\ \E c \in clocks : c.kind = "RESOLUTION" /\ c.cycle = appeals
        /\ state = "CLOSED" => \A c \in clocks : c.status # "open"
        /\ \A c \in clocks : c.cycle =< appeals
    BY <2>3 DEF ClockInv, ResolutionClockRuns, AllStates, RefundStates
  <2>7. CASE n.appeals = appeals /\ state # "CLOSED"
    <3>1. clocks' = {Settled(c, n.state) : c \in clocks}
      BY <2>2, <2>5, <2>7 DEF settleDeadlines, Settled
    <3>2. \A c \in clocks : Settled(c, n.state) \in clocks'
      BY <3>1
    <3>3. \A d \in clocks' : d.kind = "RESOLUTION" =>
            (d.status = "open" <=> n.state # "CLOSED" /\ d.cycle = n.appeals)
      BY <2>3, <2>6, <2>7, <3>1, SettledClock
    <3>4. \E d \in clocks' : d.kind = "RESOLUTION" /\ d.cycle = n.appeals
      BY <2>3, <2>6, <2>7, <3>2, SettledClock
    <3>5. n.state = "CLOSED" => \A d \in clocks' : d.status # "open"
      BY <2>3, <3>1, SettledClock
    <3>6. \A d \in clocks' : d.cycle =< n.appeals
      BY <2>3, <2>6, <2>7, <3>1, SettledClock
    <3> QED BY <2>2, <3>3, <3>4, <3>5, <3>6 DEF ResolutionClockRuns
  <2>8. CASE n.appeals = appeals + 1 /\ state = "CLOSED" /\ n.state = "INVESTIGATING"
    <3> DEFINE new == [kind |-> "RESOLUTION", cycle |-> n.appeals, status |-> "open"]
    <3>1. clocks' = {Settled(c, n.state) : c \in clocks} \cup {new}
      BY <2>2, <2>3, <2>5, <2>8 DEF settleDeadlines, Settled, AppealDeadlines
    <3>2. \A c \in clocks : Settled(c, n.state) = c
      BY <2>3, <2>6, <2>8, SettledClock
    <3>3. clocks' = clocks \cup {new}
      BY <3>1, <3>2
    <3>4. \A c \in clocks : c.status # "open" /\ c.cycle < n.appeals
      BY <2>5, <2>6, <2>8
    <3>5. \A d \in clocks' : d.kind = "RESOLUTION" => (d.status = "open" <=> d.cycle = n.appeals)
      BY <2>5, <2>8, <3>3, <3>4
    <3>6. \A d \in clocks' : d.cycle =< n.appeals
      BY <2>5, <2>8, <3>3, <3>4
    <3>7. \E d \in clocks' : d.kind = "RESOLUTION" /\ d.cycle = n.appeals
      <4>1. new \in clocks'
        BY <3>3
      <4> QED BY <4>1
    <3>8. state' = "INVESTIGATING" /\ appeals' = n.appeals
      BY <2>2, <2>8
    <3> QED BY <3>5, <3>6, <3>7, <3>8 DEF ResolutionClockRuns
  <2> QED BY <2>4, <2>7, <2>8
<1>3. ASSUME NEW tm \in Teams, Reassign(tm)
      PROVE  ResolutionClockRuns' /\ (\A c \in clocks : c.cycle =< appeals)'
  BY <1>3 DEF Reassign, ClockInv, ResolutionClockRuns
<1>4. CASE UNCHANGED vars
  BY <1>4 DEF vars, ClockInv, ResolutionClockRuns
<1> QED BY <1>1, <1>2, <1>3, <1>4 DEF Next

\* The overdue report is exact: for any rules table whose regimes all run a resolution
\* clock, an open dispute has exactly its own cycle's clock open and a closed one none.
THEOREM ResolutionClockAlwaysRuns == Spec => []ResolutionClockRuns
<1>1. Init => ClockInv
  BY DEF Init, ClockInv, TypeOK, ResolutionClockRuns
<1>2. ClockInv /\ [Next]_vars => ClockInv'
  BY TypeStep, ClockStep DEF ClockInv
<1>3. ClockInv => ResolutionClockRuns
  BY DEF ClockInv
<1> QED BY <1>1, <1>2, <1>3, PTL DEF Spec

\* No transaction rewrites a settled clock: settleDeadlines skips what is not open, so
\* what an overdue report once said of a clock stays said.
THEOREM SettledClocksAlwaysStay == Spec => SettledClocksStay
<1>1. TypeOK /\ [Next]_vars => [\A c \in clocks : c.status # "open" => c \in clocks']_vars
  <2> SUFFICES ASSUME TypeOK, Next, NEW c \in clocks, c.status # "open" PROVE c \in clocks'
    OBVIOUS
  <2>1. ASSUME NEW r \in DOMAIN Rules, NEW amount \in Amounts, NEW book \in AddressBooks,
               NEW tm \in Teams, NEW tier \in RiskTiers, CreateDispute(r, amount, book, tm, tier)
        PROVE  FALSE
    BY <2>1 DEF CreateDispute, TypeOK, Init, AllStates, RefundStates
  <2>2. ASSUME NEW e \in AllEvents, ApplyEvent(e) PROVE c \in clocks'
    <3>1. PICK n \in Apply(Rules[regime], state, appeals, e) :
            clocks' = settleDeadlines(Rules[regime], clocks, n.state, n.appeals > appeals, n.appeals)
      BY <2>2 DEF ApplyEvent
    <3>2. c \in {IF d.status = "open" THEN [d EXCEPT !.status = Settle(d.kind, n.state)] ELSE d :
                   d \in clocks}
      OBVIOUS
    <3> QED BY <3>1, <3>2 DEF settleDeadlines
  <2>3. ASSUME NEW tm \in Teams, Reassign(tm) PROVE c \in clocks'
    BY <2>3 DEF Reassign
  <2> QED BY <2>1, <2>2, <2>3 DEF Next
<1> QED BY <1>1, TypeCorrect, PTL DEF Spec, SettledClocksStay

-----------------------------------------------------------------------------
(* The ledger's rows.  That a reversal returns the credit needs to know    *)
(* where an outstanding advance is to be found: in the last row.           *)

AdvanceIsLast ==
  bal["SUSPENSE"] > 0 =>
    /\ ledger # <<>>
    /\ ledger[Len(ledger)].amount = bal["SUSPENSE"]
    /\ HasProvisionalCredit(Rules[regime]) => ledger[Len(ledger)].kind = "PROVISIONAL_CREDIT"

ReversalInv == MoneyInv /\ AdvanceIsLast /\ ReversalReturnsTheCredit

\* The row that entering a state adds to the ledger, if any.
Credited(s, row, liability) ==
  s \in RefundStates /\ row.kind = creditKind(s) /\ row.amount = disputed - liability
Reversed(s, row) ==
  /\ s = "PROVISIONAL_CREDIT_REVERSED" /\ row.kind = "PROVISIONAL_CREDIT_REVERSAL"
  /\ row.amount = bal["SUSPENSE"]
Cleared(s, row) ==
  s \notin RefundStates \cup {"PROVISIONAL_CREDIT_REVERSED"} /\ row.kind \in {"RECOVERY", "WRITE_OFF"}

\* What a transition to n with payload p does, as ApplyEvent says it.
Enters(e, n, p) ==
  LET r  == Rules[regime]
      ps == Postings(r, n.state, disputed, p.liability, bal["SUSPENSE"],
                     ParseSettlement(r, p.settlement))
  IN /\ n \in Apply(r, state, appeals, e) /\ p \in Payloads /\ PayloadValid(r, disputed, e, p)
     /\ state' = n.state /\ appeals' = n.appeals /\ version' = version + 1
     /\ log' = Append(log, [event |-> e, from |-> state, to |-> n.state])
     /\ clocks' = settleDeadlines(r, clocks, n.state, n.appeals > appeals, n.appeals)
     /\ ledger' = ledger \o LedgerRows(version + 1, ps)
     /\ bal' = Book(bal, ps)
     /\ notices' = notices \cup notify(r, addresses, n.state, version + 1, OutcomeOf(ledger', bal'))

LEMMA ApplyEnters ==
  ASSUME NEW e, ApplyEvent(e)
  PROVE  /\ state # "NONE" /\ regime' = regime /\ disputed' = disputed /\ addresses' = addresses
         /\ \E n, p : Enters(e, n, p)
<1>1. state # "NONE" /\ regime' = regime /\ disputed' = disputed /\ addresses' = addresses
  BY DEF ApplyEvent
<1>2. \E n \in Apply(Rules[regime], state, appeals, e), p \in Payloads : Enters(e, n, p)
  BY DEF ApplyEvent, Enters
<1> QED BY <1>1, <1>2

\* The rows entering a state adds: none, or one whose kind the state decides.
LEMMA EnterRows ==
  ASSUME NEW r \in RuleRows, NEW entered \in AllStates, NEW claim \in Nat, NEW liability \in Int,
         0 =< liability, liability < claim, NEW outstanding \in Int, NEW how, NEW seq \in Nat
  PROVE  LET ps == Postings(r, entered, claim, liability, outstanding, how)
         IN \/ ps = <<>> /\ LedgerRows(seq, ps) = <<>> /\ entered \notin RefundStates
            \/ \E row \in LedgerRow :
                 /\ LedgerRows(seq, ps) = <<row>> /\ row.seq = seq /\ row.amount > 0
                 /\ \/ /\ entered \in RefundStates /\ row.kind = creditKind(entered)
                       /\ row.amount = claim - liability
                    \/ /\ entered = "PROVISIONAL_CREDIT_REVERSED"
                       /\ row.kind = "PROVISIONAL_CREDIT_REVERSAL" /\ row.amount = outstanding
                    \/ /\ entered \notin RefundStates \cup {"PROVISIONAL_CREDIT_REVERSED"}
                       /\ row.kind \in {"RECOVERY", "WRITE_OFF"}
<1> DEFINE ps == Postings(r, entered, claim, liability, outstanding, how)
<1>1. PICK amount \in Int : amount = claim - liability /\ amount > 0
  OBVIOUS
<1>2. ASSUME NEW kind \in PostingKinds, NEW debit, NEW credit, NEW x \in Int, x > 0,
             ps = post(kind, debit, credit, x)
      PROVE  /\ [seq |-> seq, kind |-> kind, amount |-> x] \in LedgerRow
             /\ LedgerRows(seq, ps) = <<[seq |-> seq, kind |-> kind, amount |-> x]>>
  <2> DEFINE q == [kind |-> kind, debit |-> debit, credit |-> credit, amount |-> x]
  <2>1. ps = <<q>>
    BY <1>2 DEF post
  <2>2. <<q>> # <<>> /\ <<q>>[1] = q
    OBVIOUS
  <2>3. q.kind = kind /\ q.amount = x
    OBVIOUS
  <2> HIDE DEF q, ps
  <2>4. LedgerRows(seq, ps) = <<[seq |-> seq, kind |-> kind, amount |-> x]>>
    BY <2>1, <2>2, <2>3 DEF LedgerRows
  <2>5. [seq |-> seq, kind |-> kind, amount |-> x] \in LedgerRow
    BY <1>2 DEF LedgerRow
  <2> QED BY <2>4, <2>5
<1>3. ASSUME NEW kind, NEW debit, NEW credit, NEW x \in Int, ~(x > 0), ps = post(kind, debit, credit, x)
      PROVE  ps = <<>> /\ LedgerRows(seq, ps) = <<>>
  BY <1>3 DEF post, LedgerRows
<1>4. CASE entered \in RefundStates
  <2>1. creditKind(entered) \in PostingKinds
    BY DEF creditKind, PostingKinds, CreditKinds
  <2>2. ps = post(creditKind(entered), "SUSPENSE", "CUSTOMER", amount)
    BY <1>1, <1>4 DEF Postings, RefundStates
  <2> DEFINE row == [seq |-> seq, kind |-> creditKind(entered), amount |-> amount]
  <2>3. row \in LedgerRow /\ LedgerRows(seq, ps) = <<row>>
    BY <1>1, <1>2, <2>1, <2>2
  <2>4. row.seq = seq /\ row.kind = creditKind(entered) /\ row.amount = amount
    OBVIOUS
  <2> HIDE DEF row, ps
  <2> QED BY <1>1, <1>4, <2>3, <2>4 DEF ps
<1>5. CASE entered = "PROVISIONAL_CREDIT_REVERSED"
  <2>0. "PROVISIONAL_CREDIT_REVERSAL" \in PostingKinds
    BY DEF PostingKinds
  <2>1. ps = post("PROVISIONAL_CREDIT_REVERSAL", "CUSTOMER", "SUSPENSE", outstanding)
    BY <1>5 DEF Postings, reversal, RefundStates
  <2> DEFINE row == [seq |-> seq, kind |-> "PROVISIONAL_CREDIT_REVERSAL", amount |-> outstanding]
  <2>2. CASE outstanding > 0
    <3>1. row \in LedgerRow /\ LedgerRows(seq, ps) = <<row>>
      BY <1>2, <2>0, <2>1, <2>2
    <3>2. row.seq = seq /\ row.kind = "PROVISIONAL_CREDIT_REVERSAL" /\ row.amount = outstanding
      OBVIOUS
    <3> HIDE DEF row, ps
    <3> QED BY <1>5, <2>2, <3>1, <3>2 DEF ps
  <2>3. CASE ~(outstanding > 0)
    <3>1. ps = <<>> /\ LedgerRows(seq, ps) = <<>>
      BY <1>3, <2>1, <2>3
    <3> HIDE DEF ps
    <3> QED BY <1>5, <3>1 DEF ps, RefundStates
  <2> QED BY <2>2, <2>3
<1>6. CASE entered \notin RefundStates \cup {"PROVISIONAL_CREDIT_REVERSED"}
  <2>1. \/ ps = <<>>
        \/ \E kind \in {"RECOVERY", "WRITE_OFF"} : \E debit : ps = post(kind, debit, "SUSPENSE", outstanding)
    BY <1>6 DEF Postings, settlements, settle
  <2>2. CASE ps = <<>>
    BY <1>6, <2>2 DEF LedgerRows
  <2>3. ASSUME NEW kind \in {"RECOVERY", "WRITE_OFF"}, NEW debit, outstanding > 0,
               ps = post(kind, debit, "SUSPENSE", outstanding)
        PROVE  \E row \in LedgerRow : /\ LedgerRows(seq, ps) = <<row>> /\ row.seq = seq
                                      /\ row.amount > 0 /\ row.kind \in {"RECOVERY", "WRITE_OFF"}
    <3> DEFINE row == [seq |-> seq, kind |-> kind, amount |-> outstanding]
    <3>0. kind \in PostingKinds
      BY <2>3 DEF PostingKinds
    <3>1. row \in LedgerRow /\ LedgerRows(seq, ps) = <<row>>
      BY <1>2, <2>3, <3>0
    <3>2. row.seq = seq /\ row.kind = kind /\ row.amount = outstanding
      OBVIOUS
    <3> HIDE DEF row, ps
    <3> QED BY <2>3, <3>1, <3>2
  <2>4. ASSUME NEW kind \in {"RECOVERY", "WRITE_OFF"}, NEW debit, ~(outstanding > 0),
               ps = post(kind, debit, "SUSPENSE", outstanding)
        PROVE  ps = <<>> /\ LedgerRows(seq, ps) = <<>>
    BY <1>3, <2>4
  <2> HIDE DEF ps
  <2> QED BY <1>6, <2>1, <2>2, <2>3, <2>4 DEF ps
<1> QED BY <1>4, <1>5, <1>6

\* What a transition does to the ledger, on the committed rows.
LEMMA EnterFacts ==
  ASSUME TypeOK, state # "NONE", NEW e \in AllEvents, NEW n, NEW p, Enters(e, n, p)
  PROVE  /\ Rules[regime] \in RuleRows /\ state \in AllStates /\ n.state \in AllStates
         /\ p.liability \in Int /\ 0 =< p.liability /\ p.liability < disputed
         /\ disputed \in Nat /\ bal["SUSPENSE"] \in Int
         /\ \/ ledger' = ledger /\ n.state \notin RefundStates /\ bal' = bal
            \/ \E row \in LedgerRow :
                 /\ ledger' = Append(ledger, row) /\ row.seq = version + 1 /\ row.amount > 0
                 /\ Credited(n.state, row, p.liability) \/ Reversed(n.state, row) \/ Cleared(n.state, row)
<1>1. Exists
  BY DEF Exists
<1>2. /\ Rules[regime] \in RuleRows /\ state \in AllStates /\ appeals \in 0..Rules[regime].MaxAppeals
      /\ disputed \in Nat \ {0} /\ bal["SUSPENSE"] \in Int
  BY <1>1, ExistsType DEF Accounts
<1>3. n \in Apply(Rules[regime], state, appeals, e) /\ p \in Payloads
      /\ PayloadValid(Rules[regime], disputed, e, p)
  BY DEF Enters
<1>4. n.state \in AllStates
  BY <1>2, <1>3, ApplyStates
<1>5. p.liability \in Int /\ 0 =< p.liability /\ p.liability < disputed
  BY <1>2, <1>3, PayloadType
<1>6. version + 1 \in Nat /\ ledger \in Seq(LedgerRow)
  BY <1>1, LogType, LedgerType
<1> DEFINE ps == Postings(Rules[regime], n.state, disputed, p.liability, bal["SUSPENSE"],
                          ParseSettlement(Rules[regime], p.settlement))
<1>7. ledger' = ledger \o LedgerRows(version + 1, ps) /\ bal' = Book(bal, ps)
  BY DEF Enters
<1>8. \/ ps = <<>> /\ LedgerRows(version + 1, ps) = <<>> /\ n.state \notin RefundStates
      \/ \E row \in LedgerRow :
           /\ LedgerRows(version + 1, ps) = <<row>> /\ row.seq = version + 1 /\ row.amount > 0
           /\ Credited(n.state, row, p.liability) \/ Reversed(n.state, row) \/ Cleared(n.state, row)
  BY <1>2, <1>4, <1>5, <1>6, EnterRows DEF Credited, Reversed, Cleared
<1> HIDE DEF ps
<1>9. CASE ps = <<>> /\ LedgerRows(version + 1, ps) = <<>> /\ n.state \notin RefundStates
  <2>1. ledger' = ledger /\ bal' = bal
    BY <1>6, <1>7, <1>9 DEF Book
  <2> QED BY <1>2, <1>4, <1>5, <1>9, <2>1
<1>10. ASSUME NEW row \in LedgerRow, LedgerRows(version + 1, ps) = <<row>>
       PROVE  ledger' = Append(ledger, row)
  <2>1. ledger' = ledger \o <<row>>
    BY <1>7, <1>10
  <2> QED BY <1>6, <2>1
<1> QED BY <1>2, <1>4, <1>5, <1>8, <1>9, <1>10

\* A ledger that grows by a row keeps the rows it has.
LEMMA RowAdded ==
  ASSUME Exists, NEW row \in LedgerRow, ledger' = Append(ledger, row)
  PROVE  /\ Len(ledger) \in Nat /\ DOMAIN ledger = 1..Len(ledger)
         /\ DOMAIN ledger' = 1..(Len(ledger) + 1) /\ Len(ledger') = Len(ledger) + 1
         /\ \A i \in 1..Len(ledger) : ledger'[i] = ledger[i]
         /\ ledger'[Len(ledger) + 1] = row
BY LedgerType

LEMMA ReversalStep == ASSUME ReversalInv, [Next]_vars PROVE AdvanceIsLast' /\ ReversalReturnsTheCredit'
<1>1. ASSUME NEW r \in DOMAIN Rules, NEW amount \in Amounts, NEW book \in AddressBooks,
             NEW tm \in Teams, NEW tier \in RiskTiers, CreateDispute(r, amount, book, tm, tier)
      PROVE  AdvanceIsLast' /\ ReversalReturnsTheCredit'
  <2>1. Init
    BY <1>1 DEF ReversalInv, MoneyInv, TypeOK, CreateDispute, AllStates, RefundStates
  <2>2. bal'["SUSPENSE"] = 0 /\ ledger' = <<>>
    BY <1>1, <2>1 DEF Init, CreateDispute, Accounts
  <2> QED BY <2>2 DEF AdvanceIsLast, ReversalReturnsTheCredit
<1>2. ASSUME NEW e \in AllEvents, ApplyEvent(e) PROVE AdvanceIsLast' /\ ReversalReturnsTheCredit'
  <2>1. TypeOK /\ Exists /\ regime' = regime
    BY <1>2, ApplyEnters DEF ReversalInv, MoneyInv, Exists
  <2>2. PICK n, p : Enters(e, n, p)
    BY <1>2, ApplyEnters
  <2>3. /\ n \in Apply(Rules[regime], state, appeals, e) /\ state' = n.state
        /\ bal' = Book(bal, Postings(Rules[regime], n.state, disputed, p.liability, bal["SUSPENSE"],
                                     ParseSettlement(Rules[regime], p.settlement)))
        /\ PayloadValid(Rules[regime], disputed, e, p) /\ p \in Payloads
    BY <2>2 DEF Enters
  <2>4. /\ Rules[regime] \in RuleRows /\ state \in AllStates /\ n.state \in AllStates
        /\ p.liability \in Int /\ 0 =< p.liability /\ p.liability < disputed
        /\ disputed \in Nat /\ bal["SUSPENSE"] \in Int /\ appeals \in 0..Rules[regime].MaxAppeals
        /\ bal \in [Accounts -> Int] /\ disputed \in Nat \ {0}
    BY <2>1, <2>2, EnterFacts, ExistsType DEF Exists
  <2>5. ledger \in Seq(LedgerRow) /\ bal["SUSPENSE"] >= 0 /\ Conserved(bal)
    BY <2>1, <2>4, LedgerType DEF ReversalInv, MoneyInv, OneAdvance
  <2>6. CASE ledger' = ledger /\ bal' = bal
    <3>1. AdvanceIsLast'
      BY <2>1, <2>6 DEF ReversalInv, AdvanceIsLast
    <3>2. ReversalReturnsTheCredit'
      BY <2>6 DEF ReversalInv, ReversalReturnsTheCredit
    <3> QED BY <3>1, <3>2
  <2>7. ASSUME NEW row \in LedgerRow, ledger' = Append(ledger, row), row.amount > 0,
               Credited(n.state, row, p.liability) \/ Reversed(n.state, row) \/ Cleared(n.state, row)
        PROVE  AdvanceIsLast' /\ ReversalReturnsTheCredit'
    <3>1. /\ Len(ledger) \in Nat /\ DOMAIN ledger = 1..Len(ledger)
          /\ DOMAIN ledger' = 1..(Len(ledger) + 1) /\ Len(ledger') = Len(ledger) + 1
          /\ \A i \in 1..Len(ledger) : ledger'[i] = ledger[i]
          /\ ledger'[Len(ledger) + 1] = row
      BY <2>1, <2>7, RowAdded
    <3>k. ASSUME row.kind # "PROVISIONAL_CREDIT_REVERSAL" PROVE ReversalReturnsTheCredit'
      <4> SUFFICES ASSUME NEW i \in DOMAIN ledger', ledger'[i].kind = "PROVISIONAL_CREDIT_REVERSAL"
                   PROVE  /\ i > 1 /\ ledger'[i - 1].kind = "PROVISIONAL_CREDIT"
                          /\ ledger'[i - 1].amount = ledger'[i].amount
        BY DEF ReversalReturnsTheCredit
      <4>1. i \in 1..Len(ledger) /\ ledger'[i] = ledger[i]
        BY <3>1, <3>k
      <4>2. i > 1 /\ ledger[i - 1].kind = "PROVISIONAL_CREDIT" /\ ledger[i - 1].amount = ledger[i].amount
        BY <3>1, <4>1 DEF ReversalInv, ReversalReturnsTheCredit
      <4>3. ledger'[i - 1] = ledger[i - 1]
        BY <3>1, <4>1, <4>2
      <4> QED BY <4>1, <4>2, <4>3
    <3>2. ParseSettlement(Rules[regime], p.settlement) \in SuspenseSettlements
      BY <2>3, <2>4, PayloadType
    <3>3. /\ n.state \in RefundStates => bal'["SUSPENSE"] = bal["SUSPENSE"] + disputed - p.liability
          /\ n.state \in {"CHARGEBACK_WON", "PROVISIONAL_CREDIT_REVERSED", "CLOSED"} =>
               bal'["SUSPENSE"] = 0
          /\ n.state = "CHARGEBACK_LOST" /\ ~HasProvisionalCredit(Rules[regime]) =>
               bal'["SUSPENSE"] = 0
      <4> DEFINE r == Rules[regime]
                 how == ParseSettlement(Rules[regime], p.settlement)
      <4>1. /\ r \in RuleRows /\ how \in SuspenseSettlements /\ bal["SUSPENSE"] >= 0 /\ Conserved(bal)
            /\ bal' = Book(bal, Postings(r, n.state, disputed, p.liability, bal["SUSPENSE"], how))
        BY <2>3, <2>4, <2>5, <3>2
      <4> HIDE DEF r, how
      <4> QED BY <2>4, <4>1, EnterBooks DEF r
    <3>4. /\ n.state \in RefundStates => state \in Before
      BY <2>3, <2>4, ApplyStates
    <3>5. state \in Before => bal["SUSPENSE"] = 0
      BY <2>4, <2>5 DEF ReversalInv, MoneyInv, OneAdvance, Advanced, Before, RefundStates
    <3>6. CASE Credited(n.state, row, p.liability)
      <4>1. bal'["SUSPENSE"] = row.amount
        BY <2>4, <3>3, <3>4, <3>5, <3>6 DEF Credited
      <4>2. HasProvisionalCredit(Rules[regime]) => row.kind = "PROVISIONAL_CREDIT"
        <5>1. n.state = refundState(Rules[regime])
          BY <2>3, <3>6 DEF Credited, Apply, next, RefundStates
        <5> QED BY <3>6, <5>1 DEF Credited, HasProvisionalCredit, refundState, creditKind
      <4>3. row.kind # "PROVISIONAL_CREDIT_REVERSAL"
        BY <3>6 DEF Credited, creditKind
      <4>4. AdvanceIsLast'
        <5>1. ledger' # <<>>
          BY <3>1
        <5> QED BY <2>1, <3>1, <4>1, <4>2, <5>1 DEF AdvanceIsLast
      <4>5. ReversalReturnsTheCredit'
        BY <3>k, <4>3
      <4> QED BY <4>4, <4>5
    <3>7. CASE Cleared(n.state, row)
      <4>1. bal'["SUSPENSE"] = 0
        <5>1. \/ n.state \in {"CHARGEBACK_WON", "CLOSED"}
              \/ n.state = "CHARGEBACK_LOST" /\ ~HasProvisionalCredit(Rules[regime])
              \/ ledger' = ledger
          <6> DEFINE ps == Postings(Rules[regime], n.state, disputed, p.liability, bal["SUSPENSE"],
                                    ParseSettlement(Rules[regime], p.settlement))
          <6>1. \/ n.state \in {"CHARGEBACK_WON", "CLOSED"}
                \/ n.state = "CHARGEBACK_LOST" /\ ~HasProvisionalCredit(Rules[regime])
                \/ ps = <<>>
            BY <3>7 DEF Cleared, Postings, settlements
          <6>2. ledger' = ledger \o LedgerRows(version + 1, ps)
            BY <2>2 DEF Enters
          <6> HIDE DEF ps
          <6>3. ps = <<>> => ledger' = ledger
            BY <2>5, <6>2 DEF LedgerRows
          <6> QED BY <6>1, <6>3
        <5>2. ledger' # ledger
          BY <3>1
        <5> QED BY <3>3, <5>1, <5>2
      <4>2. row.kind # "PROVISIONAL_CREDIT_REVERSAL"
        BY <3>7 DEF Cleared
      <4>3. AdvanceIsLast'
        BY <4>1 DEF AdvanceIsLast
      <4>4. ReversalReturnsTheCredit'
        BY <3>k, <4>2
      <4> QED BY <4>3, <4>4
    <3>8. CASE Reversed(n.state, row)
      <4>1. bal'["SUSPENSE"] = 0
        BY <3>3, <3>8 DEF Reversed
      <4>2. HasProvisionalCredit(Rules[regime])
        BY <2>3, <3>8 DEF Reversed, Apply, next, RefundStates, refundState, HasProvisionalCredit
      <4>3. /\ ledger # <<>> /\ ledger[Len(ledger)].amount = row.amount
            /\ ledger[Len(ledger)].kind = "PROVISIONAL_CREDIT"
        BY <2>7, <3>8, <4>2 DEF Reversed, ReversalInv, AdvanceIsLast
      <4>4. Len(ledger) >= 1
        BY <2>5, <4>3
      <4>5. AdvanceIsLast'
        BY <4>1 DEF AdvanceIsLast
      <4>6. ReversalReturnsTheCredit'
        <5> SUFFICES ASSUME NEW i \in DOMAIN ledger', ledger'[i].kind = "PROVISIONAL_CREDIT_REVERSAL"
                     PROVE  /\ i > 1 /\ ledger'[i - 1].kind = "PROVISIONAL_CREDIT"
                            /\ ledger'[i - 1].amount = ledger'[i].amount
          BY DEF ReversalReturnsTheCredit
        <5>1. CASE i = Len(ledger) + 1
          <6>1. i > 1 /\ i - 1 = Len(ledger) /\ ledger'[i - 1] = ledger[Len(ledger)]
            BY <3>1, <4>4, <5>1
          <6> QED BY <3>1, <4>3, <5>1, <6>1
        <5>2. CASE i \in 1..Len(ledger)
          <6>1. ledger'[i] = ledger[i]
            BY <3>1, <5>2
          <6>2. i > 1 /\ ledger[i - 1].kind = "PROVISIONAL_CREDIT" /\ ledger[i - 1].amount = ledger[i].amount
            BY <3>1, <5>2, <6>1 DEF ReversalInv, ReversalReturnsTheCredit
          <6>3. ledger'[i - 1] = ledger[i - 1]
            BY <3>1, <5>2, <6>2
          <6> QED BY <6>1, <6>2, <6>3
        <5> QED BY <3>1, <5>1, <5>2
      <4> QED BY <4>5, <4>6
    <3> QED BY <2>7, <3>6, <3>7, <3>8
  <2> QED BY <2>1, <2>2, <2>6, <2>7, EnterFacts DEF Exists
<1>3. CASE UNCHANGED <<ledger, bal, regime>>
  BY <1>3 DEF ReversalInv, AdvanceIsLast, ReversalReturnsTheCredit
<1>4. ASSUME NEW tm \in Teams, Reassign(tm) PROVE UNCHANGED <<ledger, bal, regime>>
  BY <1>4 DEF Reassign
<1> QED BY <1>1, <1>2, <1>3, <1>4 DEF Next, vars

\* Taking a provisional credit back takes exactly the credit of the same cycle, however
\* many appeals went before: the advance outstanding is the last row of the ledger, and
\* the reversal is of what is outstanding.
THEOREM ReversalAlwaysReturnsTheCredit == Spec => []ReversalReturnsTheCredit
<1>1. Init => ReversalInv
  <2>1. Init => MoneyInv
    BY DEF Init, MoneyInv, TypeOK, OneAdvance, Conserved, Accounts
  <2>2. Init => AdvanceIsLast /\ ReversalReturnsTheCredit
    BY DEF Init, AdvanceIsLast, ReversalReturnsTheCredit, Accounts
  <2> QED BY <2>1, <2>2 DEF ReversalInv
<1>2. ReversalInv /\ [Next]_vars => ReversalInv'
  BY TypeStep, MoneyStep, ReversalStep DEF ReversalInv, MoneyInv
<1>3. ReversalInv => ReversalReturnsTheCredit
  BY DEF ReversalInv
<1> QED BY <1>1, <1>2, <1>3, PTL DEF Spec

-----------------------------------------------------------------------------
(* The customer is told *)

\* The notice a ledger row calls for, and the forms the regime wants it in.
NoticeOf(kind) ==
  CASE kind = "PROVISIONAL_CREDIT" -> "PROVISIONAL_CREDIT"
    [] kind \in {"FAST_REFUND", "NQA_REFUND"} -> "REFUND"
    [] kind = "PROVISIONAL_CREDIT_REVERSAL" -> "REVERSAL"
    [] OTHER -> "NONE"
Forms == IF Rules[regime].WrittenNotices THEN Channels ELSE {"EMAIL"}
Told(row) ==
  NoticeOf(row.kind) # "NONE" =>
    \A ch \in addresses \cap Forms :
      \E n \in notices : n.seq = row.seq /\ n.kind = NoticeOf(row.kind) /\ n.channel = ch

LEMMA ToldEach == CustomerIsTold <=> \A i \in DOMAIN ledger : Told(ledger[i])
BY DEF CustomerIsTold, Told, NoticeOf, Forms

\* Entering the state a row comes from composes the row's notice in every such form.
LEMMA EnterTells ==
  ASSUME TypeOK, state # "NONE", NEW e \in AllEvents, NEW n, NEW p, Enters(e, n, p),
         regime' = regime, addresses' = addresses, NEW row \in LedgerRow, row.seq = version + 1,
         Credited(n.state, row, p.liability) \/ Reversed(n.state, row) \/ Cleared(n.state, row)
  PROVE  Told(row)'
<1> SUFFICES ASSUME NoticeOf(row.kind) # "NONE", NEW ch \in addresses, ch \in Forms
             PROVE  \E m \in notices' : /\ m.seq = version + 1 /\ m.kind = NoticeOf(row.kind)
                                        /\ m.channel = ch
  BY DEF Told, Forms
<1> DEFINE k == NoticeOf(row.kind)
           r == Rules[regime]
           o == OutcomeOf(ledger', bal')
           m == [seq |-> version + 1, kind |-> k, channel |-> ch, outcome |-> IF k = "RESOLUTION" THEN o ELSE ""]
<1>1. k \in NoticesFor(n.state) /\ k # "QUESTIONNAIRE"
  BY DEF Credited, Reversed, Cleared, NoticeOf, NoticesFor, creditKind, RefundStates
<1>2. ch \in ChannelsFor(r, k)
  BY <1>1 DEF ChannelsFor, Forms, Channels
<1> HIDE DEF k, r, o
<1>3. m \in notify(r, addresses, n.state, version + 1, o)
  <2> DEFINE kc == <<k, ch>>
  <2>1. kc \in {x \in NoticesFor(n.state) \X addresses : x[2] \in ChannelsFor(r, x[1])}
    BY <1>1, <1>2
  <2>2. kc[1] = k /\ kc[2] = ch
    OBVIOUS
  <2> HIDE DEF kc
  <2> QED BY <2>1, <2>2 DEF notify
<1>4. m \in notices'
  BY <1>3 DEF Enters, r, o
<1>5. m.seq = version + 1 /\ m.kind = k /\ m.channel = ch
  OBVIOUS
<1> HIDE DEF m
<1> QED BY <1>4, <1>5 DEF k

LEMMA ToldStep == ASSUME TypeOK, CustomerIsTold, [Next]_vars PROVE CustomerIsTold'
<1>0. CustomerIsTold' <=> \A i \in DOMAIN ledger' : Told(ledger[i])'
  BY DEF CustomerIsTold, Told, NoticeOf, Forms
<1>1. ASSUME NEW r \in DOMAIN Rules, NEW amount \in Amounts, NEW book \in AddressBooks,
             NEW tm \in Teams, NEW tier \in RiskTiers, CreateDispute(r, amount, book, tm, tier)
      PROVE  CustomerIsTold'
  <2>1. ledger' = <<>>
    BY <1>1 DEF TypeOK, Init, CreateDispute, AllStates, RefundStates
  <2> QED BY <2>1 DEF CustomerIsTold
<1>2. ASSUME NEW e \in AllEvents, ApplyEvent(e) PROVE CustomerIsTold'
  <2>1. state # "NONE" /\ regime' = regime /\ addresses' = addresses /\ Exists
    BY <1>2, ApplyEnters DEF Exists
  <2>2. PICK n, p : Enters(e, n, p)
    BY <1>2, ApplyEnters
  <2>3. notices \subseteq notices'
    BY <2>2 DEF Enters
  <2>4. \A row : Told(row) => Told(row)'
    BY <2>1, <2>3 DEF Told, Forms
  <2>5. \A i \in DOMAIN ledger : Told(ledger[i])
    BY ToldEach
  <2>6. CASE ledger' = ledger
    <3> SUFFICES ASSUME NEW i \in DOMAIN ledger' PROVE Told(ledger[i])'
      BY <1>0
    <3>1. PICK x : x = ledger[i]
      OBVIOUS
    <3>2. Told(x)'
      BY <2>4, <2>5, <2>6, <3>1
    <3> QED BY <2>6, <3>1, <3>2 DEF Told
  <2>7. ASSUME NEW row \in LedgerRow, ledger' = Append(ledger, row), row.seq = version + 1,
               Credited(n.state, row, p.liability) \/ Reversed(n.state, row) \/ Cleared(n.state, row)
        PROVE  CustomerIsTold'
    <3>1. Told(row)'
      BY <2>1, <2>2, <2>7, EnterTells
    <3>2. /\ DOMAIN ledger = 1..Len(ledger) /\ Len(ledger) \in Nat
          /\ DOMAIN ledger' = 1..(Len(ledger) + 1)
          /\ \A i \in 1..Len(ledger) : ledger'[i] = ledger[i]
          /\ ledger'[Len(ledger) + 1] = row
      BY <2>1, <2>7, RowAdded
    <3>3. \A i \in DOMAIN ledger' : i \in DOMAIN ledger \/ i = Len(ledger) + 1
      BY <3>2
    <3> SUFFICES ASSUME NEW i \in DOMAIN ledger' PROVE Told(ledger[i])'
      BY <1>0
    <3>4. CASE i = Len(ledger) + 1
      <4>1. ledger'[i] = row
        BY <3>2, <3>4
      <4> QED BY <3>1, <4>1 DEF Told
    <3>5. CASE i \in DOMAIN ledger
      <4>1. ledger'[i] = ledger[i] /\ Told(ledger[i])
        BY <2>5, <3>2, <3>5
      <4>2. PICK x : x = ledger[i]
        OBVIOUS
      <4>3. Told(x)'
        BY <2>4, <4>1, <4>2
      <4> QED BY <4>1, <4>2, <4>3 DEF Told
    <3> QED BY <3>3, <3>4, <3>5
  <2> QED BY <2>1, <2>2, <2>6, <2>7, EnterFacts
<1>3. CASE UNCHANGED <<ledger, notices, addresses, regime>>
  BY <1>3 DEF CustomerIsTold
<1>4. ASSUME NEW tm \in Teams, Reassign(tm) PROVE UNCHANGED <<ledger, notices, addresses, regime>>
  BY <1>4 DEF Reassign
<1> QED BY <1>1, <1>2, <1>3, <1>4 DEF Next, vars

\* Every movement on the customer's account has its notice, in every form the regime
\* requires and an address allows, under the event that caused it: notify composes it in
\* the transaction that posts the movement.
THEOREM CustomerIsAlwaysTold == Spec => []CustomerIsTold
<1>1. Init => TypeOK /\ CustomerIsTold
  BY DEF Init, TypeOK, CustomerIsTold
<1>2. TypeOK /\ CustomerIsTold /\ [Next]_vars => (TypeOK /\ CustomerIsTold)'
  BY TypeStep, ToldStep
<1> QED BY <1>1, <1>2, PTL DEF Spec

-----------------------------------------------------------------------------
(* The refund clock.  That it tells the truth needs to know which states   *)
(* lie behind the refund (the final credit, which also settles the clock,  *)
(* finds it settled), that the log's last row is the dispute's state (a    *)
(* change of team repeats it, and is no second close), and that no ledger  *)
(* row is younger than the version.                                        *)

\* The states a dispute reaches, in a regime with a refund step, only by way of the refund.
Later == RefundStates \cup
  {"CHARGEBACK_FILED", "CHARGEBACK_ACKNOWLEDGED", "EVIDENCE_SUBMITTED", "CHARGEBACK_WON",
   "CHARGEBACK_LOST", "FINAL_CREDIT_ISSUED", "PROVISIONAL_CREDIT_REVERSED"}

\* Either the dispute has never been closed, or one row of the log is its first close.
Closes == {i \in DOMAIN log : FirstCloseSeq(i)}
CloseKnown == Closes = {} => \A i \in DOMAIN log : log[i].to # "CLOSED"

RefundInv ==
  /\ TypeOK /\ RefundClockTruthful /\ CloseKnown
  /\ state # "NONE" => log[Len(log)].to = state
  /\ \A i \in DOMAIN ledger : ledger[i].seq =< version
  /\ state \in Later /\ HasRefundStep(Rules[regime]) =>
       \A c \in clocks : c.kind = "REFUND" => c.status # "open"

Credits == {i \in DOMAIN ledger : /\ ledger[i].kind \in CreditKinds
                                  /\ \A s \in Closes : ledger[i].seq < s}
Truthful(c) ==
  c.kind = "REFUND" => /\ c.status = "met"  <=> Credits # {}
                       /\ c.status = "void" <=> Credits = {} /\ Closes # {}

LEMMA TruthfulEach == RefundClockTruthful <=> \A c \in clocks : Truthful(c)
BY DEF RefundClockTruthful, Truthful, Credits, Closes

\* A row added to the log is the first close, or leaves what the first close was.
LEMMA CloseAdded ==
  ASSUME Exists, CloseKnown, NEW row \in LogRows, log' = Append(log, row)
  PROVE  /\ Closes # {} => Closes' = Closes
         /\ Closes = {} => Closes' = IF row.to = "CLOSED" THEN {version + 1} ELSE {}
         /\ CloseKnown' /\ log'[Len(log')].to = row.to
         /\ \A s \in Closes : s \in 1..version
<1>1. version \in Nat /\ Len(log) = version /\ log \in Seq(LogRows)
  BY LogType
<1>2. /\ DOMAIN log = 1..version /\ DOMAIN log' = 1..(version + 1) /\ Len(log') = version + 1
      /\ \A i \in 1..version : log'[i] = log[i]
      /\ log'[version + 1] = row
  BY <1>1
<1>3. \A i \in 1..version : FirstCloseSeq(i)' <=> FirstCloseSeq(i)
  <2> SUFFICES ASSUME NEW i \in 1..version PROVE FirstCloseSeq(i)' <=> FirstCloseSeq(i)
    OBVIOUS
  <2>1. \A j \in 1..(i - 1) : j \in 1..version
    BY <1>1
  <2> QED BY <1>2, <2>1 DEF FirstCloseSeq
<1>m. PICK m : m = version + 1
  OBVIOUS
<1>4. FirstCloseSeq(m)' <=> row.to = "CLOSED" /\ \A j \in 1..version : log[j].to # "CLOSED"
  <2>1. m - 1 = version /\ log'[m] = row
    BY <1>1, <1>2, <1>m
  <2> QED BY <1>2, <2>1 DEF FirstCloseSeq
<1>5. Closes # {} => \E j \in 1..version : log[j].to = "CLOSED"
  BY <1>2 DEF Closes, FirstCloseSeq
<1>6. Closes = {} => \A j \in 1..version : log[j].to # "CLOSED"
  BY <1>2 DEF CloseKnown
<1>7. \A i : i \in Closes' <=> (i \in Closes \/ (i = m /\ FirstCloseSeq(m)'))
  <2>1. \A i : i \in DOMAIN log' <=> i \in DOMAIN log \/ i = m
    BY <1>1, <1>2, <1>m
  <2>2. m \notin DOMAIN log
    BY <1>1, <1>2, <1>m
  <2> QED BY <1>2, <1>3, <2>1, <2>2 DEF Closes
<1>8. Closes # {} => Closes' = Closes
  BY <1>4, <1>5, <1>7
<1>9. Closes = {} => Closes' = IF row.to = "CLOSED" THEN {version + 1} ELSE {}
  BY <1>4, <1>6, <1>7, <1>m
<1>10. CloseKnown'
  <2> SUFFICES ASSUME Closes' = {} PROVE \A i \in DOMAIN log' : log'[i].to # "CLOSED"
    BY DEF CloseKnown
  <2>1. Closes = {} /\ row.to # "CLOSED"
    BY <1>8, <1>9
  <2> QED BY <1>1, <1>2, <1>6, <2>1
<1> QED BY <1>2, <1>8, <1>9, <1>10 DEF Closes

\* What settling makes of a refund clock.
LEMMA SettledRefund ==
  ASSUME NEW c \in Deadlines, c.kind = "REFUND", NEW entered
  PROVE  /\ c.status # "open" => Settled(c, entered) = c
         /\ c.status = "open" =>
              Settled(c, entered).status =
                IF entered \in RefundStates \cup {"FINAL_CREDIT_ISSUED"} THEN "met"
                ELSE IF entered = "CLOSED" THEN "void" ELSE "open"
BY DEF Deadlines, Settled, Settle, RefundStates

\* Every refund clock after a transition is one that was there, settled.
LEMMA RefundClocks ==
  ASSUME NEW r, NEW cs \in SUBSET Deadlines, NEW entered, NEW appealed, NEW cycle,
         NEW d \in settleDeadlines(r, cs, entered, appealed, cycle), d.kind = "REFUND"
  PROVE  \E c \in cs : c.kind = "REFUND" /\ d = Settled(c, entered)
<1>1. d \notin AppealDeadlines(r, cycle)
  BY DEF AppealDeadlines
<1>2. PICK c \in cs : d = Settled(c, entered)
  BY <1>1 DEF settleDeadlines, Settled
<1>3. c.kind = d.kind
  BY <1>2, SettledClock
<1> QED BY <1>2, <1>3

\* The states behind the refund are entered from the refund or from each other.
LEMMA ApplyLater ==
  ASSUME NEW r \in RuleRows, HasRefundStep(r), NEW from, NEW used, NEW e,
         NEW n \in Apply(r, from, used, e), n.state \in Later \ RefundStates
  PROVE  from \in Later
<1>1. CASE e = "APPEAL"
  BY <1>1 DEF Apply, Later, RefundStates
<1>2. CASE e # "APPEAL"
  <2>1. PICK to \in next(r, from, e) : n = [state |-> to, appeals |-> used]
    BY <1>2 DEF Apply
  <2>2. to \in Later \ RefundStates
    BY <2>1
  <2> QED BY <2>1, <2>2 DEF next, Later, RefundStates, HasRefundStep, Contested, refundState
<1> QED BY <1>1, <1>2

\* Where a refund clock may still be open, no credit has been given and nothing closed.
LEMMA RefundStep == ASSUME RefundInv, TypeOK', [Next]_vars PROVE RefundInv'
<1>0. /\ RefundClockTruthful <=> \A c \in clocks : Truthful(c)
      /\ RefundClockTruthful' <=> \A c \in clocks' : Truthful(c)'
  BY DEF RefundClockTruthful, Truthful, Credits, Closes
<1>1. ASSUME NEW r \in DOMAIN Rules, NEW amount \in Amounts, NEW book \in AddressBooks,
             NEW tm \in Teams, NEW tier \in RiskTiers, CreateDispute(r, amount, book, tm, tier)
      PROVE  RefundInv'
  <2>1. Init
    BY <1>1 DEF RefundInv, TypeOK, CreateDispute, AllStates, RefundStates
  <2>2. /\ state' = "INITIATED" /\ ledger' = <<>> /\ version' = 1
        /\ clocks' = acknowledge(OpeningDeadlines(Rules[r]))
    BY <1>1, <2>1 DEF Init, CreateDispute
  <2> DEFINE x == [event |-> "OPENED", from |-> "NONE", to |-> "INITIATED"]
  <2>3. x.to = "INITIATED"
    OBVIOUS
  <2>4. log' = <<x>>
    BY <1>1 DEF CreateDispute
  <2> HIDE DEF x
  <2>5. DOMAIN log' = 1..1 /\ Len(log') = 1 /\ log'[1] = x
    BY <2>4
  <2>6. \A i \in DOMAIN log' : log'[i].to # "CLOSED"
    BY <2>3, <2>5
  <2>7. Closes' = {} /\ CloseKnown'
    BY <2>6 DEF Closes, CloseKnown, FirstCloseSeq
  <2>8. Credits' = {}
    BY <2>2 DEF Credits
  <2>9. \A c \in clocks' : c.kind = "REFUND" => c.status = "open"
    BY <2>2 DEF acknowledge, OpeningDeadlines
  <2>10. RefundClockTruthful'
    BY <1>0, <2>7, <2>8, <2>9 DEF Truthful
  <2>11. state' \notin Later /\ (\A i \in DOMAIN ledger : ledger[i].seq =< version)'
    BY <2>2 DEF Later, RefundStates
  <2> QED BY <2>2, <2>3, <2>5, <2>7, <2>10, <2>11 DEF RefundInv
<1>2. ASSUME NEW e \in AllEvents, ApplyEvent(e) PROVE RefundInv'
  <2>1. state # "NONE" /\ regime' = regime /\ Exists /\ TypeOK
    BY <1>2, ApplyEnters DEF Exists, RefundInv
  <2>2. PICK n, p : Enters(e, n, p)
    BY <1>2, ApplyEnters
  <2>3. /\ n \in Apply(Rules[regime], state, appeals, e) /\ state' = n.state
        /\ version' = version + 1 /\ log' = Append(log, [event |-> e, from |-> state, to |-> n.state])
        /\ clocks' = settleDeadlines(Rules[regime], clocks, n.state, n.appeals > appeals, n.appeals)
    BY <2>2 DEF Enters
  <2>4. Rules[regime] \in RuleRows /\ state \in AllStates /\ n.state \in AllStates
    BY <2>1, <2>2, EnterFacts
  <2>5. clocks \in SUBSET Deadlines /\ version \in Nat
    BY <2>1, ExistsType, LogType
  <2> DEFINE x == [event |-> e, from |-> state, to |-> n.state]
  <2>6. x \in LogRows /\ x.to = n.state
    BY <2>4 DEF LogRows
  <2> HIDE DEF x
  <2>7. /\ Closes # {} => Closes' = Closes
        /\ Closes = {} => Closes' = IF n.state = "CLOSED" THEN {version + 1} ELSE {}
        /\ CloseKnown' /\ log'[Len(log')].to = n.state
        /\ \A s \in Closes : s \in 1..version
    BY <2>1, <2>3, <2>6, CloseAdded DEF RefundInv, x
  <2>8. /\ \A i \in DOMAIN ledger : ledger[i].seq =< version
        /\ \A c \in clocks : Truthful(c)
        /\ state \in Later /\ HasRefundStep(Rules[regime]) =>
             \A c \in clocks : c.kind = "REFUND" => c.status # "open"
    BY <1>0 DEF RefundInv
  <2>9. \A d \in clocks' : d.kind = "REFUND" => \E c \in clocks : c.kind = "REFUND" /\ d = Settled(c, n.state)
    BY <2>3, <2>5, RefundClocks
  <2>10. /\ (\A i \in DOMAIN ledger : ledger[i].seq =< version)'
         /\ \A i \in DOMAIN ledger : i \in DOMAIN ledger' /\ ledger'[i] = ledger[i]
         /\ \A i \in DOMAIN ledger' : \/ i \in DOMAIN ledger
                                      \/ /\ ledger'[i].seq = version + 1
                                         /\ ledger'[i].kind \in CreditKinds <=> n.state \in RefundStates
         /\ n.state \in RefundStates => \E i \in DOMAIN ledger' : ledger'[i].kind \in CreditKinds
    <3>1. ledger \in Seq(LedgerRow)
      BY <2>1, LedgerType
    <3>2. \A i \in DOMAIN ledger : ledger[i].seq \in Nat
      BY <2>1, SeqOfRow
    <3>3. CASE ledger' = ledger /\ n.state \notin RefundStates
      BY <2>3, <2>5, <2>8, <3>2, <3>3
    <3>4. ASSUME NEW row \in LedgerRow, ledger' = Append(ledger, row), row.seq = version + 1,
                 Credited(n.state, row, p.liability) \/ Reversed(n.state, row) \/ Cleared(n.state, row)
          PROVE  /\ \A i \in DOMAIN ledger' : ledger'[i].seq =< version'
                 /\ \A i \in DOMAIN ledger : i \in DOMAIN ledger' /\ ledger'[i] = ledger[i]
                 /\ \A i \in DOMAIN ledger' :
                      \/ i \in DOMAIN ledger
                      \/ /\ ledger'[i].seq = version + 1
                         /\ ledger'[i].kind \in CreditKinds <=> n.state \in RefundStates
                 /\ n.state \in RefundStates => \E i \in DOMAIN ledger' : ledger'[i].kind \in CreditKinds
      <4>1. /\ DOMAIN ledger = 1..Len(ledger) /\ Len(ledger) \in Nat
            /\ DOMAIN ledger' = 1..(Len(ledger) + 1)
            /\ \A i \in 1..Len(ledger) : ledger'[i] = ledger[i]
            /\ ledger'[Len(ledger) + 1] = row
        BY <2>1, <3>4, RowAdded
      <4>2. row.kind \in CreditKinds <=> n.state \in RefundStates
        BY <3>4 DEF Credited, Reversed, Cleared, creditKind, CreditKinds, RefundStates
      <4>3. \A i \in DOMAIN ledger' : i \in DOMAIN ledger \/ ledger'[i] = row
        BY <4>1
      <4>4. \A i \in DOMAIN ledger : i \in DOMAIN ledger' /\ ledger'[i] = ledger[i]
        BY <4>1
      <4>5. \A i \in DOMAIN ledger' : ledger'[i].seq =< version'
        BY <2>3, <2>5, <2>8, <3>2, <3>4, <4>3, <4>4
      <4>6. \E i \in DOMAIN ledger' : ledger'[i] = row
        BY <4>1
      <4> QED BY <3>4, <4>2, <4>3, <4>4, <4>5, <4>6
    <3> QED BY <2>1, <2>2, <3>3, <3>4, EnterFacts
  <2>11. Credits = {} /\ Closes = {} => (Credits' # {} <=> n.state \in RefundStates)
    <3> SUFFICES ASSUME Credits = {}, Closes = {} PROVE Credits' # {} <=> n.state \in RefundStates
      OBVIOUS
    <3>1. \A i \in DOMAIN ledger : ledger[i].kind \notin CreditKinds
      BY DEF Credits
    <3>2. CASE n.state \in RefundStates
      <4>1. Closes' = {}
        BY <2>7, <3>2 DEF RefundStates
      <4> QED BY <2>10, <3>2, <4>1 DEF Credits
    <3>3. CASE n.state \notin RefundStates
      <4>1. \A i \in DOMAIN ledger' : ledger'[i].kind \notin CreditKinds
        BY <2>10, <3>1, <3>3
      <4> QED BY <3>3, <4>1 DEF Credits
    <3> QED BY <3>2, <3>3
  <2>12. Credits # {} => Credits' # {}
    <3> SUFFICES ASSUME NEW i \in Credits PROVE i \in Credits'
      OBVIOUS
    <3>1. i \in DOMAIN ledger /\ ledger[i].kind \in CreditKinds /\ \A s \in Closes : ledger[i].seq < s
      BY DEF Credits
    <3>2. i \in DOMAIN ledger' /\ ledger'[i] = ledger[i] /\ ledger[i].seq < version + 1
      <4>2. ledger[i].seq \in Nat
        BY <2>1, <3>1, SeqOfRow
      <4> QED BY <2>5, <2>8, <2>10, <3>1, <4>2
    <3>3. \A s \in Closes' : ledger[i].seq < s
      BY <2>7, <3>1, <3>2
    <3> QED BY <3>1, <3>2, <3>3 DEF Credits
  <2>13. Credits = {} /\ Closes # {} => Credits' = {}
    <3> SUFFICES ASSUME Credits = {}, Closes # {}, NEW i \in Credits' PROVE FALSE
      OBVIOUS
    <3>1. /\ i \in DOMAIN ledger' /\ ledger'[i].kind \in CreditKinds
          /\ \A s \in Closes : ledger'[i].seq < s
      BY <2>7 DEF Credits
    <3>2. CASE i \in DOMAIN ledger
      <4>1. ledger'[i] = ledger[i]
        BY <2>10, <3>2
      <4>2. i \in Credits
        BY <3>1, <3>2, <4>1 DEF Credits
      <4> QED BY <4>2
    <3>3. CASE ledger'[i].seq = version + 1
      <4>1. PICK s \in Closes : s \in 1..version
        BY <2>7
      <4>2. version + 1 < s
        BY <3>1, <3>3
      <4> QED BY <2>5, <4>1, <4>2
    <3> QED BY <2>10, <3>1, <3>2, <3>3
  <2>14. RefundClockTruthful'
    <3> SUFFICES ASSUME NEW d \in clocks', d.kind = "REFUND"
                 PROVE  /\ d.status = "met"  <=> Credits' # {}
                        /\ d.status = "void" <=> Credits' = {} /\ Closes' # {}
      BY <1>0 DEF Truthful
    <3>1. PICK c \in clocks : c.kind = "REFUND" /\ d = Settled(c, n.state)
      BY <2>9
    <3>2. /\ c.status = "met"  <=> Credits # {}
          /\ c.status = "void" <=> Credits = {} /\ Closes # {}
      BY <2>8, <3>1 DEF Truthful
    <3>3. c \in Deadlines /\ c.status \in {"open", "met", "void"}
      BY <2>5 DEF Deadlines
    <3>4. CASE c.status = "open"
      <4>1. Credits = {} /\ Closes = {}
        BY <3>2, <3>4
      <4>2. n.state # "FINAL_CREDIT_ISSUED"
        <5> SUFFICES ASSUME n.state = "FINAL_CREDIT_ISSUED" PROVE FALSE
          OBVIOUS
        <5>1. state = "CHARGEBACK_WON" /\ HasProvisionalCredit(Rules[regime])
          BY <2>3 DEF Apply, next, RefundStates, refundState
        <5>2. state \in Later /\ HasRefundStep(Rules[regime])
          BY <5>1 DEF Later, HasRefundStep, HasProvisionalCredit
        <5> QED BY <2>8, <3>1, <3>4, <5>2
      <4>3. d.status = IF n.state \in RefundStates THEN "met" ELSE IF n.state = "CLOSED" THEN "void" ELSE "open"
        BY <3>1, <3>3, <3>4, <4>2, SettledRefund
      <4>4. Credits' # {} <=> n.state \in RefundStates
        BY <2>11, <4>1
      <4>5. Closes' # {} <=> n.state = "CLOSED"
        BY <2>7, <4>1
      <4>6. ~(n.state \in RefundStates /\ n.state = "CLOSED")
        BY DEF RefundStates
      <4> QED BY <4>3, <4>4, <4>5, <4>6
    <3>5. CASE c.status = "met"
      <4>1. d = c
        BY <3>1, <3>3, <3>5, SettledRefund
      <4> QED BY <2>12, <3>2, <3>5, <4>1
    <3>6. CASE c.status = "void"
      <4>1. d = c
        BY <3>1, <3>3, <3>6, SettledRefund
      <4>2. Credits' = {} /\ Closes' # {}
        BY <2>7, <2>13, <3>2, <3>6
      <4> QED BY <3>6, <4>1, <4>2
    <3> QED BY <3>3, <3>4, <3>5, <3>6
  <2>15. n.state \in Later /\ HasRefundStep(Rules[regime]) =>
           \A d \in clocks' : d.kind = "REFUND" => d.status # "open"
    <3> SUFFICES ASSUME n.state \in Later, HasRefundStep(Rules[regime]), NEW d \in clocks',
                        d.kind = "REFUND"
                 PROVE  d.status # "open"
      OBVIOUS
    <3>1. PICK c \in clocks : c.kind = "REFUND" /\ d = Settled(c, n.state)
      BY <2>9
    <3>2. c \in Deadlines
      BY <2>5
    <3>3. CASE c.status # "open"
      BY <3>1, <3>2, <3>3, SettledRefund
    <3>4. CASE c.status = "open"
      <4>1. n.state \in RefundStates
        BY <2>3, <2>4, <2>8, <3>1, <3>4, ApplyLater
      <4> QED BY <3>1, <3>2, <3>4, <4>1, SettledRefund
    <3> QED BY <3>3, <3>4
  <2> QED BY <2>1, <2>3, <2>7, <2>10, <2>14, <2>15 DEF RefundInv
<1>3. ASSUME NEW tm \in Teams, Reassign(tm) PROVE RefundInv'
  <2>1. Exists /\ version \in Nat /\ Len(log) = version /\ log \in Seq(LogRows) /\ version > 0
    BY <1>3, LogType DEF Reassign, Exists, RefundInv
  <2> DEFINE x == [event |-> "REASSIGNED", from |-> state, to |-> state]
  <2>2. x \in LogRows /\ x.to = state
    BY <2>1, ExistsType DEF LogRows
  <2>3. /\ log' = Append(log, x) /\ version' = version + 1
        /\ UNCHANGED <<regime, state, ledger, clocks>>
    BY <1>3 DEF Reassign
  <2> HIDE DEF x
  <2>4. /\ Closes # {} => Closes' = Closes
        /\ Closes = {} => Closes' = IF state = "CLOSED" THEN {version + 1} ELSE {}
        /\ CloseKnown' /\ log'[Len(log')].to = state
    BY <2>1, <2>2, <2>3, CloseAdded DEF RefundInv
  <2>5. Closes = {} => state # "CLOSED"
    <3>1. Len(log) \in DOMAIN log /\ log[Len(log)].to = state
      BY <1>3, <2>1 DEF RefundInv, Reassign
    <3> QED BY <3>1 DEF RefundInv, CloseKnown
  <2>6. Closes' = Closes
    BY <2>4, <2>5
  <2>7. Credits' = Credits
    BY <2>3, <2>6 DEF Credits
  <2>8. RefundClockTruthful'
    <3>1. \A c \in clocks : Truthful(c)
      BY <1>0 DEF RefundInv
    <3> QED BY <1>0, <2>3, <2>6, <2>7, <3>1 DEF Truthful
  <2>9. (\A i \in DOMAIN ledger : ledger[i].seq =< version)'
    <3>1. \A i \in DOMAIN ledger : ledger[i].seq \in Nat
      BY <2>1, SeqOfRow
    <3>2. \A i \in DOMAIN ledger : ledger[i].seq \in Nat /\ ledger[i].seq =< version
      BY <1>0, <3>1 DEF RefundInv
    <3> QED BY <2>1, <2>3, <3>2
  <2> QED BY <2>3, <2>4, <2>8, <2>9 DEF RefundInv
<1>4. CASE UNCHANGED vars
  <2>1. UNCHANGED <<regime, state, version, log, ledger, clocks>>
    BY <1>4 DEF vars
  <2> QED BY <2>1 DEF RefundInv, RefundClockTruthful, CloseKnown, Closes, FirstCloseSeq
<1> QED BY <1>1, <1>2, <1>3, <1>4 DEF Next

\* The refund clock tells the truth about the opening cycle: met exactly when a credit
\* went out before the first close, void exactly when the dispute closed without one.
\* Later credits, after an appeal, change nothing, and neither does a change of team on
\* a closed dispute, which writes its state into the log again.
THEOREM RefundClockIsTruthful == Spec => []RefundClockTruthful
<1>1. Init => RefundInv
  BY DEF Init, RefundInv, TypeOK, RefundClockTruthful, CloseKnown, Later, RefundStates
<1>2. RefundInv /\ [Next]_vars => RefundInv'
  <2>1. RefundInv => TypeOK
    BY DEF RefundInv
  <2> QED BY <2>1, TypeStep, RefundStep
<1>3. RefundInv => RefundClockTruthful
  BY DEF RefundInv
<1> QED BY <1>1, <1>2, <1>3, PTL DEF Spec
=============================================================================
