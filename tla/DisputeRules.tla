---------------------------- MODULE DisputeRules ----------------------------
(***************************************************************************)
(* The dispute domain as pure operators: what a regime contributes to the  *)
(* state machine, which event leads where, what entering a state does to   *)
(* the ledger, to the regulatory clocks and to the customer's mailbox.     *)
(* Translated from backend/internal/dispute/domain.  Money is in minor     *)
(* units; a decimal with more places than two behaves the same, since the  *)
(* code only adds, subtracts and compares.                                 *)
(***************************************************************************)
EXTENDS Integers, Sequences

-----------------------------------------------------------------------------
(* Vocabulary *)

Regimes == {"EU_SEPA_DIRECT_DEBIT", "EU_PSD2_CARD", "US_REG_E", "US_REG_Z"}

RefundPaths == {"NONE", "PROVISIONAL_CREDIT", "FAST_REFUND", "NQA_REFUND"}

RefundStates ==
  {"PROVISIONAL_CREDIT_ISSUED", "FAST_REFUND_ISSUED", "SEPA_NQA_REFUND_ISSUED"}

AllStates ==
  {"INITIATED", "INVESTIGATING", "QUESTIONNAIRE_SENT", "QUESTIONNAIRE_RECEIVED"}
    \cup RefundStates \cup
  {"CHARGEBACK_FILED", "CHARGEBACK_ACKNOWLEDGED", "EVIDENCE_SUBMITTED",
   "CHARGEBACK_WON", "CHARGEBACK_LOST", "FINAL_CREDIT_ISSUED",
   "PROVISIONAL_CREDIT_REVERSED", "CLOSED"}

AllEvents ==
  {"OPEN_INVESTIGATION", "SEND_QUESTIONNAIRE", "RECEIVE_QUESTIONNAIRE",
   "ISSUE_REFUND", "FILE_CHARGEBACK", "ACKNOWLEDGE_CHARGEBACK",
   "SUBMIT_EVIDENCE", "WIN_CHARGEBACK", "LOSE_CHARGEBACK",
   "ISSUE_FINAL_CREDIT", "REVERSE_PROVISIONAL_CREDIT", "CLOSE", "APPEAL"}

DeadlineKinds == {"REFUND", "ACKNOWLEDGE", "RESOLUTION"}

SuspenseSettlements == {"RECOVERED", "WRITTEN_OFF"}

Accounts == {"CUSTOMER", "SUSPENSE", "RECOVERY", "LOSS"}

CreditKinds == {"PROVISIONAL_CREDIT", "FAST_REFUND", "NQA_REFUND"}

PostingKinds ==
  CreditKinds \cup {"PROVISIONAL_CREDIT_REVERSAL", "RECOVERY", "WRITE_OFF"}

RiskTiers == {"LOW", "MEDIUM", "HIGH"}

Channels == {"EMAIL", "LETTER"}

NoticeKinds == {"ACKNOWLEDGEMENT", "QUESTIONNAIRE", "PROVISIONAL_CREDIT",
                "REFUND", "REVERSAL", "RESOLUTION"}

Outcomes == {"CREDITED", "DENIED", "REVERSED", "RECOVERED"}

-----------------------------------------------------------------------------
(* Regimes: the rules table.  A row carries the properties the state       *)
(* machine gates on; the citations and the day counts are left out.        *)

RuleRows ==
  [Refund : RefundPaths, Clocks : SUBSET DeadlineKinds,
   HasAdjudication : BOOLEAN, MerchantMayContest : BOOLEAN,
   LiabilityCapMinor : Nat, MaxAppeals : Nat,
   CloseSettlement : SuspenseSettlements, WrittenNotices : BOOLEAN]

RuleRow(refund, clocks, adjudication, contest, cap, settlement, written) ==
  [Refund |-> refund, Clocks |-> clocks, HasAdjudication |-> adjudication,
   MerchantMayContest |-> contest, LiabilityCapMinor |-> cap, MaxAppeals |-> 1,
   CloseSettlement |-> settlement, WrittenNotices |-> written]

rules ==
  [r \in Regimes |->
    CASE r = "EU_SEPA_DIRECT_DEBIT" ->
           RuleRow("NQA_REFUND", {"REFUND", "RESOLUTION"}, FALSE, FALSE, 0,
                   "RECOVERED", FALSE)
      [] r = "EU_PSD2_CARD" ->
           RuleRow("FAST_REFUND", {"REFUND", "RESOLUTION"}, TRUE, TRUE, 5000,
                   "WRITTEN_OFF", FALSE)
      [] r = "US_REG_E" ->
           RuleRow("PROVISIONAL_CREDIT", {"REFUND", "RESOLUTION"}, TRUE, TRUE,
                   5000, "WRITTEN_OFF", TRUE)
      [] r = "US_REG_Z" ->
           RuleRow("NONE", {"ACKNOWLEDGE", "RESOLUTION"}, TRUE, TRUE, 0,
                   "WRITTEN_OFF", TRUE)]

HasProvisionalCredit(r) == r.Refund = "PROVISIONAL_CREDIT"

HasRefundStep(r) == r.Refund # "NONE"

refundState(r) ==
  CASE r.Refund = "PROVISIONAL_CREDIT" -> "PROVISIONAL_CREDIT_ISSUED"
    [] r.Refund = "FAST_REFUND"        -> "FAST_REFUND_ISSUED"
    [] r.Refund = "NQA_REFUND"         -> "SEPA_NQA_REFUND_ISSUED"
    [] OTHER                           -> "NONE"

-----------------------------------------------------------------------------
(* The state machine.  next(r, from, e) is the set of states event e may   *)
(* lead to: one state, or none when the machine refuses.                   *)

Undecided == {"INVESTIGATING", "QUESTIONNAIRE_RECEIVED"}
Contested == {"CHARGEBACK_ACKNOWLEDGED", "EVIDENCE_SUBMITTED"}

\* The states a dispute may be closed from.
closing(r, from) ==
  \/ from \in Undecided \cup RefundStates \cup {"QUESTIONNAIRE_SENT"}
  \/ from \in {"CHARGEBACK_WON", "CHARGEBACK_LOST"} /\ ~HasProvisionalCredit(r)
  \/ from \in {"FINAL_CREDIT_ISSUED", "PROVISIONAL_CREDIT_REVERSED"}

next(r, from, e) == {to \in AllStates :
  \/ e = "OPEN_INVESTIGATION" /\ from = "INITIATED" /\ to = "INVESTIGATING"
  \/ e = "SEND_QUESTIONNAIRE" /\ from = "INVESTIGATING" /\ to = "QUESTIONNAIRE_SENT"
  \/ e = "RECEIVE_QUESTIONNAIRE" /\ from = "QUESTIONNAIRE_SENT" /\ to = "QUESTIONNAIRE_RECEIVED"
  \/ /\ e = "ISSUE_REFUND" /\ to = refundState(r)
     /\ \/ from = "INITIATED" /\ r.Refund = "NQA_REFUND"
        \/ from \in Undecided /\ HasRefundStep(r)
  \/ /\ e = "FILE_CHARGEBACK" /\ to = "CHARGEBACK_FILED" /\ r.HasAdjudication
     /\ from \in RefundStates \/ (from \in Undecided /\ ~HasRefundStep(r))
  \/ e = "ACKNOWLEDGE_CHARGEBACK" /\ from = "CHARGEBACK_FILED" /\ to = "CHARGEBACK_ACKNOWLEDGED"
  \/ /\ e = "SUBMIT_EVIDENCE" /\ from = "CHARGEBACK_ACKNOWLEDGED" /\ to = "EVIDENCE_SUBMITTED"
     /\ r.MerchantMayContest
  \/ e = "WIN_CHARGEBACK" /\ from \in Contested /\ to = "CHARGEBACK_WON"
  \/ e = "LOSE_CHARGEBACK" /\ from \in Contested /\ to = "CHARGEBACK_LOST"
  \/ /\ e = "ISSUE_FINAL_CREDIT" /\ from = "CHARGEBACK_WON" /\ to = "FINAL_CREDIT_ISSUED"
     /\ HasProvisionalCredit(r)
  \/ /\ e = "REVERSE_PROVISIONAL_CREDIT" /\ from = "CHARGEBACK_LOST"
     /\ to = "PROVISIONAL_CREDIT_REVERSED" /\ HasProvisionalCredit(r)
  \/ e = "CLOSE" /\ closing(r, from) /\ to = "CLOSED"}

\* Fault: an appeal the cap does not stop.
Apply_AppealUncapped(r, state, appeals, e) ==
  IF e = "APPEAL"
    THEN IF state = "CLOSED" THEN {[state |-> "INVESTIGATING", appeals |-> appeals + 1]} ELSE {}
    ELSE {[state |-> to, appeals |-> appeals] : to \in next(r, state, e)}

\* Apply: what event e makes of a dispute in a state with some appeals used,
\* as a set of [state, appeals] with at most one member.
Apply(r, state, appeals, e) ==
  IF e = "APPEAL"
    THEN IF state = "CLOSED" /\ appeals < r.MaxAppeals
           THEN {[state |-> "INVESTIGATING", appeals |-> appeals + 1]}
           ELSE {}
    ELSE {[state |-> to, appeals |-> appeals] : to \in next(r, state, e)}

Allowed(r, state, appeals) == {e \in AllEvents : Apply(r, state, appeals, e) # {}}
-----------------------------------------------------------------------------
(* The ledger.  At most one posting follows from entering a state, so the  *)
(* slice the code returns is the empty sequence or a sequence of one.      *)

\* An absent liability is the zero the code starts from, and zero is always
\* accepted, so the payload's liability is an integer.
LiabilityAllowed(r, disputed, liability) ==
  /\ liability >= 0
  /\ liability =< r.LiabilityCapMinor
  /\ ~(liability >= disputed /\ disputed > 0)

SettlementAllowed(raw) == raw \in SuspenseSettlements \cup {""}

ParseSettlement(r, raw) == IF raw = "" THEN r.CloseSettlement ELSE raw

post(kind, debit, credit, amount) ==
  IF amount > 0
    THEN <<[kind |-> kind, debit |-> debit, credit |-> credit, amount |-> amount]>>
    ELSE <<>>

settle(how, outstanding) ==
  IF how = "RECOVERED"
    THEN post("RECOVERY", "RECOVERY", "SUSPENSE", outstanding)
    ELSE post("WRITE_OFF", "LOSS", "SUSPENSE", outstanding)

\* Faults: the bank's books settled only when the dispute closes;
\* a reversal that takes the claim instead of what was advanced.
settlements_OnlyOnClose(r, entered, outstanding, settlement) ==
  IF entered = "CLOSED" THEN settle(settlement, outstanding) ELSE <<>>

reversal_OfClaim(disputed, outstanding) ==
  post("PROVISIONAL_CREDIT_REVERSAL", "CUSTOMER", "SUSPENSE", disputed)

\* What clears suspense when an outcome is known, and on any close.
settlements(r, entered, outstanding, settlement) ==
  CASE entered = "CHARGEBACK_WON" -> settle("RECOVERED", outstanding)
    [] entered = "CHARGEBACK_LOST" /\ ~HasProvisionalCredit(r) -> settle("WRITTEN_OFF", outstanding)
    [] entered = "CLOSED" -> settle(settlement, outstanding)
    [] OTHER -> <<>>

reversal(disputed, outstanding) ==
  post("PROVISIONAL_CREDIT_REVERSAL", "CUSTOMER", "SUSPENSE", outstanding)

creditKind(entered) ==
  CASE entered = "PROVISIONAL_CREDIT_ISSUED" -> "PROVISIONAL_CREDIT"
    [] entered = "FAST_REFUND_ISSUED"        -> "FAST_REFUND"
    [] OTHER                                 -> "NQA_REFUND"

Postings(r, entered, disputed, liability, outstanding, settlement) ==
  CASE entered \in RefundStates ->
         post(creditKind(entered), "SUSPENSE", "CUSTOMER", disputed - liability)
    [] entered = "PROVISIONAL_CREDIT_REVERSED" -> reversal(disputed, outstanding)
    [] OTHER -> settlements(r, entered, outstanding, settlement)

\* Fault: the customer's account shown from the bank's side.
add_BankSide(a, p) ==
  CASE a = p.debit  -> p.amount
    [] a = p.credit -> -p.amount
    [] OTHER        -> 0

\* What one posting adds to an account's balance.  A debit raises it and a
\* credit lowers it, except on the customer's account, which is shown from
\* the customer's side.
add(a, p) ==
  CASE a = p.debit  -> IF a = "CUSTOMER" THEN -p.amount ELSE p.amount
    [] a = p.credit -> IF a = "CUSTOMER" THEN p.amount ELSE -p.amount
    [] OTHER        -> 0

\* The balances after a transition's postings.
Book(bal, ps) ==
  IF ps = <<>> THEN bal ELSE [a \in Accounts |-> bal[a] + add(a, ps[1])]

TouchesCustomer(p) == p.debit = "CUSTOMER" \/ p.credit = "CUSTOMER"

-----------------------------------------------------------------------------
(* Regulatory clocks: a clock is open until it is met or void; its due     *)
(* time is left out, since no transition reads it.                         *)

Deadlines == [kind : DeadlineKinds, cycle : Nat, status : {"open", "met", "void"}]

OpeningDeadlines(r) == {[kind |-> k, cycle |-> 0, status |-> "open"] : k \in r.Clocks}

\* Fault: the appeal's clock filed under the cycle it ends.
AppealDeadlines_OldCycle(r, appeal) ==
  {[kind |-> k, cycle |-> appeal - 1, status |-> "open"] : k \in r.Clocks \cap {"RESOLUTION"}}

AppealDeadlines(r, appeal) ==
  {[kind |-> k, cycle |-> appeal, status |-> "open"] : k \in r.Clocks \cap {"RESOLUTION"}}

\* Fault: the refund clock met only by the final credit.
Settle_FinalCreditOnly(kind, entered) ==
  CASE kind = "REFUND" /\ entered = "FINAL_CREDIT_ISSUED" -> "met"
    [] kind = "RESOLUTION" /\ entered = "CLOSED" -> "met"
    [] entered = "CLOSED" -> "void"
    [] OTHER -> "open"

\* What entering a state makes of the status of an open clock of a kind.
Settle(kind, entered) ==
  CASE kind = "REFUND" /\ entered \in RefundStates \cup {"FINAL_CREDIT_ISSUED"} -> "met"
    [] kind = "REFUND" /\ entered = "CLOSED" -> "void"
    [] kind = "ACKNOWLEDGE" /\ entered = "CLOSED" -> "void"
    [] kind = "RESOLUTION" /\ entered = "CLOSED" -> "met"
    [] OTHER -> "open"

-----------------------------------------------------------------------------
(* Risk hold and notices *)

CreditAllowed(tier, override) == tier # "HIGH" \/ override

NoticesFor(entered) ==
  CASE entered = "INITIATED" -> {"ACKNOWLEDGEMENT"}
    [] entered = "QUESTIONNAIRE_SENT" -> {"QUESTIONNAIRE"}
    [] entered = "PROVISIONAL_CREDIT_ISSUED" -> {"PROVISIONAL_CREDIT"}
    [] entered \in {"FAST_REFUND_ISSUED", "SEPA_NQA_REFUND_ISSUED"} -> {"REFUND"}
    [] entered = "PROVISIONAL_CREDIT_REVERSED" -> {"REVERSAL"}
    [] entered = "CLOSED" -> {"RESOLUTION"}
    [] OTHER -> {}

\* Fault: the letter left out where the regime requires one.
ChannelsFor_EmailOnly(r, kind) == {"EMAIL"}

ChannelsFor(r, kind) ==
  IF r.WrittenNotices /\ kind # "QUESTIONNAIRE" THEN {"EMAIL", "LETTER"} ELSE {"EMAIL"}

\* The outcome a resolution notice reports, from the dispute's ledger rows and
\* balances as they stand after the transition's postings.
OutcomeOf(ledger, bal) ==
  IF \E i \in DOMAIN ledger : ledger[i].kind = "PROVISIONAL_CREDIT_REVERSAL"
    THEN "REVERSED"
    ELSE CASE bal["CUSTOMER"] > 0 /\ bal["RECOVERY"] > 0 -> "RECOVERED"
           [] bal["CUSTOMER"] > 0 /\ bal["RECOVERY"] =< 0 -> "CREDITED"
           [] OTHER -> "DENIED"

-----------------------------------------------------------------------------
(* The steps of a transition *)

\* Each clock still open is settled as entering the state demands; an appeal
\* starts the resolution clock of its cycle.
settleDeadlines(r, cs, entered, appealed, cycle) ==
  {IF c.status = "open" THEN [c EXCEPT !.status = Settle(c.kind, entered)] ELSE c : c \in cs}
    \cup (IF appealed THEN AppealDeadlines(r, cycle) ELSE {})

\* The notices entering a state obliges: one per channel of the regime that
\* the account has an address for.
notify(r, book, entered, seq, outcome) ==
  {[seq |-> seq, kind |-> kc[1], channel |-> kc[2],
    outcome |-> IF kc[1] = "RESOLUTION" THEN outcome ELSE ""] :
     kc \in {x \in NoticesFor(entered) \X book : x[2] \in ChannelsFor(r, x[1])}}

\* The acknowledgement clock is settled when its notice is composed.
acknowledge(cs) ==
  {IF c.kind = "ACKNOWLEDGE" /\ c.cycle = 0 /\ c.status = "open"
     THEN [c EXCEPT !.status = "met"] ELSE c : c \in cs}

LedgerRows(seq, ps) ==
  IF ps = <<>> THEN <<>>
               ELSE <<[seq |-> seq, kind |-> ps[1].kind, amount |-> ps[1].amount]>>

\* What the analyst's payload must satisfy for the event to be accepted: the risk
\* hold, checked before anything is written, and the facts checked while posting.
holdCheck(tier, e, p) == e = "ISSUE_REFUND" => CreditAllowed(tier, p.override)

PayloadValid(r, amount, e, p) ==
  /\ e = "RECEIVE_QUESTIONNAIRE" => p.answered
  /\ LiabilityAllowed(r, amount, p.liability)
  /\ SettlementAllowed(p.settlement)

\* What an event makes of the questionnaire, asked again or answered.
Questionnaire(e, before) ==
  CASE e = "SEND_QUESTIONNAIRE" -> "sent"
    [] e = "RECEIVE_QUESTIONNAIRE" -> "received"
    [] OTHER -> before
=============================================================================
