-------------------------- MODULE DisputeLifecycle --------------------------
(***************************************************************************)
(* One dispute as a committed transaction leaves it.  Every action is one  *)
(* transaction of the application service: CreateDispute, ApplyEvent with  *)
(* all it calls (the state machine, the risk hold, the questionnaire, the  *)
(* clocks, the ledger, the notices, the risk score), and Reassign.  A      *)
(* request the service refuses rolls back and changes nothing, so it has   *)
(* no action.  How several such transactions interleave on the database    *)
(* is the business of DisputeService, which implements this module.        *)
(***************************************************************************)
EXTENDS DisputeRules, FiniteSets

CONSTANTS
  Rules,         \* the rules table: regime name -> row
  Amounts,       \* disputed amounts, in minor units
  Liabilities,   \* liabilities an analyst may type, 0 for none given
  Settlements,   \* settlements an analyst may type, "" for none given
  AddressBooks,  \* the sets of channels an account may have an address for
  Teams,         \* the tenant's teams
  MovesBefore    \* bound: the numbers of moves after which a dispute may change team again

ASSUME RulesAssumption ==
  \A r \in DOMAIN Rules : Rules[r] \in RuleRows /\ "RESOLUTION" \in Rules[r].Clocks

ASSUME InputsAssumption ==
  /\ Amounts \subseteq Nat \ {0}
  /\ Liabilities \subseteq Int /\ 0 \in Liabilities
  /\ AddressBooks \subseteq SUBSET Channels
  /\ MovesBefore \subseteq Nat

VARIABLES
  regime, disputed, addresses,   \* fixed when the dispute opens
  state, appeals, version, team, \* the disputes row
  log,                           \* dispute_events, in order of seq
  ledger, bal,                   \* ledger_entries, and their sum per account
  clocks,                        \* dispute_deadlines
  questionnaire, risk,           \* questionnaires; the latest risk_assessments row
  notices                        \* notices

vars == <<regime, disputed, addresses, state, appeals, version, team, log,
          ledger, bal, clocks, questionnaire, risk, notices>>

Payloads == [liability : Liabilities, settlement : Settlements,
             answered : BOOLEAN, override : BOOLEAN]

-----------------------------------------------------------------------------
Init ==
  /\ regime = "NONE" /\ disputed = 0 /\ addresses = {}
  /\ state = "NONE" /\ appeals = 0 /\ version = 0 /\ team = "NONE"
  /\ log = <<>> /\ ledger = <<>> /\ bal = [a \in Accounts |-> 0]
  /\ clocks = {} /\ questionnaire = "none" /\ risk = "NONE" /\ notices = {}

CreateDispute(r, amount, book, tm, tier) ==
  /\ state = "NONE"
  /\ regime' = r /\ disputed' = amount /\ addresses' = book
  /\ state' = "INITIATED" /\ version' = 1 /\ team' = tm
  /\ log' = <<[event |-> "OPENED", from |-> "NONE", to |-> "INITIATED"]>>
  /\ clocks' = acknowledge(OpeningDeadlines(Rules[r]))
  /\ notices' = notify(Rules[r], book, "INITIATED", 1, "")
  /\ risk' = tier
  /\ UNCHANGED <<appeals, ledger, bal, questionnaire>>

ApplyEvent(e) ==
  LET r == Rules[regime] IN
  /\ state # "NONE"
  /\ \E n \in Apply(r, state, appeals, e), p \in Payloads :
       LET ps == Postings(r, n.state, disputed, p.liability, bal["SUSPENSE"],
                          ParseSettlement(r, p.settlement))
       IN /\ holdCheck(risk, e, p) /\ PayloadValid(r, disputed, e, p)
          /\ state' = n.state /\ appeals' = n.appeals /\ version' = version + 1
          /\ log' = Append(log, [event |-> e, from |-> state, to |-> n.state])
          /\ questionnaire' = Questionnaire(e, questionnaire)
          /\ clocks' = settleDeadlines(r, clocks, n.state, n.appeals > appeals, n.appeals)
          /\ ledger' = ledger \o LedgerRows(version + 1, ps)
          /\ bal' = Book(bal, ps)
          /\ notices' = notices \cup
               notify(r, addresses, n.state, version + 1, OutcomeOf(ledger', bal'))
  /\ risk' \in IF e = "RECEIVE_QUESTIONNAIRE" THEN RiskTiers ELSE {risk}
  /\ UNCHANGED <<regime, disputed, addresses, team>>

Reassigned == {i \in DOMAIN log : log[i].event = "REASSIGNED"}

Reassign(tm) ==
  /\ state # "NONE" /\ tm # team
  /\ Cardinality(Reassigned) \in MovesBefore
  /\ log' = Append(log, [event |-> "REASSIGNED", from |-> state, to |-> state])
  /\ version' = version + 1 /\ team' = tm
  /\ UNCHANGED <<regime, disputed, addresses, state, appeals, ledger, bal, clocks,
                 questionnaire, risk, notices>>

Next ==
  \/ \E r \in DOMAIN Rules, amount \in Amounts, book \in AddressBooks, tm \in Teams,
        tier \in RiskTiers : CreateDispute(r, amount, book, tm, tier)
  \/ \E e \in AllEvents : ApplyEvent(e)
  \/ \E tm \in Teams : Reassign(tm)

Spec == Init /\ [][Next]_vars
-----------------------------------------------------------------------------
(* Properties *)

\* Every column holds a value of its type: the state is one of the lifecycle's,
\* the appeals used never exceed the regime's cap, the log has one row per version.
TypeOK ==
  \/ Init
  \/ /\ regime \in DOMAIN Rules /\ disputed \in Amounts /\ addresses \in SUBSET Channels
     /\ state \in AllStates /\ appeals \in 0..Rules[regime].MaxAppeals
     /\ version \in Nat \ {0}
     /\ log \in Seq([event : AllEvents \cup {"OPENED", "REASSIGNED"},
                     from : AllStates \cup {"NONE"}, to : AllStates])
     /\ Len(log) = version
     /\ ledger \in Seq([seq : Nat, kind : PostingKinds, amount : Nat])
     /\ bal \in [Accounts -> Int]
     /\ clocks \in SUBSET Deadlines
     /\ questionnaire \in {"none", "sent", "received"} /\ risk \in RiskTiers
     /\ notices \in SUBSET [seq : Nat, kind : NoticeKinds, channel : Channels,
                            outcome : Outcomes \cup {""}]

\* The states in which the bank may have an advance outstanding: from the credit
\* until the adjudication settles it, and after a lost chargeback only where the
\* regime goes on to take the provisional credit back.
Advanced ==
  \/ state \in RefundStates \cup {"CHARGEBACK_FILED", "CHARGEBACK_ACKNOWLEDGED", "EVIDENCE_SUBMITTED"}
  \/ state = "CHARGEBACK_LOST" /\ HasProvisionalCredit(Rules[regime])

\* domain/ledger.go: "a dispute's suspense balance is zero once it is CLOSED,
\* whichever path it took", the paths through an appeal included.
SuspenseClears == state = "CLOSED" => bal["SUSPENSE"] = 0

\* At no point has the bank more than one advance outstanding: suspense is never
\* negative, never above the disputed amount, and empty wherever a refund could
\* be issued next, so an appeal cannot stack a second advance on the first.
OneAdvance ==
  /\ 0 =< bal["SUSPENSE"] /\ bal["SUSPENSE"] =< disputed
  /\ bal["SUSPENSE"] > 0 => Advanced

\* A closed dispute's books are explained: what the customer was left with is
\* exactly what the bank recovered plus what it absorbed, and nobody is left
\* owing (no account of a closed dispute is negative).
ClosedBooksBalance ==
  state = "CLOSED" =>
    /\ bal["CUSTOMER"] = bal["RECOVERY"] + bal["LOSS"]
    /\ \A a \in Accounts : bal[a] >= 0

\* Taking a provisional credit back takes exactly the credit of the same cycle:
\* each reversal row follows a provisional credit row of the same amount, with
\* no other movement between the two.
ReversalReturnsTheCredit ==
  \A i \in DOMAIN ledger :
    ledger[i].kind = "PROVISIONAL_CREDIT_REVERSAL" =>
      /\ i > 1
      /\ ledger[i - 1].kind = "PROVISIONAL_CREDIT"
      /\ ledger[i - 1].amount = ledger[i].amount

\* While a dispute is not closed exactly one resolution clock runs, that of the
\* current cycle; once it is closed no clock of any kind runs (so an overdue
\* report never names a closed dispute, and never misses an open one).
ResolutionClockRuns ==
  state # "NONE" =>
    /\ \A c \in clocks : c.kind = "RESOLUTION" =>
         (c.status = "open" <=> state # "CLOSED" /\ c.cycle = appeals)
    /\ \E c \in clocks : c.kind = "RESOLUTION" /\ c.cycle = appeals
    /\ state = "CLOSED" => \A c \in clocks : c.status # "open"

\* The refund clock tells the truth about the opening cycle: it is met exactly
\* when a credit went out before the dispute first closed, void when the dispute
\* closed without one, and open only while neither has happened.
FirstCloseSeq(i) == log[i].to = "CLOSED" /\ \A j \in 1..(i - 1) : log[j].to # "CLOSED"
RefundClockTruthful ==
  \A c \in clocks : c.kind = "REFUND" =>
    LET closes  == {i \in DOMAIN log : FirstCloseSeq(i)}
        credits == {i \in DOMAIN ledger : /\ ledger[i].kind \in CreditKinds
                                          /\ \A s \in closes : ledger[i].seq < s}
    IN /\ c.status = "met"  <=> credits # {}
       /\ c.status = "void" <=> credits = {} /\ closes # {}

\* A settled clock is a fact already reported: no later transition turns a met
\* clock void or reopens it, even when the state that would settle it recurs.
SettledClocksStay == [][\A c \in clocks : c.status # "open" => c \in clocks']_vars

\* The customer is told, in every form the regime requires and an address allows,
\* of every movement on their account, under the event that caused it.
CustomerIsTold ==
  \A i \in DOMAIN ledger :
    LET kind == CASE ledger[i].kind = "PROVISIONAL_CREDIT" -> "PROVISIONAL_CREDIT"
                  [] ledger[i].kind \in {"FAST_REFUND", "NQA_REFUND"} -> "REFUND"
                  [] ledger[i].kind = "PROVISIONAL_CREDIT_REVERSAL" -> "REVERSAL"
                  [] OTHER -> "NONE"
    IN kind # "NONE" =>
         \A ch \in addresses \cap (IF Rules[regime].WrittenNotices THEN Channels ELSE {"EMAIL"}) :
           \E n \in notices : n.seq = ledger[i].seq /\ n.kind = kind /\ n.channel = ch

\* notice/notice.go: the outcome "is how a dispute ended, as the customer needs to
\* hear it", and CREDITED or RECOVERED mean "the customer keeps the money": a
\* resolution notice says so exactly when the customer is left with money.
ResolutionTellsTheOutcome ==
  state = "CLOSED" =>
    \A n \in notices : n.kind = "RESOLUTION" /\ (\A m \in notices : m.seq =< n.seq) =>
      (n.outcome \in {"CREDITED", "RECOVERED"} <=> bal["CUSTOMER"] > 0)
=============================================================================
