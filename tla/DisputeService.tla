--------------------------- MODULE DisputeService ---------------------------
(***************************************************************************)
(* Several requests at once on one dispute.  Each worker runs one          *)
(* transaction of the application service against Postgres at READ         *)
(* COMMITTED: it reads what is committed at that moment, writes rows that  *)
(* stay its own until it commits, and waits where the database makes it    *)
(* wait (a locked row, a unique key another transaction has inserted and   *)
(* not yet committed).  Clients repeat requests, with the key they used    *)
(* before; workers crash; the banking core, which no rollback reaches,     *)
(* declines, stays silent, or acts and is not heard.                       *)
(*                                                                         *)
(* Opening the dispute is one step: nobody sees its rows before it commits.*)
(***************************************************************************)
EXTENDS DisputeRules

CONSTANTS
  Rules, Amounts, AddressBooks, Teams, \* as in DisputeLifecycle
  Tiers,       \* the risk tiers an assessment may yield
  Workers,     \* transactions that may be in progress at once
  Requests,    \* what clients send
  MaxTries     \* bound: how often a client sends one request

\* A request names the event, or the team to move the dispute to; a move has no key.
RequestType ==
  [key : STRING, event : AllEvents \cup {"REASSIGNED"}, team : STRING,
   liability : Int, settlement : STRING, answered : BOOLEAN, override : BOOLEAN]

ASSUME ServiceAssumption ==
  /\ \A r \in DOMAIN Rules : Rules[r] \in RuleRows /\ "RESOLUTION" \in Rules[r].Clocks
  /\ Amounts \subseteq Nat \ {0} /\ AddressBooks \subseteq SUBSET Channels
  /\ Tiers \subseteq RiskTiers
  /\ Requests \subseteq RequestType
  /\ MaxTries \in Nat
  /\ \A q \in Requests : q.event = "REASSIGNED" <=> q.key = ""

VARIABLES
  db,      \* the dispute's committed rows, those of a table in the order they were committed
  keys,    \* idempotency_keys, committed: the request a key was first used with
  tx,      \* worker -> its transaction
  core,    \* the customer account movements the banking core has carried out
  tries,   \* request -> times sent
  answers  \* the requests answered with success

vars == <<db, keys, tx, core, tries, answers>>

Row(s, a, v) == [state |-> s, appeals |-> a, version |-> v]

NoWrites == [postings |-> <<>>, clocksOut |-> {}, clocksIn |-> {}, notices |-> {},
             questionnaire |-> "none", risk |-> "NONE"]

\* A transaction: its program counter, the request it serves, the row it read, what
\* the state machine made of it, the locks and pending unique rows it holds, and its
\* other writes.
Idle == [pc |-> "idle", req |-> "NONE", rec |-> Row("NONE", 0, 0), to |-> Row("NONE", 0, 0),
         held |-> {}, writes |-> NoWrites]

Others(w, what) == {v \in Workers \ {w} : what \in tx[v].held}

\* The transaction ends without effect: whatever it held is released.
Rollback(w) == tx' = [tx EXCEPT ![w] = Idle] /\ UNCHANGED <<db, keys, core, tries, answers>>

Goto(w, pc) == tx' = [tx EXCEPT ![w].pc = pc] /\ UNCHANGED <<db, keys, core, tries, answers>>

Grab(w, what, pc) ==
  /\ tx' = [tx EXCEPT ![w].pc = pc, ![w].held = @ \cup {what}]
  /\ UNCHANGED <<db, keys, core, tries, answers>>

-----------------------------------------------------------------------------
Init ==
  /\ db = [regime |-> "NONE", disputed |-> 0, addresses |-> {}, state |-> "NONE",
           appeals |-> 0, version |-> 0, team |-> "NONE", log |-> <<>>, ledger |-> <<>>,
           bal |-> [a \in Accounts |-> 0], clocks |-> {}, questionnaire |-> "none", risk |-> "NONE", notices |-> {}]
  /\ keys = {} /\ core = {} /\ answers = {}
  /\ tx = [w \in Workers |-> Idle]
  /\ tries = [q \in Requests |-> 0]

CreateDispute(r, amount, book, tm, tier) ==
  /\ db.state = "NONE"
  /\ db' = [regime |-> r, disputed |-> amount, addresses |-> book, state |-> "INITIATED",
            appeals |-> 0, version |-> 1, team |-> tm,
            log |-> <<[seq |-> 1, event |-> "OPENED", from |-> "NONE", to |-> "INITIATED",
                       key |-> "", override |-> FALSE]>>,
            ledger |-> <<>>, bal |-> db.bal, clocks |-> acknowledge(OpeningDeadlines(Rules[r])),
            questionnaire |-> "none", risk |-> tier,
            notices |-> notify(Rules[r], book, "INITIATED", 1, "")]
  /\ UNCHANGED <<keys, tx, core, tries, answers>>

\* A request arrives and its transaction begins; a keyed one looks its key up first.
\* A key used before is answered from the stored response, or refused when the body
\* is another.
Begin(w, q) ==
  LET stored == {s \in keys : s.key = q.key}
  IN /\ tx[w].pc = "idle" /\ db.state # "NONE" /\ tries[q] < MaxTries
     /\ tries' = [tries EXCEPT ![q] = @ + 1]
     /\ \/ /\ stored = {}
           /\ tx' = [tx EXCEPT ![w].pc = "read", ![w].req = q]
           /\ UNCHANGED answers
        \/ /\ stored # {}
           /\ answers' = answers \cup (stored \cap {q})
           /\ UNCHANGED tx
     /\ UNCHANGED <<db, keys, core>>

\* The record is read and the state machine asked; the version read is the one the
\* transaction will insist on.
GetDispute(w) ==
  LET q    == tx[w].req
      rec  == Row(db.state, db.appeals, db.version)
      next_ == IF q.event = "REASSIGNED"
                 THEN IF q.team \in Teams \ {db.team} THEN {rec} ELSE {}
                 ELSE {Row(n.state, n.appeals, db.version) :
                         n \in Apply(Rules[db.regime], db.state, db.appeals, q.event)}
  IN /\ tx[w].pc = "read"
     /\ \/ next_ = {} /\ Rollback(w)
        \/ \E to \in next_ :
             /\ tx' = [tx EXCEPT ![w].rec = rec, ![w].to = to,
                         ![w].pc = CASE q.event = "REASSIGNED"   -> "append"
                                     [] q.event = "ISSUE_REFUND" -> "hold"
                                     [] OTHER                    -> "update"]
             /\ UNCHANGED <<db, keys, core, tries, answers>>

\* The risk history is read by a later statement than the record.
HoldCheck(w) ==
  /\ tx[w].pc = "hold"
  /\ IF holdCheck(db.risk, "ISSUE_REFUND", tx[w].req) THEN Goto(w, "update") ELSE Rollback(w)

\* Faults: an update by id alone, whose returned version numbers the event; a lost
\* race retried without reading the record again.
UpdateDisputeState_AnyVersion(w) ==
  /\ tx[w].pc = "update" /\ Others(w, "row") = {}
  /\ tx' = [tx EXCEPT ![w].pc = "append", ![w].held = @ \cup {"row"},
                      ![w].rec.version = db.version]
  /\ UNCHANGED <<db, keys, core, tries, answers>>

UpdateDisputeState_Spins(w) ==
  /\ tx[w].pc = "update" /\ Others(w, "row") = {}
  /\ IF db.version = tx[w].rec.version THEN Grab(w, "row", "append") ELSE Goto(w, "update")

\* UPDATE ... WHERE version = expected: waits for the row, then finds it or not.
UpdateDisputeState(w) ==
  /\ tx[w].pc = "update" /\ Others(w, "row") = {}
  /\ IF db.version = tx[w].rec.version THEN Grab(w, "row", "append") ELSE Rollback(w)

\* INSERT of the event, unique on (dispute, seq): waits for another transaction's row
\* of the same seq.
SameSeq(w) == {v \in Others(w, "event") : tx[v].rec.version = tx[w].rec.version}

AppendEvent(w) ==
  /\ tx[w].pc = "append" /\ SameSeq(w) = {}
  /\ IF \E i \in DOMAIN db.log : db.log[i].seq = tx[w].rec.version + 1
       THEN Rollback(w)
       ELSE Grab(w, "event", IF tx[w].req.event = "REASSIGNED" THEN "move" ELSE "post")

\* The same update for the team, after the event.
UpdateDisputeTeam(w) ==
  /\ tx[w].pc = "move" /\ Others(w, "row") = {}
  /\ IF db.version = tx[w].rec.version THEN Grab(w, "row", "commit") ELSE Rollback(w)

\* The movements entering the state demands, from the ledger as it stands.
Movements(w) ==
  LET q == tx[w].req r == Rules[db.regime]
  IN Postings(r, tx[w].to.state, db.disputed, q.liability, db.bal["SUSPENSE"],
              ParseSettlement(r, q.settlement))

Reference(w, p) == [seq |-> tx[w].rec.version + 1, kind |-> p.kind]

\* The questionnaire, the clocks, the ledger rows, the notices and the new assessment:
\* all the remaining rows of the transition.
Writes(w, tier) ==
  LET q   == tx[w].req
      r   == Rules[db.regime]
      to  == tx[w].to
      seq == tx[w].rec.version + 1
      ps  == Movements(w)
      settled == settleDeadlines(r, db.clocks, to.state, to.appeals > tx[w].rec.appeals, to.appeals)
  IN [postings |-> ps,
      clocksOut |-> db.clocks \ settled, clocksIn |-> settled \ db.clocks,
      questionnaire |-> Questionnaire(q.event, db.questionnaire),
      risk |-> tier,
      notices |-> notify(r, db.addresses, to.state, seq,
                         OutcomeOf(db.ledger \o LedgerRows(seq, ps), Book(db.bal, ps)))]

Write(w, tier) == tx' = [tx EXCEPT ![w].pc = "put", ![w].writes = Writes(w, tier)]

Assessed(w) == IF tx[w].req.event = "RECEIVE_QUESTIONNAIRE" THEN Tiers ELSE {db.risk}

Posting(w) ==
  /\ tx[w].pc = "post"
  /\ PayloadValid(Rules[db.regime], db.disputed, tx[w].req.event, tx[w].req)

Refuse(w) ==
  /\ tx[w].pc = "post"
  /\ ~PayloadValid(Rules[db.regime], db.disputed, tx[w].req.event, tx[w].req)
  /\ Rollback(w)

\* Movements between the bank's own accounts, or none.
PostBooks(w) ==
  /\ Posting(w)
  /\ \A i \in DOMAIN Movements(w) : ~TouchesCustomer(Movements(w)[i])
  /\ \E tier \in Assessed(w) : Write(w, tier)
  /\ UNCHANGED <<db, keys, core, tries, answers>>

\* The core approves: a new reference moves money, a known one is answered as before.
CoreApproves(w) ==
  /\ Posting(w)
  /\ \E i \in DOMAIN Movements(w) :
       LET p == Movements(w)[i]
       IN /\ TouchesCustomer(p)
          /\ core' = IF \E m \in core : m.ref = Reference(w, p) THEN core
                       ELSE core \cup {[ref |-> Reference(w, p), key |-> tx[w].req.key,
                                        amount |-> p.amount]}
  /\ \E tier \in Assessed(w) : Write(w, tier)
  /\ UNCHANGED <<db, keys, tries, answers>>

\* Fault: silence taken for approval.
CoreFails_Booked(w) ==
  /\ Posting(w)
  /\ \E i \in DOMAIN Movements(w) : TouchesCustomer(Movements(w)[i])
  /\ \E tier \in Assessed(w) : Write(w, tier)
  /\ UNCHANGED <<db, keys, core, tries, answers>>

\* The core declines or does not answer; unheard, it may still have acted.
CoreFails(w) ==
  /\ Posting(w)
  /\ \E i \in DOMAIN Movements(w) :
       LET p == Movements(w)[i]
       IN /\ TouchesCustomer(p)
          /\ \/ core' = core
             \/ /\ \A m \in core : m.ref # Reference(w, p)
                /\ core' = core \cup {[ref |-> Reference(w, p), key |-> tx[w].req.key,
                                       amount |-> p.amount]}
  /\ tx' = [tx EXCEPT ![w] = Idle]
  /\ UNCHANGED <<db, keys, tries, answers>>

\* INSERT of the key, unique: waits for another transaction that inserted it.
SameKey(w) == {v \in Others(w, "key") : tx[v].req.key = tx[w].req.key}

\* Fault: a key already stored is left as it is, and the transition goes on.
PutIdempotent_DoNothing(w) ==
  tx[w].pc = "put" /\ SameKey(w) = {} /\ Grab(w, "key", "commit")

PutIdempotent(w) ==
  /\ tx[w].pc = "put" /\ SameKey(w) = {}
  /\ IF \E s \in keys : s.key = tx[w].req.key THEN Rollback(w) ELSE Grab(w, "key", "commit")

Commit(w) ==
  LET q == tx[w].req to == tx[w].to wr == tx[w].writes
      seq == tx[w].rec.version + 1
      event == [seq |-> seq, event |-> q.event, from |-> tx[w].rec.state,
                to |-> to.state, key |-> q.key, override |-> q.override]
  IN /\ tx[w].pc = "commit"
     /\ IF q.event = "REASSIGNED"
          THEN /\ db' = [db EXCEPT !.team = q.team, !.version = @ + 1, !.log = Append(@, event)]
               /\ UNCHANGED <<keys, answers>>
          ELSE /\ db' = [db EXCEPT !.state = to.state, !.appeals = to.appeals,
                           !.version = @ + 1, !.log = Append(@, event),
                           !.ledger = @ \o LedgerRows(seq, wr.postings),
                           !.bal = Book(@, wr.postings),
                           !.clocks = (@ \ wr.clocksOut) \cup wr.clocksIn,
                           !.questionnaire = wr.questionnaire, !.risk = wr.risk,
                           !.notices = @ \cup wr.notices]
               /\ keys' = keys \cup {q}
               /\ answers' = answers \cup {q}
     /\ tx' = [tx EXCEPT ![w] = Idle]
     /\ UNCHANGED <<core, tries>>

\* The process, the connection or the caller goes away before the commit.
Crash(w) == tx[w].pc # "idle" /\ Rollback(w)

\* Whom a transaction waits for, and the victim Postgres picks of two that wait for
\* each other.
WaitsFor(w) ==
  CASE tx[w].pc \in {"update", "move"} -> Others(w, "row")
    [] tx[w].pc = "append" -> SameSeq(w)
    [] tx[w].pc = "put" -> SameKey(w)
    [] OTHER -> {}

DeadlockVictim(w) == (\E v \in WaitsFor(w) : w \in WaitsFor(v)) /\ Rollback(w)

Step(w) ==
  \/ GetDispute(w) \/ HoldCheck(w) \/ UpdateDisputeState(w) \/ AppendEvent(w)
  \/ UpdateDisputeTeam(w) \/ Refuse(w) \/ PostBooks(w) \/ CoreApproves(w) \/ CoreFails(w)
  \/ PutIdempotent(w) \/ Commit(w)

Next ==
  \/ \E r \in DOMAIN Rules, amount \in Amounts, book \in AddressBooks, tm \in Teams,
        tier \in Tiers : CreateDispute(r, amount, book, tm, tier)
  \/ \E w \in Workers :
       \/ \E q \in Requests : Begin(w, q)
       \/ Step(w)
       \/ Crash(w)
       \/ DeadlockVictim(w)

Spec == Init /\ [][Next]_vars

\* A worker keeps going while nothing blocks it, and Postgres resolves a deadlock.
FairSpec == Spec /\ \A w \in Workers : WF_vars(Step(w)) /\ WF_vars(DeadlockVictim(w))

-----------------------------------------------------------------------------
(* Properties *)

\* docs/adr/0012: "Mutations carry an Idempotency-Key, so the repeat cannot
\* double-apply": however often, however concurrently a request is sent, its key has
\* at most one event in the log, and a request answered with success has exactly its
\* own event there.
KeyAppliedOnce ==
  /\ \A i, j \in DOMAIN db.log : db.log[i].key = db.log[j].key /\ db.log[i].key # "" => i = j
  /\ \A q \in answers : \E i \in DOMAIN db.log : db.log[i].key = q.key /\ db.log[i].event = q.event

\* No credit is committed on a dispute whose latest assessment, at the commit, is HIGH,
\* without the analyst's override, although the assessment was read before the lock.
NoCreditUnderHold ==
  [][\A i \in DOMAIN db'.log \ DOMAIN db.log :
       db'.log[i].event = "ISSUE_REFUND" /\ ~db'.log[i].override => db.risk # "HIGH"]_vars

CustomerKinds == CreditKinds \cup {"PROVISIONAL_CREDIT_REVERSAL"}

\* Every movement the ledger shows on the customer's account is one the core carried
\* out, under the reference of that ledger row.
LedgerBackedByCore ==
  \A i \in DOMAIN db.ledger : db.ledger[i].kind \in CustomerKinds =>
    \E m \in core : m.ref = [seq |-> db.ledger[i].seq, kind |-> db.ledger[i].kind]

\* Every transaction ends: no worker waits for ever on a row, a seq or a key.
EveryRequestEnds == \A w \in Workers : tx[w].pc # "idle" ~> tx[w].pc = "idle"

\* What the interleaved transactions commit is what DisputeLifecycle allows one at a
\* time: each commit is one whole CreateDispute, ApplyEvent or Reassign, decided on
\* the state it is committed to.
Lifecycle == INSTANCE DisputeLifecycle WITH
  Liabilities <- {q.liability : q \in Requests} \cup {0},
  Settlements <- {q.settlement : q \in Requests} \cup {""},
  MovesBefore <- Nat,
  regime <- db.regime, disputed <- db.disputed, addresses <- db.addresses,
  state <- db.state, appeals <- db.appeals, version <- db.version, team <- db.team,
  log <- [i \in DOMAIN db.log |->
            [event |-> db.log[i].event, from |-> db.log[i].from, to |-> db.log[i].to]],
  ledger <- db.ledger, bal <- db.bal, clocks <- db.clocks,
  questionnaire <- db.questionnaire, risk <- db.risk, notices <- db.notices

CommitsAreLifecycleSteps == Lifecycle!Spec

\* service.go, instructCore: "a client that repeats the request after a timeout reaches
\* the core with the same reference and is answered 'duplicate', not paid twice".
NotPaidTwice == \A m, n \in core : m.key = n.key => m = n
=============================================================================
