------------------------ MODULE DisputeServiceProofs ------------------------
(***************************************************************************)
(* Proofs about concurrent requests, for any number of workers, requests   *)
(* and retries and any rules table: a key is applied once, no credit       *)
(* passes a hold, the ledger shows only what the core carried out, and     *)
(* the interleaved transactions implement DisputeLifecycle.                *)
(***************************************************************************)
EXTENDS DisputeService, FiniteSetTheorems, TLAPS

-----------------------------------------------------------------------------
(* The inductive invariant *)

\* The shape of the records: what EXCEPT needs to know of them.
TxShape(t) ==
  /\ t = [pc |-> t.pc, req |-> t.req, rec |-> t.rec, to |-> t.to, held |-> t.held,
          writes |-> t.writes]
  /\ t.pc \in {"idle", "read", "hold", "update", "append", "move", "post", "put", "commit"}
  /\ t.held \subseteq {"row", "event", "key"}
  /\ t.pc # "idle" => t.req \in Requests
  /\ t.rec.version \in Nat

DbShape ==
  db = [regime |-> db.regime, disputed |-> db.disputed, addresses |-> db.addresses,
        state |-> db.state, appeals |-> db.appeals, version |-> db.version, team |-> db.team,
        log |-> db.log, ledger |-> db.ledger, bal |-> db.bal, clocks |-> db.clocks,
        questionnaire |-> db.questionnaire, risk |-> db.risk, notices |-> db.notices]

\* Before CreateDispute there is nothing to transact on.
Unopened ==
  db.state = "NONE" =>
    /\ \A w \in Workers : tx[w].pc = "idle"
    /\ db.appeals = 0 /\ db.version = 0 /\ db.log = <<>> /\ db.ledger = <<>>
    /\ db.questionnaire = "none" /\ keys = {} /\ answers = {}

\* Which locks and pending rows a transaction holds where.
Held(w) ==
  /\ tx[w].pc \in {"idle", "read", "hold", "update"} => tx[w].held = {}
  /\ "key" \in tx[w].held => tx[w].pc = "commit"
  /\ tx[w].pc = "move" => tx[w].req.event = "REASSIGNED"
  /\ tx[w].pc \in {"hold", "update", "post", "put"} => tx[w].req.event # "REASSIGNED"
  /\ tx[w].pc \in {"post", "put"} => "row" \in tx[w].held
  /\ tx[w].pc = "append" => ("row" \in tx[w].held <=> tx[w].req.event # "REASSIGNED")
  /\ tx[w].pc = "commit" => "row" \in tx[w].held
  /\ tx[w].pc = "commit" /\ tx[w].req.event # "REASSIGNED" => "key" \in tx[w].held

\* The row lock: one holder, and nobody commits under it.
RowLock ==
  /\ \A v, w \in Workers : "row" \in tx[v].held /\ "row" \in tx[w].held => v = w
  /\ \A w \in Workers : "row" \in tx[w].held => tx[w].rec.version = db.version

\* What a transaction read is what the row still says, as long as the version is the
\* one it read.
Fresh(w) ==
  /\ tx[w].rec = Row(db.state, db.appeals, db.version)
  /\ tx[w].req.event = "REASSIGNED" =>
       tx[w].to.state = db.state /\ tx[w].req.team \in Teams \ {db.team}
  /\ tx[w].req.event # "REASSIGNED" =>
       \E n \in Apply(Rules[db.regime], db.state, db.appeals, tx[w].req.event) :
         tx[w].to = Row(n.state, n.appeals, db.version)
  /\ tx[w].pc # "hold" => holdCheck(db.risk, tx[w].req.event, tx[w].req)

ReadInv(w) ==
  tx[w].pc \notin {"idle", "read"} =>
    /\ tx[w].rec.version =< db.version
    /\ tx[w].rec.version = db.version => Fresh(w)

\* What a transition is about to commit is what the committed rows demand, and the core
\* has carried out what it shows on the customer's account.
WrittenInv(w) ==
  tx[w].pc \in {"put", "commit"} /\ tx[w].req.event # "REASSIGNED" =>
    /\ \E tier \in Assessed(w) : tx[w].writes = Writes(w, tier)
    /\ PayloadValid(Rules[db.regime], db.disputed, tx[w].req.event, tx[w].req)
    /\ \A i \in DOMAIN Movements(w) : TouchesCustomer(Movements(w)[i]) =>
         \E m \in core : m.ref = Reference(w, Movements(w)[i])

\* A key is stored with its event, once; one that a transaction has inserted is not
\* stored yet, and nobody else has inserted it.
PendingOnce ==
  \A v, w \in Workers :
    "key" \in tx[v].held /\ "key" \in tx[w].held /\ tx[v].req.key = tx[w].req.key => v = w
PendingNew == \A w \in Workers : "key" \in tx[w].held => \A s \in keys : s.key # tx[w].req.key
LoggedStored == \A i \in DOMAIN db.log : db.log[i].key # "" => \E s \in keys : s.key = db.log[i].key
StoredLogged ==
  \A s \in keys : \E i \in DOMAIN db.log : db.log[i].key = s.key /\ db.log[i].event = s.event
LoggedOnce ==
  \A i, j \in DOMAIN db.log : db.log[i].key = db.log[j].key /\ db.log[i].key # "" => i = j

KeyInv ==
  /\ keys \subseteq Requests /\ answers \subseteq keys
  /\ PendingOnce /\ PendingNew /\ LoggedStored /\ StoredLogged /\ LoggedOnce

TxInv ==
  /\ Unopened /\ RowLock
  /\ \A w \in Workers : Held(w) /\ ReadInv(w) /\ WrittenInv(w)

\* The log and the ledger as sequences.
SeqInv == (\E S : db.log \in Seq(S)) /\ (\E S : db.ledger \in Seq(S)) /\ db.version \in Nat

Shape ==
  /\ DbShape /\ tx = [w \in Workers |-> tx[w]] /\ \A w \in Workers : TxShape(tx[w])
  /\ SeqInv

-----------------------------------------------------------------------------
(* What the actions do to a transaction *)

Tx(pc, req, rec, to, held, writes) ==
  [pc |-> pc, req |-> req, rec |-> rec, to |-> to, held |-> held, writes |-> writes]

\* Worker w's transaction becomes t, the others' stay.
Becomes(w, t) ==
  /\ tx' = [v \in Workers |-> tx'[v]] /\ tx'[w] = t
  /\ \A v \in Workers : v # w => tx'[v] = tx[v]

LEMMA IdleShape == TxShape(Idle) /\ Idle.pc = "idle" /\ Idle.held = {}
BY DEF TxShape, Idle, Row

LEMMA RollbackEffect ==
  ASSUME Shape, NEW w \in Workers, tx' = [tx EXCEPT ![w] = Idle] PROVE Becomes(w, Idle)
BY DEF Shape, Becomes

LEMMA GotoEffect ==
  ASSUME Shape, NEW w \in Workers, NEW pc, tx' = [tx EXCEPT ![w].pc = pc]
  PROVE  Becomes(w, Tx(pc, tx[w].req, tx[w].rec, tx[w].to, tx[w].held, tx[w].writes))
<1>1. tx = [v \in Workers |-> tx[v]]
  BY DEF Shape
<1>2. tx[w] = Tx(tx[w].pc, tx[w].req, tx[w].rec, tx[w].to, tx[w].held, tx[w].writes)
  BY DEF Shape, TxShape, Tx
<1>3. tx' = [tx EXCEPT ![w] = [tx[w] EXCEPT !.pc = pc]]
  BY <1>1
<1>4. [tx[w] EXCEPT !.pc = pc] = Tx(pc, tx[w].req, tx[w].rec, tx[w].to, tx[w].held, tx[w].writes)
  BY <1>2 DEF Tx
<1> QED BY <1>1, <1>3, <1>4 DEF Becomes

LEMMA GrabEffect ==
  ASSUME Shape, NEW w \in Workers, NEW what, NEW pc, Grab(w, what, pc)
  PROVE  Becomes(w, Tx(pc, tx[w].req, tx[w].rec, tx[w].to, tx[w].held \cup {what}, tx[w].writes))
<1>1. tx = [v \in Workers |-> tx[v]]
  BY DEF Shape
<1>2. tx[w] = Tx(tx[w].pc, tx[w].req, tx[w].rec, tx[w].to, tx[w].held, tx[w].writes)
  BY DEF Shape, TxShape, Tx
<1>3. tx'[w] = Tx(pc, tx[w].req, tx[w].rec, tx[w].to, tx[w].held \cup {what}, tx[w].writes)
  BY <1>1, <1>2 DEF Tx, Grab
<1>4. tx' = [v \in Workers |-> tx'[v]] /\ \A v \in Workers : v # w => tx'[v] = tx[v]
  BY <1>1 DEF Grab
<1> QED BY <1>3, <1>4 DEF Becomes

LEMMA WriteEffect ==
  ASSUME Shape, NEW w \in Workers, NEW tier, Write(w, tier)
  PROVE  Becomes(w, Tx("put", tx[w].req, tx[w].rec, tx[w].to, tx[w].held, Writes(w, tier)))
<1> DEFINE wr == Writes(w, tier)
<1>1. tx = [v \in Workers |-> tx[v]]
  BY DEF Shape
<1>2. tx[w] = Tx(tx[w].pc, tx[w].req, tx[w].rec, tx[w].to, tx[w].held, tx[w].writes)
  BY DEF Shape, TxShape, Tx
<1>3. tx' = [tx EXCEPT ![w].pc = "put", ![w].writes = wr]
  BY DEF Write
<1> HIDE DEF wr
<1>4. tx'[w] = Tx("put", tx[w].req, tx[w].rec, tx[w].to, tx[w].held, wr)
  BY <1>1, <1>2, <1>3 DEF Tx
<1>5. tx' = [v \in Workers |-> tx'[v]] /\ \A v \in Workers : v # w => tx'[v] = tx[v]
  BY <1>1, <1>3
<1>6. Becomes(w, Tx("put", tx[w].req, tx[w].rec, tx[w].to, tx[w].held, wr))
  BY <1>4, <1>5 DEF Becomes
<1> QED BY <1>6 DEF wr

LEMMA BeginEffect ==
  ASSUME Shape, NEW w \in Workers, NEW q, tx' = [tx EXCEPT ![w].pc = "read", ![w].req = q]
  PROVE  Becomes(w, Tx("read", q, tx[w].rec, tx[w].to, tx[w].held, tx[w].writes))
<1>1. tx = [v \in Workers |-> tx[v]]
  BY DEF Shape
<1>2. tx[w] = Tx(tx[w].pc, tx[w].req, tx[w].rec, tx[w].to, tx[w].held, tx[w].writes)
  BY DEF Shape, TxShape, Tx
<1>3. tx'[w] = Tx("read", q, tx[w].rec, tx[w].to, tx[w].held, tx[w].writes)
  BY <1>1, <1>2 DEF Tx
<1>4. tx' = [v \in Workers |-> tx'[v]] /\ \A v \in Workers : v # w => tx'[v] = tx[v]
  BY <1>1
<1> QED BY <1>3, <1>4 DEF Becomes

LEMMA GetEffect ==
  ASSUME Shape, NEW w \in Workers, NEW rec, NEW to, NEW pc,
         tx' = [tx EXCEPT ![w].rec = rec, ![w].to = to, ![w].pc = pc]
  PROVE  Becomes(w, Tx(pc, tx[w].req, rec, to, tx[w].held, tx[w].writes))
<1>1. tx = [v \in Workers |-> tx[v]]
  BY DEF Shape
<1>2. tx[w] = Tx(tx[w].pc, tx[w].req, tx[w].rec, tx[w].to, tx[w].held, tx[w].writes)
  BY DEF Shape, TxShape, Tx
<1>3. tx'[w] = Tx(pc, tx[w].req, rec, to, tx[w].held, tx[w].writes)
  BY <1>1, <1>2 DEF Tx
<1>4. tx' = [v \in Workers |-> tx'[v]] /\ \A v \in Workers : v # w => tx'[v] = tx[v]
  BY <1>1
<1> QED BY <1>3, <1>4 DEF Becomes

-----------------------------------------------------------------------------
(* The transactions *)

\* What is said of a transaction depends on it, on the committed rows and on what the
\* core has done, which only grows.
LEMMA WritesKept ==
  ASSUME NEW v \in Workers, db' = db, tx'[v].req = tx[v].req, tx'[v].rec = tx[v].rec,
         tx'[v].to = tx[v].to
  PROVE  /\ Movements(v)' = Movements(v) /\ Assessed(v)' = Assessed(v)
         /\ \A tier : Writes(v, tier)' = Writes(v, tier)
         /\ \A p : Reference(v, p)' = Reference(v, p)
<1>1. Movements(v)' = Movements(v) /\ Assessed(v)' = Assessed(v)
  BY DEF Movements, Assessed
<1>2. \A tier : Writes(v, tier)' = Writes(v, tier)
  BY <1>1 DEF Writes
<1>3. \A p : Reference(v, p)' = Reference(v, p)
  BY DEF Reference
<1> QED BY <1>1, <1>2, <1>3

LEMMA OthersKept ==
  ASSUME NEW v \in Workers, db' = db, tx'[v] = tx[v], core \subseteq core',
         Held(v), ReadInv(v), WrittenInv(v)
  PROVE  Held(v)' /\ ReadInv(v)' /\ WrittenInv(v)'
<1>1. Held(v)' /\ ReadInv(v)'
  BY DEF Held, ReadInv, Fresh
<1>2. WrittenInv(v)'
  BY WritesKept DEF WrittenInv
<1> QED BY <1>1, <1>2

\* A step that commits nothing keeps the invariant if it keeps it for its own worker and
\* takes the row lock only when it is free.
LEMMA LocalStep ==
  ASSUME Shape, TxInv, NEW w \in Workers, NEW t, Becomes(w, t), TxShape(t),
         db' = db, core \subseteq core', db.state # "NONE",
         "row" \in t.held => /\ t.rec.version = db.version
                             /\ "row" \in tx[w].held \/ Others(w, "row") = {},
         Held(w)', ReadInv(w)', WrittenInv(w)'
  PROVE  Shape' /\ TxInv'
<1>1. \A v \in Workers : tx'[v] = IF v = w THEN t ELSE tx[v]
  BY DEF Becomes
<1>2. Shape'
  <2>1. \A v \in Workers : TxShape(tx'[v])
    BY <1>1 DEF Shape
  <2>2. DbShape' /\ SeqInv'
    BY DEF Shape, DbShape, SeqInv
  <2> QED BY <2>1, <2>2 DEF Shape, Becomes
<1>3. \A v \in Workers : Held(v)' /\ ReadInv(v)' /\ WrittenInv(v)'
  <2> SUFFICES ASSUME NEW v \in Workers, v # w PROVE Held(v)' /\ ReadInv(v)' /\ WrittenInv(v)'
    OBVIOUS
  <2>1. tx'[v] = tx[v] /\ Held(v) /\ ReadInv(v) /\ WrittenInv(v)
    BY <1>1 DEF TxInv
  <2> QED BY <2>1, OthersKept
<1>4. RowLock'
  <2>1. \A v \in Workers : v # w /\ "row" \in tx[v].held => "row" \notin t.held
    BY DEF TxInv, RowLock, Others
  <2> QED BY <1>1, <2>1 DEF TxInv, RowLock
<1>5. Unopened'
  BY DEF Unopened
<1> QED BY <1>2, <1>3, <1>4, <1>5 DEF TxInv

\* A transaction given up leaves nothing to keep.
LEMMA IdleStep ==
  ASSUME Shape, TxInv, NEW w \in Workers, tx[w].pc # "idle", tx' = [tx EXCEPT ![w] = Idle],
         db' = db, core \subseteq core'
  PROVE  Shape' /\ TxInv'
<1>1. Becomes(w, Idle)
  BY RollbackEffect
<1>2. tx'[w] = Idle
  BY <1>1 DEF Becomes
<1>3. Held(w)' /\ ReadInv(w)' /\ WrittenInv(w)'
  BY <1>2, IdleShape DEF Held, ReadInv, WrittenInv
<1>4. db.state # "NONE"
  BY DEF TxInv, Unopened
<1> QED BY <1>1, <1>3, <1>4, IdleShape, LocalStep

\* The fields of a transaction built by Tx.
LEMMA TxFields ==
  ASSUME NEW a, NEW b, NEW c, NEW d, NEW e, NEW f
  PROVE  LET t == Tx(a, b, c, d, e, f)
         IN /\ t.pc = a /\ t.req = b /\ t.rec = c /\ t.to = d /\ t.held = e /\ t.writes = f
            /\ /\ a \in {"idle", "read", "hold", "update", "append", "move", "post", "put", "commit"}
               /\ e \subseteq {"row", "event", "key"} /\ b \in Requests /\ c.version \in Nat
               => TxShape(t)
BY DEF Tx, TxShape

\* A running transaction that moves on keeps its shape.
LEMMA MovedShape ==
  ASSUME NEW w \in Workers, TxShape(tx[w]), tx[w].pc # "idle",
         NEW pc \in {"update", "append", "move", "post", "commit"}, NEW held,
         held \subseteq {"row", "event", "key"}
  PROVE  TxShape(Tx(pc, tx[w].req, tx[w].rec, tx[w].to, held, tx[w].writes))
BY DEF Tx, TxShape

LEMMA BeginStep ==
  ASSUME Shape, TxInv, NEW w \in Workers, NEW q \in Requests, Begin(w, q)
  PROVE  Shape' /\ TxInv'
<1>1. CASE tx' = [tx EXCEPT ![w].pc = "read", ![w].req = q]
  <2> DEFINE t == Tx("read", q, tx[w].rec, tx[w].to, tx[w].held, tx[w].writes)
  <2>1. TxShape(tx[w]) /\ Held(w) /\ tx[w].pc = "idle"
    BY DEF Begin, Shape, TxInv
  <2>2. tx[w].held = {} /\ tx[w].rec.version \in Nat
    BY <2>1 DEF Held, TxShape
  <2>3. t.pc = "read" /\ t.held = {} /\ TxShape(t)
    BY <2>2, TxFields
  <2>4. Becomes(w, t)
    BY <1>1, BeginEffect
  <2> HIDE DEF t
  <2>5. tx'[w] = t
    BY <2>4 DEF Becomes
  <2>6. Held(w)' /\ ReadInv(w)' /\ WrittenInv(w)'
    BY <2>3, <2>5 DEF Held, ReadInv, WrittenInv
  <2> QED BY <2>3, <2>4, <2>6, LocalStep DEF Begin
<1>2. CASE UNCHANGED tx
  <2>1. Becomes(w, tx[w]) /\ TxShape(tx[w])
    BY <1>2 DEF Becomes, Shape
  <2>2. Held(w)' /\ ReadInv(w)' /\ WrittenInv(w)'
    <3>1. Held(w) /\ ReadInv(w) /\ WrittenInv(w)
      BY DEF TxInv
    <3> QED BY <1>2, <3>1, OthersKept DEF Begin
  <2>3. "row" \in tx[w].held => tx[w].rec.version = db.version
    BY DEF TxInv, RowLock
  <2> QED BY <2>1, <2>2, <2>3, LocalStep DEF Begin
<1> QED BY <1>1, <1>2 DEF Begin

LEMMA GetStep ==
  ASSUME Shape, TxInv, NEW w \in Workers, GetDispute(w)
  PROVE  Shape' /\ TxInv'
<1> DEFINE q == tx[w].req
           rec == Row(db.state, db.appeals, db.version)
           pc == CASE q.event = "REASSIGNED"   -> "append"
                   [] q.event = "ISSUE_REFUND" -> "hold"
                   [] OTHER                    -> "update"
           next_ == IF q.event = "REASSIGNED"
                      THEN IF q.team \in Teams \ {db.team} THEN {rec} ELSE {}
                      ELSE {Row(n.state, n.appeals, db.version) :
                              n \in Apply(Rules[db.regime], db.state, db.appeals, q.event)}
<1>0. tx[w].pc = "read" /\ TxShape(tx[w]) /\ Held(w) /\ db.version \in Nat
  BY DEF GetDispute, Shape, SeqInv, TxInv
<1>1. CASE Rollback(w)
  BY <1>0, <1>1, IdleStep DEF Rollback
<1>2. ASSUME NEW to \in next_,
             tx' = [tx EXCEPT ![w].rec = rec, ![w].to = to, ![w].pc = pc],
             UNCHANGED <<db, keys, core, tries, answers>>
      PROVE  Shape' /\ TxInv'
  <2> DEFINE t == Tx(pc, q, rec, to, tx[w].held, tx[w].writes)
  <2>1. /\ pc \in {"append", "hold", "update"}
        /\ pc = "append" <=> q.event = "REASSIGNED"
        /\ pc # "hold" => q.event # "ISSUE_REFUND"
    OBVIOUS
  <2>2. tx[w].held = {} /\ q \in Requests /\ rec.version = db.version
    BY <1>0 DEF Held, TxShape, Row
  <2>3. /\ q.event = "REASSIGNED" => to = rec /\ q.team \in Teams \ {db.team}
        /\ q.event # "REASSIGNED" =>
             \E n \in Apply(Rules[db.regime], db.state, db.appeals, q.event) :
               to = Row(n.state, n.appeals, db.version)
    <3>1. CASE q.event = "REASSIGNED"
      BY <1>2, <3>1
    <3>2. CASE q.event # "REASSIGNED"
      BY <1>2, <3>2
    <3> QED BY <3>1, <3>2
  <2>4. Becomes(w, t)
    BY <1>2, GetEffect
  <2>5. rec = Row(db.state, db.appeals, db.version) /\ rec.state = db.state
    BY DEF Row
  <2> HIDE DEF pc, rec, next_
  <2>6. /\ t.pc = pc /\ t.req = q /\ t.rec = rec /\ t.to = to /\ t.held = {} /\ TxShape(t)
    BY <1>0, <2>1, <2>2, TxFields
  <2> HIDE DEF t
  <2>7. tx'[w] = t /\ db' = db /\ core' = core
    BY <1>2, <2>4 DEF Becomes
  <2>8. Held(w)' /\ WrittenInv(w)'
    BY <2>1, <2>6, <2>7 DEF Held, WrittenInv
  <2>9. Fresh(w)'
    <3>1. t.rec = Row(db.state, db.appeals, db.version)
      BY <2>5, <2>6
    <3>2. t.req.event = "REASSIGNED" => t.to.state = db.state /\ t.req.team \in Teams \ {db.team}
      BY <2>3, <2>5, <2>6
    <3>3. t.req.event # "REASSIGNED" =>
            \E n \in Apply(Rules[db.regime], db.state, db.appeals, t.req.event) :
              t.to = Row(n.state, n.appeals, db.version)
      BY <2>3, <2>6
    <3>4. t.pc # "hold" => holdCheck(db.risk, t.req.event, t.req)
      BY <2>1, <2>6 DEF holdCheck
    <3> QED BY <2>7, <3>1, <3>2, <3>3, <3>4 DEF Fresh
  <2>10. ReadInv(w)'
    BY <1>0, <2>2, <2>6, <2>7, <2>9 DEF ReadInv
  <2>11. db.state # "NONE"
    BY <1>0 DEF TxInv, Unopened
  <2> QED BY <2>4, <2>6, <2>7, <2>8, <2>10, <2>11, LocalStep
<1> QED BY <1>1, <1>2 DEF GetDispute

\* A step that only moves the program counter on, or takes a lock or a pending row as
\* well: the transaction has read, and what it read does not change.
LEMMA MoveStep ==
  ASSUME Shape, TxInv, NEW w \in Workers, tx[w].pc \notin {"idle", "read"},
         NEW pc \in {"update", "append", "move", "post", "commit"}, NEW held,
         held \subseteq {"row", "event", "key"},
         Becomes(w, Tx(pc, tx[w].req, tx[w].rec, tx[w].to, held, tx[w].writes)),
         db' = db, core' = core,
         tx[w].pc = "hold" /\ tx[w].rec.version = db.version =>
           holdCheck(db.risk, tx[w].req.event, tx[w].req),
         "row" \in held => /\ tx[w].rec.version = db.version
                           /\ "row" \in tx[w].held \/ Others(w, "row") = {},
         pc = "commit" /\ tx[w].req.event # "REASSIGNED" => tx[w].pc = "put",
         Held(w)'
  PROVE  Shape' /\ TxInv'
<1> DEFINE t == Tx(pc, tx[w].req, tx[w].rec, tx[w].to, held, tx[w].writes)
<1>1. /\ TxShape(tx[w]) /\ ReadInv(w) /\ WrittenInv(w) /\ db.state # "NONE"
  BY DEF Shape, TxInv, Unopened
<1>3. /\ t.pc = pc /\ t.req = tx[w].req /\ t.rec = tx[w].rec /\ t.to = tx[w].to /\ t.held = held
      /\ t.writes = tx[w].writes /\ TxShape(t)
  <2>2. /\ t.pc = pc /\ t.req = tx[w].req /\ t.rec = tx[w].rec /\ t.to = tx[w].to /\ t.held = held
        /\ t.writes = tx[w].writes
    BY TxFields
  <2>3. TxShape(t)
    BY <1>1, MovedShape
  <2> QED BY <2>2, <2>3
<1>4. Becomes(w, t)
  OBVIOUS
<1> HIDE DEF t
<1>5. tx'[w] = t
  BY <1>4 DEF Becomes
<1>6. tx[w].rec.version = db.version => Fresh(w)'
  BY <1>1, <1>3, <1>5 DEF ReadInv, Fresh
<1>7. ReadInv(w)'
  BY <1>1, <1>3, <1>5, <1>6 DEF ReadInv
<1>8. WrittenInv(w)'
  BY <1>1, <1>3, <1>5, WritesKept DEF WrittenInv
<1>9. "row" \in t.held => /\ t.rec.version = db.version
                          /\ "row" \in tx[w].held \/ Others(w, "row") = {}
  BY <1>3
<1> QED BY <1>1, <1>3, <1>4, <1>7, <1>8, <1>9, LocalStep

LEMMA HoldStep ==
  ASSUME Shape, TxInv, NEW w \in Workers, HoldCheck(w)
  PROVE  Shape' /\ TxInv'
<1>0. tx[w].pc = "hold" /\ Held(w) /\ TxShape(tx[w])
  BY DEF HoldCheck, TxInv, Shape
<1>1. CASE Rollback(w)
  BY <1>0, <1>1, IdleStep DEF Rollback
<1>2. CASE Goto(w, "update") /\ holdCheck(db.risk, "ISSUE_REFUND", tx[w].req)
  <2> DEFINE t == Tx("update", tx[w].req, tx[w].rec, tx[w].to, tx[w].held, tx[w].writes)
  <2>1. Becomes(w, t)
    BY <1>2, GotoEffect DEF Goto
  <2>2. tx'[w] = t /\ t.pc = "update" /\ t.req = tx[w].req /\ t.held = tx[w].held /\ tx[w].held = {}
    BY <1>0, <2>1, TxFields DEF Becomes, Held
  <2>3. Held(w)'
    BY <1>0, <2>2 DEF Held
  <2>4. holdCheck(db.risk, tx[w].req.event, tx[w].req)
    BY <1>2 DEF holdCheck
  <2> QED BY <1>0, <1>2, <2>1, <2>2, <2>3, <2>4, MoveStep DEF Goto
<1> QED BY <1>1, <1>2 DEF HoldCheck

LEMMA UpdateStep ==
  ASSUME Shape, TxInv, NEW w \in Workers, UpdateDisputeState(w)
  PROVE  Shape' /\ TxInv'
<1>0. tx[w].pc = "update" /\ Held(w) /\ TxShape(tx[w]) /\ Others(w, "row") = {}
  BY DEF UpdateDisputeState, TxInv, Shape
<1>1. CASE Rollback(w)
  BY <1>0, <1>1, IdleStep DEF Rollback
<1>2. CASE Grab(w, "row", "append") /\ db.version = tx[w].rec.version
  <2> DEFINE h == tx[w].held \cup {"row"}
             t == Tx("append", tx[w].req, tx[w].rec, tx[w].to, h, tx[w].writes)
  <2>1. Becomes(w, t)
    BY <1>2, GrabEffect
  <2>2. tx'[w] = t /\ t.pc = "append" /\ t.req = tx[w].req /\ t.held = {"row"} /\ h = {"row"}
    BY <1>0, <2>1, TxFields DEF Becomes, Held
  <2>3. Held(w)'
    BY <1>0, <2>2 DEF Held
  <2> HIDE DEF h
  <2> QED BY <1>0, <1>2, <2>1, <2>2, <2>3, MoveStep DEF Grab
<1> QED BY <1>1, <1>2 DEF UpdateDisputeState

LEMMA AppendStep ==
  ASSUME Shape, TxInv, NEW w \in Workers, AppendEvent(w)
  PROVE  Shape' /\ TxInv'
<1>0. tx[w].pc = "append" /\ Held(w) /\ TxShape(tx[w])
  BY DEF AppendEvent, TxInv, Shape
<1>1. CASE Rollback(w)
  BY <1>0, <1>1, IdleStep DEF Rollback
<1>2. ASSUME NEW pc, pc = IF tx[w].req.event = "REASSIGNED" THEN "move" ELSE "post",
             Grab(w, "event", pc)
      PROVE  Shape' /\ TxInv'
  <2> DEFINE h == tx[w].held \cup {"event"}
             t == Tx(pc, tx[w].req, tx[w].rec, tx[w].to, h, tx[w].writes)
  <2>1. Becomes(w, t)
    BY <1>2, GrabEffect
  <2>2. tx'[w] = t /\ t.pc = pc /\ t.req = tx[w].req /\ t.held = h
    BY <2>1, TxFields DEF Becomes
  <2>3. h \subseteq {"row", "event", "key"} /\ "key" \notin h /\ ("row" \in h <=> "row" \in tx[w].held)
    BY <1>0 DEF TxShape, Held
  <2> HIDE DEF h
  <2>4. Held(w)'
    BY <1>0, <1>2, <2>2, <2>3 DEF Held
  <2>5. "row" \in h => tx[w].rec.version = db.version
    BY <2>3 DEF TxInv, RowLock
  <2> QED BY <1>0, <1>2, <2>1, <2>3, <2>4, <2>5, MoveStep DEF Grab
<1> QED BY <1>1, <1>2 DEF AppendEvent

LEMMA TeamStep ==
  ASSUME Shape, TxInv, NEW w \in Workers, UpdateDisputeTeam(w)
  PROVE  Shape' /\ TxInv'
<1>0. tx[w].pc = "move" /\ Held(w) /\ TxShape(tx[w]) /\ Others(w, "row") = {}
  BY DEF UpdateDisputeTeam, TxInv, Shape
<1>1. CASE Rollback(w)
  BY <1>0, <1>1, IdleStep DEF Rollback
<1>2. CASE Grab(w, "row", "commit") /\ db.version = tx[w].rec.version
  <2> DEFINE h == tx[w].held \cup {"row"}
             t == Tx("commit", tx[w].req, tx[w].rec, tx[w].to, h, tx[w].writes)
  <2>1. Becomes(w, t)
    BY <1>2, GrabEffect
  <2>2. tx'[w] = t /\ t.pc = "commit" /\ t.req = tx[w].req /\ t.held = h
    BY <2>1, TxFields DEF Becomes
  <2>3. h \subseteq {"row", "event", "key"} /\ "row" \in h /\ "key" \notin h
    BY <1>0 DEF TxShape, Held
  <2> HIDE DEF h
  <2>4. tx[w].req.event = "REASSIGNED"
    BY <1>0 DEF Held
  <2>5. Held(w)'
    BY <1>0, <2>2, <2>3, <2>4 DEF Held
  <2> QED BY <1>0, <1>2, <2>1, <2>3, <2>4, <2>5, MoveStep DEF Grab
<1> QED BY <1>1, <1>2 DEF UpdateDisputeTeam

LEMMA PutStep ==
  ASSUME Shape, TxInv, NEW w \in Workers, PutIdempotent(w)
  PROVE  Shape' /\ TxInv'
<1>0. tx[w].pc = "put" /\ Held(w) /\ TxShape(tx[w])
  BY DEF PutIdempotent, TxInv, Shape
<1>1. CASE Rollback(w)
  BY <1>0, <1>1, IdleStep DEF Rollback
<1>2. CASE Grab(w, "key", "commit")
  <2> DEFINE h == tx[w].held \cup {"key"}
             t == Tx("commit", tx[w].req, tx[w].rec, tx[w].to, h, tx[w].writes)
  <2>1. Becomes(w, t)
    BY <1>2, GrabEffect
  <2>2. tx'[w] = t /\ t.pc = "commit" /\ t.req = tx[w].req /\ t.held = h
    BY <2>1, TxFields DEF Becomes
  <2>3. /\ h \subseteq {"row", "event", "key"} /\ "key" \in h /\ "row" \in h /\ "row" \in tx[w].held
    BY <1>0 DEF TxShape, Held
  <2> HIDE DEF h
  <2>4. Held(w)'
    BY <1>0, <2>2, <2>3 DEF Held
  <2>5. tx[w].rec.version = db.version
    BY <2>3 DEF TxInv, RowLock
  <2> QED BY <1>0, <1>2, <2>1, <2>3, <2>4, <2>5, MoveStep DEF Grab
<1> QED BY <1>1, <1>2 DEF PutIdempotent

\* The rows of the transition are written and the core has answered, where it was asked.
LEMMA PostStep ==
  ASSUME Shape, TxInv, NEW w \in Workers, Posting(w), NEW tier \in Assessed(w), Write(w, tier),
         db' = db, core \subseteq core',
         \A i \in DOMAIN Movements(w) : TouchesCustomer(Movements(w)[i]) =>
           \E m \in core' : m.ref = Reference(w, Movements(w)[i])
  PROVE  Shape' /\ TxInv'
<1> DEFINE t == Tx("put", tx[w].req, tx[w].rec, tx[w].to, tx[w].held, Writes(w, tier))
<1>1. /\ tx[w].pc = "post" /\ TxShape(tx[w]) /\ Held(w) /\ ReadInv(w)
      /\ PayloadValid(Rules[db.regime], db.disputed, tx[w].req.event, tx[w].req)
      /\ db.state # "NONE"
  BY DEF Posting, Shape, TxInv, Unopened
<1>2. /\ tx[w].req \in Requests /\ tx[w].rec.version \in Nat
      /\ tx[w].held \subseteq {"row", "event", "key"}
  BY <1>1 DEF TxShape
<1>3. /\ t.pc = "put" /\ t.req = tx[w].req /\ t.rec = tx[w].rec /\ t.to = tx[w].to
      /\ t.held = tx[w].held /\ t.writes = Writes(w, tier)
  BY TxFields
<1>4. TxShape(t)
  BY <1>2, TxFields
<1>5. Becomes(w, t)
  BY WriteEffect
<1> HIDE DEF t
<1>6. tx'[w] = t
  BY <1>5 DEF Becomes
<1>7. Held(w)'
  BY <1>1, <1>3, <1>6 DEF Held
<1>8. ReadInv(w)'
  <2>1. tx[w].rec.version = db.version => Fresh(w)'
    BY <1>1, <1>3, <1>6 DEF ReadInv, Fresh
  <2> QED BY <1>1, <1>3, <1>6, <2>1 DEF ReadInv
<1>9. WrittenInv(w)'
  <2>1. /\ Movements(w)' = Movements(w) /\ Assessed(w)' = Assessed(w)
        /\ Writes(w, tier)' = Writes(w, tier)
        /\ \A p : Reference(w, p)' = Reference(w, p)
    BY <1>3, <1>6, WritesKept
  <2>2. \E x \in Assessed(w)' : tx'[w].writes = Writes(w, x)'
    BY <1>3, <1>6, <2>1
  <2>3. PayloadValid(Rules[db.regime], db.disputed, tx[w].req.event, tx[w].req)'
    BY <1>1, <1>3, <1>6
  <2>4. \A i \in DOMAIN Movements(w)' : TouchesCustomer(Movements(w)'[i]) =>
           \E m \in core' : m.ref = Reference(w, Movements(w)[i])'
    BY <2>1
  <2> QED BY <2>2, <2>3, <2>4 DEF WrittenInv
<1>10. "row" \in t.held => t.rec.version = db.version /\ "row" \in tx[w].held
  BY <1>3 DEF TxInv, RowLock
<1> QED BY <1>1, <1>4, <1>5, <1>7, <1>8, <1>9, <1>10, LocalStep

\* Entering a state moves money at most once.
LEMMA OneMovement ==
  ASSUME NEW w \in Workers
  PROVE  \/ Movements(w) = <<>>
         \/ \E p : /\ Movements(w) = <<p>>
                   /\ p.kind \in CustomerKinds <=> TouchesCustomer(p)
<1> DEFINE r == Rules[db.regime]
           q == tx[w].req
<1>1. \A kind, debit, credit, amount :
        \/ post(kind, debit, credit, amount) = <<>>
        \/ post(kind, debit, credit, amount)
             = <<[kind |-> kind, debit |-> debit, credit |-> credit, amount |-> amount]>>
  BY DEF post
<1>2. \/ Movements(w) = <<>>
      \/ \E kind \in CreditKinds : \E amount : Movements(w) = post(kind, "SUSPENSE", "CUSTOMER", amount)
      \/ \E amount : Movements(w) = post("PROVISIONAL_CREDIT_REVERSAL", "CUSTOMER", "SUSPENSE", amount)
      \/ \E amount : Movements(w) = post("RECOVERY", "RECOVERY", "SUSPENSE", amount)
      \/ \E amount : Movements(w) = post("WRITE_OFF", "LOSS", "SUSPENSE", amount)
  BY DEF Movements, Postings, creditKind, reversal, settlements, settle, CreditKinds
<1>3. ASSUME NEW kind, NEW debit, NEW credit, NEW amount,
             Movements(w) = post(kind, debit, credit, amount),
             kind \in CustomerKinds <=> debit = "CUSTOMER" \/ credit = "CUSTOMER"
      PROVE  \/ Movements(w) = <<>>
             \/ \E p : /\ Movements(w) = <<p>>
                       /\ p.kind \in CustomerKinds <=> TouchesCustomer(p)
  <2> DEFINE p == [kind |-> kind, debit |-> debit, credit |-> credit, amount |-> amount]
  <2>1. p.kind = kind /\ (TouchesCustomer(p) <=> debit = "CUSTOMER" \/ credit = "CUSTOMER")
    BY DEF TouchesCustomer
  <2>2. Movements(w) = <<>> \/ Movements(w) = <<p>>
    BY <1>1, <1>3
  <2> HIDE DEF p
  <2> QED BY <1>3, <2>1, <2>2
<1> QED BY <1>2, <1>3 DEF CustomerKinds, CreditKinds

LEMMA BooksStep ==
  ASSUME Shape, TxInv, NEW w \in Workers, PostBooks(w) PROVE Shape' /\ TxInv'
<1>1. PICK tier \in Assessed(w) : Write(w, tier)
  BY DEF PostBooks
<1> QED BY <1>1, PostStep DEF PostBooks

LEMMA ApproveStep ==
  ASSUME Shape, TxInv, NEW w \in Workers, CoreApproves(w) PROVE Shape' /\ TxInv'
<1>1. PICK tier \in Assessed(w) : Write(w, tier)
  BY DEF CoreApproves
<1>2. PICK i \in DOMAIN Movements(w) :
        core' = IF \E m \in core : m.ref = Reference(w, Movements(w)[i]) THEN core
                  ELSE core \cup {[ref |-> Reference(w, Movements(w)[i]), key |-> tx[w].req.key,
                                   amount |-> Movements(w)[i].amount]}
  BY DEF CoreApproves
<1>3. core \subseteq core' /\ \E m \in core' : m.ref = Reference(w, Movements(w)[i])
  <2> DEFINE new == [ref |-> Reference(w, Movements(w)[i]), key |-> tx[w].req.key,
                     amount |-> Movements(w)[i].amount]
  <2>1. CASE \E m \in core : m.ref = Reference(w, Movements(w)[i])
    BY <1>2, <2>1
  <2>2. CASE ~\E m \in core : m.ref = Reference(w, Movements(w)[i])
    <3>1. core' = core \cup {new} /\ new.ref = Reference(w, Movements(w)[i])
      BY <1>2, <2>2
    <3> QED BY <3>1
  <2> QED BY <2>1, <2>2
<1>4. \A j \in DOMAIN Movements(w) : j = i
  <2>1. PICK p : Movements(w) = <<p>>
    BY <1>2, OneMovement
  <2> QED BY <1>2, <2>1
<1> QED BY <1>1, <1>3, <1>4, PostStep DEF CoreApproves

\* A commit happens under the row lock, so whoever else has read the row has read an
\* older version from now on.
LEMMA CommitFacts ==
  ASSUME Shape, TxInv, NEW w \in Workers, Commit(w)
  PROVE  /\ tx[w].pc = "commit" /\ "row" \in tx[w].held /\ tx[w].req \in Requests
         /\ tx[w].rec.version = db.version /\ Fresh(w) /\ tx[w].rec.state = db.state
         /\ db.state # "NONE" /\ db.version \in Nat
         /\ WrittenInv(w) /\ Held(w) /\ DbShape /\ SeqInv
         /\ Becomes(w, Idle) /\ core' = core
<1>1. tx[w].pc = "commit" /\ Held(w) /\ ReadInv(w) /\ WrittenInv(w) /\ TxShape(tx[w])
  BY DEF Commit, TxInv, Shape
<1>2. "row" \in tx[w].held /\ tx[w].rec.version = db.version /\ Fresh(w) /\ tx[w].req \in Requests
  BY <1>1 DEF Held, TxInv, RowLock, ReadInv, TxShape
<1>3. tx[w].rec.state = db.state
  BY <1>2 DEF Fresh, Row
<1>4. db.state # "NONE"
  BY <1>1 DEF TxInv, Unopened
<1>5. Becomes(w, Idle) /\ core' = core
  BY RollbackEffect DEF Commit
<1> QED BY <1>1, <1>2, <1>3, <1>4, <1>5 DEF Shape, SeqInv

\* The row of the log a commit adds.
EventOf(w) ==
  [seq |-> tx[w].rec.version + 1, event |-> tx[w].req.event, from |-> tx[w].rec.state,
   to |-> tx[w].to.state, key |-> tx[w].req.key, override |-> tx[w].req.override]

\* What a commit of a move writes.
LEMMA MoveCommit ==
  ASSUME Shape, TxInv, NEW w \in Workers, Commit(w), tx[w].req.event = "REASSIGNED"
  PROVE  /\ db'.version = db.version + 1 /\ db'.log = Append(db.log, EventOf(w))
         /\ db'.team = tx[w].req.team
         /\ db'.state = db.state /\ db'.appeals = db.appeals /\ db'.ledger = db.ledger
         /\ db'.bal = db.bal /\ db'.clocks = db.clocks /\ db'.questionnaire = db.questionnaire
         /\ db'.risk = db.risk /\ db'.notices = db.notices /\ db'.regime = db.regime
         /\ db'.disputed = db.disputed /\ db'.addresses = db.addresses
         /\ DbShape' /\ keys' = keys /\ answers' = answers
<1>1. /\ db' = [db EXCEPT !.team = tx[w].req.team, !.version = @ + 1, !.log = Append(@, EventOf(w))]
      /\ UNCHANGED <<keys, answers>>
  BY DEF Commit, EventOf
<1>2. DbShape
  BY DEF Shape
<1>3. /\ db'.version = db.version + 1 /\ db'.log = Append(db.log, EventOf(w))
      /\ db'.team = tx[w].req.team
  BY <1>1, <1>2 DEF DbShape
<1>4. /\ db'.state = db.state /\ db'.appeals = db.appeals /\ db'.ledger = db.ledger
      /\ db'.bal = db.bal /\ db'.clocks = db.clocks /\ db'.questionnaire = db.questionnaire
      /\ db'.risk = db.risk /\ db'.notices = db.notices /\ db'.regime = db.regime
      /\ db'.disputed = db.disputed /\ db'.addresses = db.addresses
  BY <1>1, <1>2 DEF DbShape
<1>5. DbShape'
  BY <1>1, <1>2 DEF DbShape
<1> QED BY <1>1, <1>3, <1>4, <1>5

\* What a commit of a transition writes.
LEMMA EventCommit ==
  ASSUME Shape, TxInv, NEW w \in Workers, Commit(w), tx[w].req.event # "REASSIGNED"
  PROVE  /\ db'.version = db.version + 1 /\ db'.log = Append(db.log, EventOf(w))
         /\ db'.state = tx[w].to.state /\ db'.appeals = tx[w].to.appeals
         /\ db'.ledger = db.ledger \o LedgerRows(tx[w].rec.version + 1, tx[w].writes.postings)
         /\ db'.bal = Book(db.bal, tx[w].writes.postings)
         /\ db'.clocks = (db.clocks \ tx[w].writes.clocksOut) \cup tx[w].writes.clocksIn
         /\ db'.questionnaire = tx[w].writes.questionnaire /\ db'.risk = tx[w].writes.risk
         /\ db'.notices = db.notices \cup tx[w].writes.notices
         /\ db'.team = db.team /\ db'.regime = db.regime
         /\ db'.disputed = db.disputed /\ db'.addresses = db.addresses
         /\ DbShape' /\ keys' = keys \cup {tx[w].req} /\ answers' = answers \cup {tx[w].req}
<1> DEFINE wr == tx[w].writes
           rows == LedgerRows(tx[w].rec.version + 1, wr.postings)
           bal == Book(db.bal, wr.postings)
           log == Append(db.log, EventOf(w))
<1>1. /\ db' = [db EXCEPT !.state = tx[w].to.state, !.appeals = tx[w].to.appeals,
                          !.version = @ + 1, !.log = log,
                          !.ledger = @ \o rows, !.bal = bal,
                          !.clocks = (@ \ wr.clocksOut) \cup wr.clocksIn,
                          !.questionnaire = wr.questionnaire, !.risk = wr.risk,
                          !.notices = @ \cup wr.notices]
      /\ keys' = keys \cup {tx[w].req} /\ answers' = answers \cup {tx[w].req}
  BY DEF Commit, EventOf
<1>2. DbShape
  BY DEF Shape
<1> HIDE DEF rows, bal, log
<1>3. /\ db'.version = db.version + 1 /\ db'.log = log
      /\ db'.state = tx[w].to.state /\ db'.appeals = tx[w].to.appeals
  BY <1>1, <1>2 DEF DbShape
<1>4. db'.ledger = db.ledger \o rows /\ db'.bal = bal
  BY <1>1, <1>2 DEF DbShape
<1>5. /\ db'.clocks = (db.clocks \ wr.clocksOut) \cup wr.clocksIn
      /\ db'.notices = db.notices \cup wr.notices
  BY <1>1, <1>2 DEF DbShape
<1>6. /\ db'.questionnaire = wr.questionnaire /\ db'.risk = wr.risk
      /\ db'.team = db.team /\ db'.regime = db.regime
      /\ db'.disputed = db.disputed /\ db'.addresses = db.addresses
  BY <1>1, <1>2 DEF DbShape
<1>7. DbShape'
  BY <1>1, <1>2 DEF DbShape
<1> QED BY <1>1, <1>3, <1>4, <1>5, <1>6, <1>7 DEF rows, bal, log

\* Sequences that grow stay sequences, and what was in them stays in place.
LEMMA Grown ==
  ASSUME NEW s, \E S : s \in Seq(S), NEW x
  PROVE  /\ \E S : Append(s, x) \in Seq(S)
         /\ Len(s) \in Nat /\ DOMAIN s = 1..Len(s)
         /\ DOMAIN Append(s, x) = 1..(Len(s) + 1)
         /\ \A i \in DOMAIN s : Append(s, x)[i] = s[i]
         /\ Append(s, x)[Len(s) + 1] = x
<1>1. PICK S : s \in Seq(S)
  OBVIOUS
<1>2. x \in S \cup {x} /\ s \in Seq(S \cup {x})
  BY <1>1
<1>3. Append(s, x) \in Seq(S \cup {x})
  BY <1>2
<1> QED BY <1>2, <1>3

\* The rows a posting becomes: none, or one under its own kind.
LEMMA RowsLemma ==
  ASSUME NEW w \in Workers, NEW s, \E S : s \in Seq(S), NEW seq
  PROVE  LET rows == LedgerRows(seq, Movements(w))
         IN /\ \E S : s \o rows \in Seq(S)
            /\ \/ Movements(w) = <<>> /\ s \o rows = s
               \/ /\ Movements(w) # <<>>
                  /\ s \o rows = Append(s, [seq |-> seq, kind |-> Movements(w)[1].kind,
                                            amount |-> Movements(w)[1].amount])
<1>1. PICK S : s \in Seq(S)
  OBVIOUS
<1>2. CASE Movements(w) = <<>>
  BY <1>1, <1>2 DEF LedgerRows
<1>3. CASE Movements(w) # <<>>
  <2> DEFINE x == [seq |-> seq, kind |-> Movements(w)[1].kind, amount |-> Movements(w)[1].amount]
  <2>1. LedgerRows(seq, Movements(w)) = <<x>>
    BY <1>3 DEF LedgerRows
  <2> HIDE DEF x
  <2>2. s \o <<x>> = Append(s, x)
    BY <1>1
  <2>3. \E T : Append(s, x) \in Seq(T)
    BY <1>1, Grown
  <2> QED BY <1>3, <2>1, <2>2, <2>3 DEF x
<1> QED BY <1>2, <1>3

\* No event leads out of existence.
LEMMA ApplyExists ==
  ASSUME NEW r, NEW from, NEW used, NEW e, NEW n \in Apply(r, from, used, e)
  PROVE  n.state # "NONE"
<1>1. CASE e = "APPEAL"
  BY <1>1 DEF Apply
<1>2. CASE e # "APPEAL"
  <2>1. PICK to \in next(r, from, e) : n = [state |-> to, appeals |-> used]
    BY <1>2 DEF Apply
  <2>2. to \in AllStates
    BY <2>1 DEF next
  <2> QED BY <2>1, <2>2 DEF AllStates, RefundStates
<1> QED BY <1>1, <1>2

\* The writes of a transition that is about to commit, field by field.
LEMMA WritesFields ==
  ASSUME NEW w \in Workers, WrittenInv(w), tx[w].pc = "commit", tx[w].req.event # "REASSIGNED"
  PROVE  /\ tx[w].writes.postings = Movements(w)
         /\ tx[w].writes.risk \in Assessed(w)
         /\ tx[w].writes.questionnaire = Questionnaire(tx[w].req.event, db.questionnaire)
<1>1. PICK tier \in Assessed(w) : tx[w].writes = Writes(w, tier)
  BY DEF WrittenInv
<1> QED BY <1>1 DEF Writes

LEMMA CommitStep ==
  ASSUME Shape, TxInv, NEW w \in Workers, Commit(w)
  PROVE  Shape' /\ TxInv'
<1>0. /\ tx[w].pc = "commit" /\ "row" \in tx[w].held /\ Fresh(w) /\ db.state # "NONE"
      /\ db.version \in Nat /\ WrittenInv(w) /\ SeqInv /\ Becomes(w, Idle) /\ core' = core
  BY CommitFacts
<1>1. db'.version = db.version + 1 /\ db'.log = Append(db.log, EventOf(w)) /\ DbShape'
  BY MoveCommit, EventCommit
<1>2. /\ db'.state # "NONE" /\ \E S : db'.ledger \in Seq(S)
  <2>1. CASE tx[w].req.event = "REASSIGNED"
    <3>1. db'.state = db.state /\ db'.ledger = db.ledger
      BY <2>1, MoveCommit
    <3> QED BY <1>0, <3>1 DEF SeqInv
  <2>2. CASE tx[w].req.event # "REASSIGNED"
    <3>1. PICK n \in Apply(Rules[db.regime], db.state, db.appeals, tx[w].req.event) :
            tx[w].to = Row(n.state, n.appeals, db.version)
      BY <1>0, <2>2 DEF Fresh
    <3>2. n.state # "NONE" /\ tx[w].to.state = n.state
      BY <3>1, ApplyExists DEF Row
    <3>3. tx[w].writes.postings = Movements(w)
      BY <1>0, <2>2, WritesFields
    <3>4. /\ db'.state = tx[w].to.state
          /\ db'.ledger = db.ledger \o LedgerRows(tx[w].rec.version + 1, Movements(w))
      BY <2>2, <3>3, EventCommit
    <3>5. \E S : db.ledger \in Seq(S)
      BY <1>0 DEF SeqInv
    <3> QED BY <3>2, <3>4, <3>5, RowsLemma
  <2> QED BY <2>1, <2>2
<1>3. SeqInv'
  <2>1. \E S : db'.log \in Seq(S)
    <3>1. \E S : db.log \in Seq(S)
      BY <1>0 DEF SeqInv
    <3>2. \E S : Append(db.log, EventOf(w)) \in Seq(S)
      BY <3>1, Grown
    <3> QED BY <1>1, <3>2
  <2> QED BY <1>0, <1>1, <1>2, <2>1 DEF SeqInv
<1>4. \A v \in Workers : tx'[v] = IF v = w THEN Idle ELSE tx[v]
  BY <1>0 DEF Becomes
<1>5. Shape'
  <2>1. \A v \in Workers : TxShape(tx'[v])
    BY <1>4, IdleShape DEF Shape
  <2> QED BY <1>0, <1>1, <1>3, <2>1 DEF Shape, Becomes
<1>6. \A v \in Workers : v # w => "row" \notin tx[v].held
  BY <1>0 DEF TxInv, RowLock
<1>7. RowLock'
  BY <1>4, <1>6, IdleShape DEF RowLock
<1>8. Unopened'
  BY <1>2 DEF Unopened
<1>9. \A v \in Workers : Held(v)' /\ ReadInv(v)' /\ WrittenInv(v)'
  <2> SUFFICES ASSUME NEW v \in Workers PROVE Held(v)' /\ ReadInv(v)' /\ WrittenInv(v)'
    OBVIOUS
  <2>1. CASE v = w
    BY <1>4, <2>1, IdleShape DEF Held, ReadInv, WrittenInv
  <2>2. CASE v # w
    <3>1. tx'[v] = tx[v] /\ Held(v) /\ ReadInv(v) /\ "row" \notin tx[v].held /\ TxShape(tx[v])
      BY <1>4, <1>6, <2>2 DEF TxInv, Shape
    <3>2. Held(v)'
      BY <3>1 DEF Held
    <3>3. WrittenInv(v)'
      BY <3>1 DEF Held, WrittenInv
    <3>4. tx[v].pc \notin {"idle", "read"} => tx[v].rec.version =< db.version
      BY <3>1 DEF ReadInv
    <3>5. tx[v].rec.version \in Nat
      BY <3>1 DEF TxShape
    <3>6. tx[v].pc \notin {"idle", "read"} => tx[v].rec.version < db'.version
      BY <1>0, <1>1, <3>4, <3>5
    <3>7. db'.version \in Nat
      BY <1>0, <1>1
    <3>8. ReadInv(v)'
      BY <3>1, <3>5, <3>6, <3>7 DEF ReadInv
    <3> QED BY <3>2, <3>3, <3>8
  <2> QED BY <2>1, <2>2
<1> QED BY <1>5, <1>7, <1>8, <1>9 DEF TxInv

\* The fields of a dispute that has just been opened.
LEMMA OpenEffect ==
  ASSUME NEW r, NEW amount, NEW book, NEW tm, NEW tier, CreateDispute(r, amount, book, tm, tier)
  PROVE  /\ db.state = "NONE"
         /\ db'.regime = r /\ db'.disputed = amount /\ db'.addresses = book
         /\ db'.state = "INITIATED" /\ db'.appeals = 0 /\ db'.version = 1 /\ db'.team = tm
         /\ db'.log = <<[seq |-> 1, event |-> "OPENED", from |-> "NONE", to |-> "INITIATED",
                         key |-> "", override |-> FALSE]>>
         /\ db'.ledger = <<>> /\ db'.bal = db.bal
         /\ db'.clocks = acknowledge(OpeningDeadlines(Rules[r]))
         /\ db'.questionnaire = "none" /\ db'.risk = tier
         /\ db'.notices = notify(Rules[r], book, "INITIATED", 1, "")
         /\ DbShape' /\ UNCHANGED <<keys, tx, core, answers>>
<1> DEFINE cs == acknowledge(OpeningDeadlines(Rules[r]))
           ns == notify(Rules[r], book, "INITIATED", 1, "")
           ls == <<[seq |-> 1, event |-> "OPENED", from |-> "NONE", to |-> "INITIATED",
                    key |-> "", override |-> FALSE]>>
<1>1. /\ db.state = "NONE" /\ UNCHANGED <<keys, tx, core, answers>>
      /\ db' = [regime |-> r, disputed |-> amount, addresses |-> book, state |-> "INITIATED",
                appeals |-> 0, version |-> 1, team |-> tm, log |-> ls,
                ledger |-> <<>>, bal |-> db.bal, clocks |-> cs,
                questionnaire |-> "none", risk |-> tier, notices |-> ns]
  BY DEF CreateDispute
<1> HIDE DEF cs, ns, ls
<1>2. /\ db'.regime = r /\ db'.disputed = amount /\ db'.addresses = book
      /\ db'.state = "INITIATED" /\ db'.appeals = 0 /\ db'.version = 1 /\ db'.team = tm
      /\ db'.log = ls /\ db'.ledger = <<>> /\ db'.bal = db.bal /\ db'.clocks = cs
      /\ db'.questionnaire = "none" /\ db'.risk = tier /\ db'.notices = ns
  BY <1>1
<1>3. DbShape'
  BY <1>1 DEF DbShape
<1> QED BY <1>1, <1>2, <1>3 DEF cs, ns, ls

LEMMA CreateStep ==
  ASSUME Shape, TxInv, NEW r, NEW amount, NEW book, NEW tm, NEW tier,
         CreateDispute(r, amount, book, tm, tier)
  PROVE  Shape' /\ TxInv'
<1>0. /\ db.state = "NONE" /\ DbShape' /\ UNCHANGED tx /\ db'.version = 1 /\ db'.state = "INITIATED"
      /\ db'.ledger = <<>>
      /\ db'.log = <<[seq |-> 1, event |-> "OPENED", from |-> "NONE", to |-> "INITIATED",
                      key |-> "", override |-> FALSE]>>
  BY OpenEffect
<1>1. \A w \in Workers : tx'[w].pc = "idle" /\ tx'[w].held = {}
  <2>1. \A w \in Workers : tx[w].pc = "idle" /\ Held(w)
    BY <1>0 DEF TxInv, Unopened
  <2> QED BY <1>0, <2>1 DEF Held
<1>2. SeqInv'
  <2>0. db'.ledger = <<>> /\ db'.version = 1
    BY <1>0
  <2>1. db'.ledger \in Seq({})
    BY <2>0
  <2>2. \E S : db'.log \in Seq(S)
    <3> DEFINE x == [seq |-> 1, event |-> "OPENED", from |-> "NONE", to |-> "INITIATED",
                     key |-> "", override |-> FALSE]
    <3>1. db'.log = <<x>>
      BY <1>0
    <3> HIDE DEF x
    <3>2. db'.log \in Seq({x})
      BY <3>1
    <3> QED BY <3>2
  <2>3. \E S : db'.ledger \in Seq(S)
    BY <2>1
  <2> QED BY <2>0, <2>2, <2>3 DEF SeqInv
<1>3. Shape'
  BY <1>0, <1>2 DEF Shape
<1>4. Unopened' /\ RowLock'
  BY <1>0, <1>1 DEF Unopened, RowLock
<1>5. \A w \in Workers : Held(w)' /\ ReadInv(w)' /\ WrittenInv(w)'
  BY <1>1 DEF Held, ReadInv, WrittenInv
<1> QED BY <1>3, <1>4, <1>5 DEF TxInv

\* Whoever waits for somebody is in a transaction.
LEMMA VictimActive ==
  ASSUME NEW w \in Workers, DeadlockVictim(w) PROVE tx[w].pc # "idle"
BY DEF DeadlockVictim, WaitsFor

LEMMA TxStep == Shape /\ TxInv /\ [Next]_vars => (Shape /\ TxInv)'
<1> SUFFICES ASSUME Shape, TxInv, [Next]_vars PROVE Shape' /\ TxInv'
  OBVIOUS
<1>1. ASSUME NEW r, NEW amount, NEW book, NEW tm, NEW tier, CreateDispute(r, amount, book, tm, tier)
      PROVE  Shape' /\ TxInv'
  BY <1>1, CreateStep
<1>2. ASSUME NEW w \in Workers, NEW q \in Requests, Begin(w, q) PROVE Shape' /\ TxInv'
  BY <1>2, BeginStep
<1>3. ASSUME NEW w \in Workers, Refuse(w) \/ Crash(w) \/ DeadlockVictim(w) PROVE Shape' /\ TxInv'
  <2>1. tx[w].pc # "idle"
    BY <1>3, VictimActive DEF Refuse, Crash
  <2>2. Rollback(w)
    BY <1>3 DEF Refuse, Crash, DeadlockVictim
  <2> QED BY <2>1, <2>2, IdleStep DEF Rollback
<1>4. ASSUME NEW w \in Workers, CoreFails(w) PROVE Shape' /\ TxInv'
  <2>1. tx[w].pc # "idle" /\ tx' = [tx EXCEPT ![w] = Idle] /\ db' = db
    BY <1>4 DEF CoreFails, Posting
  <2>2. core \subseteq core'
    BY <1>4 DEF CoreFails
  <2> QED BY <2>1, <2>2, IdleStep
<1>5. ASSUME NEW w \in Workers, Step(w) PROVE Shape' /\ TxInv'
  BY <1>3, <1>4, <1>5, GetStep, HoldStep, UpdateStep, AppendStep, TeamStep, BooksStep, ApproveStep,
     PutStep, CommitStep DEF Step
<1>6. CASE UNCHANGED vars
  <2>1. db' = db /\ tx' = tx /\ core' = core /\ keys' = keys /\ answers' = answers
    BY <1>6 DEF vars
  <2>2. \A w \in Workers : Held(w)' /\ ReadInv(w)' /\ WrittenInv(w)'
    <3> SUFFICES ASSUME NEW w \in Workers PROVE Held(w)' /\ ReadInv(w)' /\ WrittenInv(w)'
      OBVIOUS
    <3>1. Held(w) /\ ReadInv(w) /\ WrittenInv(w)
      BY DEF TxInv
    <3> QED BY <2>1, <3>1, OthersKept
  <2>3. Shape'
    BY <2>1 DEF Shape, DbShape, SeqInv
  <2>4. Unopened' /\ RowLock'
    BY <2>1 DEF TxInv, Unopened, RowLock
  <2> QED BY <2>2, <2>3, <2>4 DEF TxInv
<1> QED BY <1>1, <1>2, <1>3, <1>5, <1>6 DEF Next

LEMMA TxInit == Init => Shape /\ TxInv
<1> SUFFICES ASSUME Init PROVE Shape /\ TxInv
  OBVIOUS
<1>1. /\ db.state = "NONE" /\ db.appeals = 0 /\ db.version = 0 /\ db.log = <<>> /\ db.ledger = <<>>
      /\ db.questionnaire = "none" /\ DbShape
  BY DEF Init, DbShape
<1>2. \A w \in Workers : tx[w] = Idle
  BY DEF Init
<1>3. SeqInv
  <2>1. db.log \in Seq({}) /\ db.ledger \in Seq({})
    BY <1>1
  <2> QED BY <1>1, <2>1 DEF SeqInv
<1>4. Shape
  BY <1>1, <1>2, <1>3, IdleShape DEF Shape, Init
<1>5. TxInv
  BY <1>1, <1>2, IdleShape DEF TxInv, Unopened, RowLock, Held, ReadInv, WrittenInv, Init
<1> QED BY <1>4, <1>5

-----------------------------------------------------------------------------
(* KeyAppliedOnce *)

\* A step that writes neither the log nor the keys, and by which no transaction comes to
\* hold a key it did not hold.
LEMMA KeyLocal ==
  ASSUME KeyInv, db'.log = db.log, keys' = keys, answers' \subseteq keys,
         \A v \in Workers : "key" \in tx'[v].held =>
           "key" \in tx[v].held /\ tx'[v].req = tx[v].req
  PROVE  KeyInv'
<1>1. PendingOnce'
  BY DEF KeyInv, PendingOnce
<1>2. PendingNew'
  BY DEF KeyInv, PendingNew
<1>3. LoggedStored'
  BY DEF KeyInv, LoggedStored
<1>4. StoredLogged'
  BY DEF KeyInv, StoredLogged
<1>5. LoggedOnce'
  BY DEF KeyInv, LoggedOnce
<1> QED BY <1>1, <1>2, <1>3, <1>4, <1>5 DEF KeyInv

\* Every step but the insertion of a key and the commit is of that kind.
LEMMA KeyKept ==
  ASSUME Shape, TxInv, NEW w \in Workers,
         \/ \E q \in Requests : Begin(w, q)
         \/ GetDispute(w) \/ HoldCheck(w) \/ UpdateDisputeState(w) \/ AppendEvent(w)
         \/ UpdateDisputeTeam(w) \/ Refuse(w) \/ PostBooks(w) \/ CoreApproves(w) \/ CoreFails(w)
         \/ Rollback(w)
  PROVE  \A v \in Workers : "key" \in tx'[v].held =>
           "key" \in tx[v].held /\ tx'[v].req = tx[v].req
<1> DEFINE Kept == \A v \in Workers : "key" \in tx'[v].held =>
                     "key" \in tx[v].held /\ tx'[v].req = tx[v].req
<1>1. ASSUME NEW pc, NEW req, NEW rec, NEW to, NEW held, NEW wr,
             Becomes(w, Tx(pc, req, rec, to, held, wr)),
             "key" \in held => "key" \in tx[w].held /\ req = tx[w].req
      PROVE  Kept
  <2>1. tx'[w].held = held /\ tx'[w].req = req
    BY <1>1, TxFields DEF Becomes
  <2> QED BY <1>1, <2>1 DEF Becomes
<1>2. ASSUME tx' = [tx EXCEPT ![w] = Idle] PROVE Kept
  <2>1. Becomes(w, Idle) /\ Idle.held = {}
    BY <1>2, RollbackEffect, IdleShape
  <2> QED BY <2>1 DEF Becomes
<1>3. ASSUME NEW pc, Goto(w, pc) PROVE Kept
  <2>1. Becomes(w, Tx(pc, tx[w].req, tx[w].rec, tx[w].to, tx[w].held, tx[w].writes))
    BY <1>3, GotoEffect DEF Goto
  <2> HIDE DEF Kept
  <2> QED BY <1>1, <2>1
<1>4. ASSUME NEW what, what # "key", NEW pc, Grab(w, what, pc) PROVE Kept
  <2>1. Becomes(w, Tx(pc, tx[w].req, tx[w].rec, tx[w].to, tx[w].held \cup {what}, tx[w].writes))
    BY <1>4, GrabEffect
  <2>2. "key" \in tx[w].held \cup {what} => "key" \in tx[w].held
    BY <1>4
  <2> HIDE DEF Kept
  <2> QED BY <1>1, <2>1, <2>2
<1>5. ASSUME NEW q \in Requests, Begin(w, q) PROVE Kept
  <2>1. CASE UNCHANGED tx
    BY <2>1
  <2>2. CASE tx' = [tx EXCEPT ![w].pc = "read", ![w].req = q]
    <3>1. tx[w].pc = "idle" /\ Held(w)
      BY <1>5 DEF Begin, TxInv
    <3>2. "key" \notin tx[w].held
      BY <3>1 DEF Held
    <3>3. Becomes(w, Tx("read", q, tx[w].rec, tx[w].to, tx[w].held, tx[w].writes))
      BY <2>2, BeginEffect
    <3> HIDE DEF Kept
    <3> QED BY <1>1, <3>2, <3>3
  <2> HIDE DEF Kept
  <2> QED BY <1>5, <2>1, <2>2 DEF Begin
<1>6. ASSUME GetDispute(w) PROVE Kept
  <2>1. CASE Rollback(w)
    BY <1>2, <2>1 DEF Rollback
  <2>2. CASE ~Rollback(w)
    <3>1. PICK rec, to, pc : tx' = [tx EXCEPT ![w].rec = rec, ![w].to = to, ![w].pc = pc]
      BY <1>6, <2>2 DEF GetDispute
    <3>2. Becomes(w, Tx(pc, tx[w].req, rec, to, tx[w].held, tx[w].writes))
      BY <3>1, GetEffect
    <3> HIDE DEF Kept
    <3> QED BY <1>1, <3>2
  <2> QED BY <2>1, <2>2
<1> HIDE DEF Kept
<1>7. ASSUME HoldCheck(w) \/ Refuse(w) \/ CoreFails(w) \/ Rollback(w) PROVE Kept
  BY <1>2, <1>3, <1>7 DEF HoldCheck, Refuse, CoreFails, Rollback
<1>8. ASSUME UpdateDisputeState(w) \/ AppendEvent(w) \/ UpdateDisputeTeam(w) PROVE Kept
  <2>1. Rollback(w) \/ \E pc : Grab(w, "row", pc) \/ Grab(w, "event", pc)
    BY <1>8 DEF UpdateDisputeState, AppendEvent, UpdateDisputeTeam
  <2> QED BY <1>2, <1>4, <2>1 DEF Rollback
<1>9. ASSUME PostBooks(w) \/ CoreApproves(w) PROVE Kept
  <2>1. PICK tier : Write(w, tier)
    BY <1>9 DEF PostBooks, CoreApproves
  <2>2. Becomes(w, Tx("put", tx[w].req, tx[w].rec, tx[w].to, tx[w].held, Writes(w, tier)))
    BY <2>1, WriteEffect
  <2> QED BY <1>1, <2>2
<1>10. Kept
  BY <1>5, <1>6, <1>7, <1>8, <1>9
<1> QED BY <1>10 DEF Kept

\* The key is inserted only while nobody else has it pending and nobody has committed it.
LEMMA KeyPut ==
  ASSUME Shape, TxInv, KeyInv, NEW w \in Workers, PutIdempotent(w) PROVE KeyInv'
<1>1. CASE Rollback(w)
  <2>1. /\ db' = db /\ keys' = keys /\ answers' = answers
    BY <1>1 DEF Rollback
  <2>2. \A v \in Workers : "key" \in tx'[v].held =>
          "key" \in tx[v].held /\ tx'[v].req = tx[v].req
    BY <1>1, KeyKept
  <2>3. answers \subseteq keys
    BY DEF KeyInv
  <2> QED BY <2>1, <2>2, <2>3, KeyLocal
<1>2. CASE Grab(w, "key", "commit") /\ ~\E s \in keys : s.key = tx[w].req.key
  <2> DEFINE t == Tx("commit", tx[w].req, tx[w].rec, tx[w].to, tx[w].held \cup {"key"}, tx[w].writes)
  <2>0. t.req = tx[w].req
    BY TxFields
  <2>1. Becomes(w, t)
    BY <1>2, GrabEffect
  <2> HIDE DEF t
  <2>2. \A v \in Workers : tx'[v].req = tx[v].req /\ (v # w => tx'[v].held = tx[v].held)
    BY <2>0, <2>1 DEF Becomes
  <2>3. SameKey(w) = {} /\ UNCHANGED <<db, keys, answers>>
    BY <1>2 DEF PutIdempotent, Grab
  <2>4. \A v \in Workers : v # w /\ "key" \in tx[v].held => tx[v].req.key # tx[w].req.key
    BY <2>3 DEF SameKey, Others
  <2>5. PendingOnce'
    <3> SUFFICES ASSUME NEW u \in Workers, NEW v \in Workers, "key" \in tx'[u].held,
                        "key" \in tx'[v].held, tx'[u].req.key = tx'[v].req.key, u # v
                 PROVE  FALSE
      BY DEF PendingOnce
    <3>1. tx[u].req.key = tx[v].req.key
      BY <2>2
    <3>2. CASE u = w
      BY <2>2, <2>4, <3>1, <3>2
    <3>3. CASE v = w
      BY <2>2, <2>4, <3>1, <3>3
    <3>4. CASE u # w /\ v # w
      <4>1. "key" \in tx[u].held /\ "key" \in tx[v].held
        BY <2>2, <3>4
      <4> QED BY <3>1, <4>1 DEF KeyInv, PendingOnce
    <3> QED BY <3>2, <3>3, <3>4
  <2>6. PendingNew'
    <3> SUFFICES ASSUME NEW v \in Workers, "key" \in tx'[v].held
                 PROVE  \A s \in keys : s.key # tx[v].req.key
      BY <2>2, <2>3 DEF PendingNew
    <3>1. CASE v = w
      BY <1>2, <3>1
    <3>2. CASE v # w
      <4>1. "key" \in tx[v].held
        BY <2>2, <3>2
      <4> QED BY <4>1 DEF KeyInv, PendingNew
    <3> QED BY <3>1, <3>2
  <2>7. LoggedStored' /\ StoredLogged' /\ LoggedOnce'
    BY <2>3 DEF KeyInv, LoggedStored, StoredLogged, LoggedOnce
  <2> QED BY <2>3, <2>5, <2>6, <2>7 DEF KeyInv
<1> QED BY <1>1, <1>2 DEF PutIdempotent

\* A commit stores the key with its event.
LEMMA KeyCommit ==
  ASSUME Shape, TxInv, KeyInv, NEW w \in Workers, Commit(w) PROVE KeyInv'
<1>0. /\ tx[w].pc = "commit" /\ tx[w].req \in Requests /\ Held(w) /\ Becomes(w, Idle)
      /\ \E S : db.log \in Seq(S)
  BY CommitFacts DEF SeqInv
<1>1. \A v \in Workers : "key" \in tx'[v].held =>
        v # w /\ "key" \in tx[v].held /\ tx'[v].req = tx[v].req
  BY <1>0, IdleShape DEF Becomes
<1>2. PICK x : x = EventOf(w)
  OBVIOUS
<1>3. x.key = tx[w].req.key /\ x.event = tx[w].req.event
  BY <1>2 DEF EventOf
<1>4. /\ db'.log = Append(db.log, x)
  BY <1>2, MoveCommit, EventCommit
<1>5. PICK n : n = Len(db.log) + 1
  OBVIOUS
<1>6. /\ DOMAIN db'.log = DOMAIN db.log \cup {n} /\ n \notin DOMAIN db.log
      /\ \A i \in DOMAIN db.log : db'.log[i] = db.log[i]
      /\ db'.log[n] = x
  BY <1>0, <1>4, <1>5, Grown
<1>p. PendingOnce'
  BY <1>1 DEF KeyInv, PendingOnce
<1>7. CASE tx[w].req.event = "REASSIGNED"
  <2>1. keys' = keys /\ answers' = answers
    BY <1>7, MoveCommit
  <2>2. x.key = ""
    BY <1>0, <1>3, <1>7, ServiceAssumption
  <2>3. \A i \in DOMAIN db'.log : db'.log[i].key # "" => i \in DOMAIN db.log /\ db'.log[i] = db.log[i]
    BY <1>6, <2>2
  <2>4. LoggedStored'
    BY <2>1, <2>3 DEF KeyInv, LoggedStored
  <2>5. StoredLogged'
    BY <1>6, <2>1 DEF KeyInv, StoredLogged
  <2>6. LoggedOnce'
    BY <2>3 DEF KeyInv, LoggedOnce
  <2>7. PendingNew'
    BY <1>1, <2>1 DEF KeyInv, PendingNew
  <2> QED BY <1>p, <2>1, <2>4, <2>5, <2>6, <2>7 DEF KeyInv
<1>8. CASE tx[w].req.event # "REASSIGNED"
  <2>1. keys' = keys \cup {tx[w].req} /\ answers' = answers \cup {tx[w].req}
    BY <1>8, EventCommit
  <2>2. tx[w].req.key # "" /\ "key" \in tx[w].held
    BY <1>0, <1>8, ServiceAssumption DEF Held
  <2>3. \A s \in keys : s.key # tx[w].req.key
    BY <2>2 DEF KeyInv, PendingNew
  <2>4. \A i \in DOMAIN db.log : db.log[i].key # tx[w].req.key
    <3> SUFFICES ASSUME NEW i \in DOMAIN db.log, db.log[i].key = tx[w].req.key PROVE FALSE
      OBVIOUS
    <3>1. \E s \in keys : s.key = db.log[i].key
      BY <2>2 DEF KeyInv, LoggedStored
    <3> QED BY <2>3, <3>1
  <2>5. LoggedStored'
    <3> SUFFICES ASSUME NEW i \in DOMAIN db'.log, db'.log[i].key # ""
                 PROVE  \E s \in keys' : s.key = db'.log[i].key
      BY DEF LoggedStored
    <3>1. CASE i = n
      BY <1>3, <1>6, <2>1, <3>1
    <3>2. CASE i \in DOMAIN db.log
      <4>1. db'.log[i] = db.log[i]
        BY <1>6, <3>2
      <4>2. PICK s \in keys : s.key = db.log[i].key
        BY <3>2, <4>1 DEF KeyInv, LoggedStored
      <4> QED BY <2>1, <4>1, <4>2
    <3> QED BY <1>6, <3>1, <3>2
  <2>6. StoredLogged'
    <3> SUFFICES ASSUME NEW s \in keys'
                 PROVE  \E i \in DOMAIN db'.log : db'.log[i].key = s.key /\ db'.log[i].event = s.event
      BY DEF StoredLogged
    <3>1. CASE s = tx[w].req
      BY <1>3, <1>6, <3>1
    <3>2. CASE s \in keys
      <4>1. PICK i \in DOMAIN db.log : db.log[i].key = s.key /\ db.log[i].event = s.event
        BY <3>2 DEF KeyInv, StoredLogged
      <4> QED BY <1>6, <4>1
    <3> QED BY <2>1, <3>1, <3>2
  <2>7. LoggedOnce'
    <3> SUFFICES ASSUME NEW i \in DOMAIN db'.log, NEW j \in DOMAIN db'.log,
                        db'.log[i].key = db'.log[j].key, db'.log[i].key # "", i # j
                 PROVE  FALSE
      BY DEF LoggedOnce
    <3>1. CASE i = n
      <4>1. j \in DOMAIN db.log /\ db'.log[j] = db.log[j]
        BY <1>6, <3>1
      <4> QED BY <1>3, <1>6, <2>4, <3>1, <4>1
    <3>2. CASE j = n
      <4>1. i \in DOMAIN db.log /\ db'.log[i] = db.log[i]
        BY <1>6, <3>2
      <4> QED BY <1>3, <1>6, <2>4, <3>2, <4>1
    <3>3. CASE i # n /\ j # n
      <4>1. i \in DOMAIN db.log /\ j \in DOMAIN db.log /\ db'.log[i] = db.log[i] /\ db'.log[j] = db.log[j]
        BY <1>6, <3>3
      <4> QED BY <4>1 DEF KeyInv, LoggedOnce
    <3> QED BY <3>1, <3>2, <3>3
  <2>8. PendingNew'
    <3> SUFFICES ASSUME NEW v \in Workers, "key" \in tx'[v].held, NEW s \in keys'
                 PROVE  s.key # tx'[v].req.key
      BY DEF PendingNew
    <3>1. v # w /\ "key" \in tx[v].held /\ tx'[v].req = tx[v].req
      BY <1>1
    <3>2. CASE s = tx[w].req
      BY <2>2, <3>1, <3>2 DEF KeyInv, PendingOnce
    <3>3. CASE s \in keys
      BY <3>1, <3>3 DEF KeyInv, PendingNew
    <3> QED BY <2>1, <3>2, <3>3
  <2>9. keys' \subseteq Requests /\ answers' \subseteq keys'
    BY <1>0, <2>1 DEF KeyInv
  <2> QED BY <1>p, <2>5, <2>6, <2>7, <2>8, <2>9 DEF KeyInv
<1> QED BY <1>7, <1>8

LEMMA KeyStep == Shape /\ TxInv /\ KeyInv /\ [Next]_vars => KeyInv'
<1> SUFFICES ASSUME Shape, TxInv, KeyInv, [Next]_vars PROVE KeyInv'
  OBVIOUS
<1>1. ASSUME NEW r, NEW amount, NEW book, NEW tm, NEW tier, CreateDispute(r, amount, book, tm, tier)
      PROVE  KeyInv'
  <2>1. db.state = "NONE" /\ UNCHANGED <<keys, tx, answers>>
    BY <1>1 DEF CreateDispute
  <2>2. keys = {} /\ answers = {} /\ \A w \in Workers : tx[w].held = {}
    <3>1. keys = {} /\ answers = {} /\ \A w \in Workers : tx[w].pc = "idle" /\ Held(w)
      BY <2>1 DEF TxInv, Unopened
    <3> QED BY <3>1 DEF Held
  <2> DEFINE x == [seq |-> 1, event |-> "OPENED", from |-> "NONE", to |-> "INITIATED",
                   key |-> "", override |-> FALSE]
  <2>3. x.key = ""
    OBVIOUS
  <2>4. DOMAIN db'.log = {1} /\ db'.log[1] = x
    <3>1. db'.log = <<x>>
      BY <1>1, OpenEffect
    <3> HIDE DEF x
    <3> QED BY <3>1
  <2> HIDE DEF x
  <2>5. LoggedStored' /\ StoredLogged' /\ LoggedOnce'
    BY <2>1, <2>2, <2>3, <2>4 DEF LoggedStored, StoredLogged, LoggedOnce
  <2>6. PendingOnce' /\ PendingNew'
    BY <2>1, <2>2 DEF PendingOnce, PendingNew
  <2> QED BY <2>1, <2>2, <2>5, <2>6 DEF KeyInv
<1>2. ASSUME NEW w \in Workers, NEW q \in Requests, Begin(w, q) PROVE KeyInv'
  <2>1. answers' \subseteq keys /\ keys' = keys /\ db' = db
    BY <1>2 DEF Begin, KeyInv
  <2> QED BY <1>2, <2>1, KeyKept, KeyLocal
<1>3. ASSUME NEW w \in Workers, Step(w) \/ Crash(w) \/ DeadlockVictim(w) PROVE KeyInv'
  <2>1. CASE PutIdempotent(w)
    BY <2>1, KeyPut
  <2>2. CASE Commit(w)
    BY <2>2, KeyCommit
  <2>3. CASE \/ GetDispute(w) \/ HoldCheck(w) \/ UpdateDisputeState(w) \/ AppendEvent(w)
             \/ UpdateDisputeTeam(w) \/ Refuse(w) \/ PostBooks(w) \/ CoreApproves(w) \/ CoreFails(w)
             \/ Rollback(w)
    <3>1. answers' = answers /\ keys' = keys /\ db' = db
      BY <2>3 DEF GetDispute, HoldCheck, UpdateDisputeState, AppendEvent, UpdateDisputeTeam, Refuse,
             PostBooks, CoreApproves, CoreFails, Rollback, Goto, Grab
    <3>2. answers' \subseteq keys
      BY <3>1 DEF KeyInv
    <3> QED BY <2>3, <3>1, <3>2, KeyKept, KeyLocal
  <2>4. Crash(w) \/ DeadlockVictim(w) => Rollback(w)
    BY DEF Crash, DeadlockVictim
  <2> QED BY <1>3, <2>1, <2>2, <2>3, <2>4 DEF Step
<1>4. CASE UNCHANGED vars
  <2>1. UNCHANGED <<db, keys, tx, answers>>
    BY <1>4 DEF vars
  <2> QED BY <2>1, KeyLocal DEF KeyInv
<1> QED BY <1>1, <1>2, <1>3, <1>4 DEF Next

LEMMA KeyInit == Init => KeyInv
<1> SUFFICES ASSUME Init PROVE KeyInv
  OBVIOUS
<1>1. keys = {} /\ answers = {} /\ \A w \in Workers : tx[w].held = {}
  BY IdleShape DEF Init
<1>2. DOMAIN db.log = {}
  BY DEF Init
<1> QED BY <1>1, <1>2 DEF KeyInv, PendingOnce, PendingNew, LoggedStored, StoredLogged, LoggedOnce

\* The key of a request has at most one event in the log, and a request answered with
\* success has its own, however many workers serve however many repetitions at once: the
\* unique key, inserted in the transaction of the event, decides.
THEOREM KeyIsAppliedOnce == Spec => []KeyAppliedOnce
<1>1. Init => Shape /\ TxInv /\ KeyInv
  BY TxInit, KeyInit
<1>2. Shape /\ TxInv /\ KeyInv /\ [Next]_vars => (Shape /\ TxInv /\ KeyInv)'
  BY TxStep, KeyStep
<1>3. KeyInv => KeyAppliedOnce
  BY DEF KeyInv, LoggedOnce, StoredLogged, KeyAppliedOnce
<1> QED BY <1>1, <1>2, <1>3, PTL DEF Spec

-----------------------------------------------------------------------------
(* What changes the committed rows, and LedgerBackedByCore *)

\* Only opening the dispute and the commits write committed rows; the core forgets nothing.
LEMMA OnlyCommitsWrite ==
  ASSUME [Next]_vars
  PROVE  /\ core \subseteq core'
         /\ \/ db' = db
            \/ \E w \in Workers : Commit(w)
            \/ \E r \in DOMAIN Rules, amount \in Amounts, book \in AddressBooks, tm \in Teams,
                  tier \in Tiers : CreateDispute(r, amount, book, tm, tier)
<1> DEFINE Opens == \E r \in DOMAIN Rules, amount \in Amounts, book \in AddressBooks, tm \in Teams,
                      tier \in Tiers : CreateDispute(r, amount, book, tm, tier)
           Goal == /\ core \subseteq core'
                   /\ db' = db \/ (\E w \in Workers : Commit(w)) \/ Opens
<1>1. CASE Opens
  BY <1>1 DEF CreateDispute
<1>2. CASE UNCHANGED vars
  BY <1>2 DEF vars
<1>3. ASSUME NEW w \in Workers, NEW q \in Requests, Begin(w, q) PROVE Goal
  BY <1>3 DEF Begin
<1>4. ASSUME NEW w \in Workers, Commit(w) PROVE Goal
  BY <1>4 DEF Commit
<1>5. ASSUME NEW w \in Workers, CoreApproves(w) \/ CoreFails(w) PROVE Goal
  BY <1>5 DEF CoreApproves, CoreFails
<1>6. ASSUME NEW w \in Workers,
             \/ GetDispute(w) \/ HoldCheck(w) \/ UpdateDisputeState(w) \/ AppendEvent(w)
             \/ UpdateDisputeTeam(w) \/ Refuse(w) \/ PostBooks(w) \/ PutIdempotent(w)
             \/ Crash(w) \/ DeadlockVictim(w)
      PROVE  Goal
  BY <1>6 DEF GetDispute, HoldCheck, UpdateDisputeState, AppendEvent, UpdateDisputeTeam, Refuse,
              PostBooks, PutIdempotent, Crash, DeadlockVictim, Rollback, Goto, Grab
<1> HIDE DEF Goal
<1>7. ASSUME NEW w \in Workers, Step(w) PROVE Goal
  BY <1>4, <1>5, <1>6, <1>7 DEF Step
<1>8. Goal
  BY <1>1, <1>2, <1>3, <1>6, <1>7 DEF Next, Goal
<1> QED BY <1>8 DEF Goal

LEMMA BackedCommit ==
  ASSUME Shape, TxInv, LedgerBackedByCore, NEW w \in Workers, Commit(w)
  PROVE  LedgerBackedByCore'
<1>0. /\ tx[w].pc = "commit" /\ WrittenInv(w) /\ core' = core /\ \E S : db.ledger \in Seq(S)
  BY CommitFacts DEF SeqInv
<1>1. CASE db'.ledger = db.ledger
  BY <1>0, <1>1 DEF LedgerBackedByCore
<1>2. CASE db'.ledger # db.ledger
  <2>1. tx[w].req.event # "REASSIGNED"
    BY <1>2, MoveCommit
  <2>2. tx[w].writes.postings = Movements(w)
    BY <1>0, <2>1, WritesFields
  <2>3. db'.ledger = db.ledger \o LedgerRows(tx[w].rec.version + 1, Movements(w))
    BY <2>1, <2>2, EventCommit
  <2> DEFINE x == [seq |-> tx[w].rec.version + 1, kind |-> Movements(w)[1].kind,
                   amount |-> Movements(w)[1].amount]
  <2>4. Movements(w) # <<>> /\ db'.ledger = Append(db.ledger, x)
    BY <1>0, <1>2, <2>3, RowsLemma
  <2>5. PICK p : Movements(w) = <<p>> /\ (p.kind \in CustomerKinds <=> TouchesCustomer(p))
    BY <2>4, OneMovement
  <2>6. 1 \in DOMAIN Movements(w) /\ Movements(w)[1] = p
    BY <2>5
  <2>7. TouchesCustomer(p) => \E m \in core : m.ref = Reference(w, p)
    BY <1>0, <2>1, <2>6 DEF WrittenInv
  <2>8. x.kind = p.kind /\ Reference(w, p) = [seq |-> x.seq, kind |-> x.kind]
    BY <2>6 DEF Reference
  <2>9. x.kind \in CustomerKinds => \E m \in core : m.ref = [seq |-> x.seq, kind |-> x.kind]
    BY <2>5, <2>7, <2>8
  <2> HIDE DEF x
  <2>10. /\ DOMAIN db'.ledger = 1..(Len(db.ledger) + 1) /\ DOMAIN db.ledger = 1..Len(db.ledger)
         /\ Len(db.ledger) \in Nat /\ db'.ledger[Len(db.ledger) + 1] = x
         /\ \A i \in DOMAIN db.ledger : db'.ledger[i] = db.ledger[i]
    BY <1>0, <2>4, Grown
  <2> SUFFICES ASSUME NEW i \in DOMAIN db'.ledger, db'.ledger[i].kind \in CustomerKinds
               PROVE  \E m \in core : m.ref = [seq |-> db'.ledger[i].seq, kind |-> db'.ledger[i].kind]
    BY <1>0 DEF LedgerBackedByCore
  <2>11. CASE i = Len(db.ledger) + 1
    BY <2>9, <2>10, <2>11
  <2>12. CASE i \in DOMAIN db.ledger
    <3>1. db'.ledger[i] = db.ledger[i]
      BY <2>10, <2>12
    <3> QED BY <2>12, <3>1 DEF LedgerBackedByCore
  <2> QED BY <2>10, <2>11, <2>12
<1> QED BY <1>1, <1>2

LEMMA BackedStep == Shape /\ TxInv /\ LedgerBackedByCore /\ [Next]_vars => LedgerBackedByCore'
<1> SUFFICES ASSUME Shape, TxInv, LedgerBackedByCore, [Next]_vars PROVE LedgerBackedByCore'
  OBVIOUS
<1>1. CASE db' = db
  <2>1. core \subseteq core'
    BY OnlyCommitsWrite
  <2> QED BY <1>1, <2>1 DEF LedgerBackedByCore
<1>2. ASSUME NEW w \in Workers, Commit(w) PROVE LedgerBackedByCore'
  BY <1>2, BackedCommit
<1>3. ASSUME NEW r, NEW amount, NEW book, NEW tm, NEW tier, CreateDispute(r, amount, book, tm, tier)
      PROVE  LedgerBackedByCore'
  <2>1. db'.ledger = <<>>
    BY <1>3, OpenEffect
  <2>2. DOMAIN db'.ledger = {}
    BY <2>1
  <2> QED BY <2>2 DEF LedgerBackedByCore
<1> QED BY <1>1, <1>2, <1>3, OnlyCommitsWrite

\* Every movement the ledger shows on the customer's account is one the core carried out
\* under that row's reference, whatever it declined, did not answer, or did unheard:
\* instructCore is asked before the rows are written, under a reference made of the
\* version the row lock protects.
THEOREM LedgerIsBackedByCore == Spec => []LedgerBackedByCore
<1>1. Init => LedgerBackedByCore
  BY DEF Init, LedgerBackedByCore
<1>2. Shape /\ TxInv /\ LedgerBackedByCore /\ [Next]_vars => (Shape /\ TxInv /\ LedgerBackedByCore)'
  BY TxStep, BackedStep
<1> QED BY <1>1, <1>2, TxInit, PTL DEF Spec

-----------------------------------------------------------------------------
(* NoCreditUnderHold *)

\* What the hold allowed when it was read is allowed at the commit: the risk history has
\* not moved while the version has not.
LEMMA HoldCommit ==
  ASSUME Shape, TxInv, [Next]_vars, NEW i \in DOMAIN db'.log \ DOMAIN db.log,
         db'.log[i].event = "ISSUE_REFUND", ~db'.log[i].override
  PROVE  db.risk # "HIGH"
<1>0. SeqInv
  BY DEF Shape
<1>1. CASE db' = db
  BY <1>1
<1>2. ASSUME NEW w \in Workers, Commit(w) PROVE db.risk # "HIGH"
  <2>1. db'.log = Append(db.log, EventOf(w))
    BY <1>2, MoveCommit, EventCommit
  <2>2. PICK x : x = EventOf(w)
    OBVIOUS
  <2>3. x.event = tx[w].req.event /\ x.override = tx[w].req.override
    BY <2>2 DEF EventOf
  <2>4. db'.log[i] = x
    <3>1. \E S : db.log \in Seq(S)
      BY <1>0 DEF SeqInv
    <3> QED BY <2>1, <2>2, <3>1, Grown
  <2>5. holdCheck(db.risk, tx[w].req.event, tx[w].req)
    BY <1>2, CommitFacts DEF Fresh
  <2> QED BY <2>3, <2>4, <2>5 DEF holdCheck, CreditAllowed
<1>3. ASSUME NEW r, NEW amount, NEW book, NEW tm, NEW tier, CreateDispute(r, amount, book, tm, tier)
      PROVE  db.risk # "HIGH"
  <2> DEFINE x == [seq |-> 1, event |-> "OPENED", from |-> "NONE", to |-> "INITIATED",
                   key |-> "", override |-> FALSE]
  <2>1. x.event = "OPENED"
    OBVIOUS
  <2>2. db'.log[i] = x
    <3>1. db'.log = <<x>>
      BY <1>3, OpenEffect
    <3> HIDE DEF x
    <3> QED BY <3>1
  <2> HIDE DEF x
  <2> QED BY <2>1, <2>2
<1> QED BY <1>1, <1>2, <1>3, OnlyCommitsWrite

\* No credit is committed on a dispute whose latest assessment is HIGH without the
\* analyst's override: whatever writes an assessment also moves the version, which the
\* conditional update of the crediting transaction insists on.
THEOREM NoCreditPassesAHold == Spec => NoCreditUnderHold
<1>1. Shape /\ TxInv /\ [Next]_vars =>
        [\A i \in DOMAIN db'.log \ DOMAIN db.log :
           db'.log[i].event = "ISSUE_REFUND" /\ ~db'.log[i].override => db.risk # "HIGH"]_vars
  BY HoldCommit
<1> QED BY <1>1, TxInit, TxStep, PTL DEF Spec, NoCreditUnderHold

-----------------------------------------------------------------------------
(* The service implements the lifecycle *)

\* The operators DisputeLifecycle takes from DisputeRules are the service's own.
LEMMA SameApply == \A r, s, a, e : Lifecycle!Apply(r, s, a, e) = Apply(r, s, a, e)
<1>1. \A r, s, e : Lifecycle!next(r, s, e) = next(r, s, e)
  BY DEF Lifecycle!next, next, Lifecycle!AllStates, AllStates, Lifecycle!RefundStates, RefundStates,
         Lifecycle!Undecided, Undecided, Lifecycle!Contested, Contested, Lifecycle!closing, closing,
         Lifecycle!HasProvisionalCredit, HasProvisionalCredit, Lifecycle!HasRefundStep, HasRefundStep,
         Lifecycle!refundState, refundState
<1> QED BY <1>1 DEF Lifecycle!Apply, Apply

LEMMA SamePostings ==
  \A r, s, d, l, o, h : Lifecycle!Postings(r, s, d, l, o, h) = Postings(r, s, d, l, o, h)
<1>1. \A k, d, c, a : Lifecycle!post(k, d, c, a) = post(k, d, c, a)
  BY DEF Lifecycle!post, post
<1>2. \A h, o : Lifecycle!settle(h, o) = settle(h, o)
  BY <1>1 DEF Lifecycle!settle, settle
<1>3. \A r, s, o, h : Lifecycle!settlements(r, s, o, h) = settlements(r, s, o, h)
  BY <1>2 DEF Lifecycle!settlements, settlements, Lifecycle!HasProvisionalCredit, HasProvisionalCredit
<1>4. \A d, o : Lifecycle!reversal(d, o) = reversal(d, o)
  BY <1>1 DEF Lifecycle!reversal, reversal
<1>5. \A s : Lifecycle!creditKind(s) = creditKind(s)
  BY DEF Lifecycle!creditKind, creditKind
<1> QED BY <1>1, <1>3, <1>4, <1>5 DEF Lifecycle!Postings, Postings, Lifecycle!RefundStates, RefundStates

LEMMA SameBooks ==
  /\ \A r, h : Lifecycle!ParseSettlement(r, h) = ParseSettlement(r, h)
  /\ \A b, ps : Lifecycle!Book(b, ps) = Book(b, ps)
  /\ \A n, ps : Lifecycle!LedgerRows(n, ps) = LedgerRows(n, ps)
  /\ \A l, b : Lifecycle!OutcomeOf(l, b) = OutcomeOf(l, b)
  /\ Lifecycle!Accounts = Accounts
<1>1. \A a, p : Lifecycle!add(a, p) = add(a, p)
  BY DEF Lifecycle!add, add
<1>2. \A b, ps : Lifecycle!Book(b, ps) = Book(b, ps)
  BY <1>1 DEF Lifecycle!Book, Book, Lifecycle!Accounts, Accounts
<1>3. \A n, ps : Lifecycle!LedgerRows(n, ps) = LedgerRows(n, ps)
  BY DEF Lifecycle!LedgerRows, LedgerRows
<1>4. \A l, b : Lifecycle!OutcomeOf(l, b) = OutcomeOf(l, b)
  BY DEF Lifecycle!OutcomeOf, OutcomeOf
<1>5. \A r, h : Lifecycle!ParseSettlement(r, h) = ParseSettlement(r, h)
  BY DEF Lifecycle!ParseSettlement, ParseSettlement
<1> QED BY <1>2, <1>3, <1>4, <1>5 DEF Lifecycle!Accounts, Accounts

LEMMA SameClocks ==
  /\ \A r, cs, s, b, n : Lifecycle!settleDeadlines(r, cs, s, b, n) = settleDeadlines(r, cs, s, b, n)
  /\ \A cs : Lifecycle!acknowledge(cs) = acknowledge(cs)
  /\ \A r : Lifecycle!OpeningDeadlines(r) = OpeningDeadlines(r)
<1>1. \A k, s : Lifecycle!Settle(k, s) = Settle(k, s)
  BY DEF Lifecycle!Settle, Settle, Lifecycle!RefundStates, RefundStates
<1>2. \A r, n : Lifecycle!AppealDeadlines(r, n) = AppealDeadlines(r, n)
  BY DEF Lifecycle!AppealDeadlines, AppealDeadlines
<1>3. \A r, cs, s, b, n : Lifecycle!settleDeadlines(r, cs, s, b, n) = settleDeadlines(r, cs, s, b, n)
  BY <1>1, <1>2 DEF Lifecycle!settleDeadlines, settleDeadlines
<1>4. \A cs : Lifecycle!acknowledge(cs) = acknowledge(cs)
  BY DEF Lifecycle!acknowledge, acknowledge
<1>5. \A r : Lifecycle!OpeningDeadlines(r) = OpeningDeadlines(r)
  BY DEF Lifecycle!OpeningDeadlines, OpeningDeadlines
<1> QED BY <1>3, <1>4, <1>5

LEMMA SameNotices ==
  /\ \A r, b, s, n, o : Lifecycle!notify(r, b, s, n, o) = notify(r, b, s, n, o)
  /\ \A e, q : Lifecycle!Questionnaire(e, q) = Questionnaire(e, q)
<1>1. \A s : Lifecycle!NoticesFor(s) = NoticesFor(s)
  BY DEF Lifecycle!NoticesFor, NoticesFor
<1>2. \A r, k : Lifecycle!ChannelsFor(r, k) = ChannelsFor(r, k)
  BY DEF Lifecycle!ChannelsFor, ChannelsFor
<1>3. \A r, b, s, n, o : Lifecycle!notify(r, b, s, n, o) = notify(r, b, s, n, o)
  BY <1>1, <1>2 DEF Lifecycle!notify, notify
<1>4. \A e, q : Lifecycle!Questionnaire(e, q) = Questionnaire(e, q)
  BY DEF Lifecycle!Questionnaire, Questionnaire
<1> QED BY <1>3, <1>4

\* The lifecycle's checks of a payload read only what a request says.
LEMMA SameChecks ==
  ASSUME NEW q, NEW p, p.liability = q.liability, p.settlement = q.settlement,
         p.answered = q.answered, p.override = q.override
  PROVE  /\ \A tier, e : holdCheck(tier, e, q) => Lifecycle!holdCheck(tier, e, p)
         /\ \A r, a, e : PayloadValid(r, a, e, q) => Lifecycle!PayloadValid(r, a, e, p)
<1>1. \A tier, e : holdCheck(tier, e, q) => Lifecycle!holdCheck(tier, e, p)
  BY DEF Lifecycle!holdCheck, holdCheck, Lifecycle!CreditAllowed, CreditAllowed
<1>2. \A r, a, e : PayloadValid(r, a, e, q) => Lifecycle!PayloadValid(r, a, e, p)
  BY DEF Lifecycle!PayloadValid, PayloadValid, Lifecycle!LiabilityAllowed, LiabilityAllowed,
         Lifecycle!SettlementAllowed, SettlementAllowed, Lifecycle!SuspenseSettlements,
         SuspenseSettlements
<1> QED BY <1>1, <1>2

\* The lifecycle's log: what the service's says without the keys.
EventRow(x) == [event |-> x.event, from |-> x.from, to |-> x.to]
LogOf(s) == [i \in DOMAIN s |-> EventRow(s[i])]

\* A sequence is the function of its elements.
LEMMA SeqIsFunction ==
  ASSUME NEW z, \E S : z \in Seq(S) PROVE z = [i \in DOMAIN z |-> z[i]]
<1>1. PICK S : z \in Seq(S)
  OBVIOUS
<1>2. z \in [1..Len(z) -> S]
  BY <1>1
<1> QED BY <1>2

LEMMA LogGrows ==
  ASSUME NEW s, \E S : s \in Seq(S), NEW x
  PROVE  LogOf(Append(s, x)) = Append(LogOf(s), EventRow(x))
<1>1. /\ Len(s) \in Nat /\ DOMAIN s = 1..Len(s) /\ DOMAIN Append(s, x) = 1..(Len(s) + 1)
      /\ \A i \in DOMAIN s : Append(s, x)[i] = s[i]
      /\ Append(s, x)[Len(s) + 1] = x
  BY Grown
<1> DEFINE T == {EventRow(s[i]) : i \in DOMAIN s}
<1>2. LogOf(s) \in Seq(T) /\ Len(LogOf(s)) = Len(s)
  BY <1>1 DEF LogOf
<1>3. \E S : LogOf(s) \in Seq(S)
  BY <1>2
<1>4. /\ DOMAIN LogOf(s) = 1..Len(s)
      /\ DOMAIN Append(LogOf(s), EventRow(x)) = 1..(Len(s) + 1)
      /\ \A i \in DOMAIN LogOf(s) : Append(LogOf(s), EventRow(x))[i] = LogOf(s)[i]
      /\ Append(LogOf(s), EventRow(x))[Len(s) + 1] = EventRow(x)
  BY <1>1, <1>2, <1>3, Grown
<1>5. \E S : Append(LogOf(s), EventRow(x)) \in Seq(S)
  BY <1>3, Grown
<1>6. \A i \in 1..(Len(s) + 1) : LogOf(Append(s, x))[i] = Append(LogOf(s), EventRow(x))[i]
  BY <1>1, <1>4 DEF LogOf
<1>7. DOMAIN LogOf(Append(s, x)) = 1..(Len(s) + 1)
  BY <1>1 DEF LogOf
<1>8. LogOf(Append(s, x)) = [i \in DOMAIN LogOf(Append(s, x)) |-> LogOf(Append(s, x))[i]]
  BY DEF LogOf
<1>9. Append(LogOf(s), EventRow(x))
        = [i \in DOMAIN Append(LogOf(s), EventRow(x)) |-> Append(LogOf(s), EventRow(x))[i]]
  BY <1>5, SeqIsFunction
<1> QED BY <1>4, <1>6, <1>7, <1>8, <1>9

\* The initial states map to initial states.
LEMMA InitMaps == Init => Lifecycle!Init
<1> SUFFICES ASSUME Init PROVE Lifecycle!Init
  OBVIOUS
<1>1. LogOf(db.log) = <<>>
  BY DEF Init, LogOf
<1> QED BY <1>1, SameBooks DEF Init, Lifecycle!Init, LogOf, EventRow

\* A step that writes no committed row is no step of the lifecycle.
LEMMA StutterMaps == ASSUME db' = db PROVE UNCHANGED Lifecycle!vars
BY DEF Lifecycle!vars

\* Opening the dispute is opening it.
LEMMA OpenMaps ==
  ASSUME Shape, TxInv, NEW r \in DOMAIN Rules, NEW amount \in Amounts, NEW book \in AddressBooks,
         NEW tm \in Teams, NEW tier \in Tiers, CreateDispute(r, amount, book, tm, tier)
  PROVE  Lifecycle!Next
<1>1. /\ db.state = "NONE"
      /\ db'.regime = r /\ db'.disputed = amount /\ db'.addresses = book
      /\ db'.state = "INITIATED" /\ db'.appeals = 0 /\ db'.version = 1 /\ db'.team = tm
      /\ db'.ledger = <<>> /\ db'.bal = db.bal /\ db'.questionnaire = "none" /\ db'.risk = tier
  BY OpenEffect
<1>2. db.appeals = 0 /\ db.ledger = <<>> /\ db.questionnaire = "none"
  BY <1>1 DEF TxInv, Unopened
<1>3. db'.clocks = Lifecycle!acknowledge(Lifecycle!OpeningDeadlines(Rules[r]))
  BY OpenEffect, SameClocks
<1>4. db'.notices = Lifecycle!notify(Rules[r], book, "INITIATED", 1, "")
  BY OpenEffect, SameNotices
<1>5. LogOf(db'.log) = <<[event |-> "OPENED", from |-> "NONE", to |-> "INITIATED"]>>
  <2> DEFINE x == [seq |-> 1, event |-> "OPENED", from |-> "NONE", to |-> "INITIATED",
                   key |-> "", override |-> FALSE]
  <2>1. EventRow(x) = [event |-> "OPENED", from |-> "NONE", to |-> "INITIATED"]
    BY DEF EventRow
  <2>2. db'.log = <<x>>
    BY OpenEffect
  <2> HIDE DEF x
  <2>3. DOMAIN db'.log = 1..1 /\ db'.log[1] = x
    BY <2>2
  <2>4. LogOf(db'.log) = <<EventRow(x)>>
    BY <2>3 DEF LogOf
  <2> QED BY <2>1, <2>4
<1>6. Lifecycle!CreateDispute(r, amount, book, tm, tier)
  BY <1>1, <1>2, <1>3, <1>4, <1>5 DEF Lifecycle!CreateDispute, LogOf, EventRow
<1>7. tier \in Lifecycle!RiskTiers
  BY ServiceAssumption DEF Lifecycle!RiskTiers, RiskTiers
<1> QED BY <1>6, <1>7 DEF Lifecycle!Next

\* A log has finitely many moves in it.
LEMMA MovesCounted == ASSUME Shape PROVE Lifecycle!Cardinality(Lifecycle!Reassigned) \in Nat
<1> DEFINE R == Lifecycle!Reassigned
<1>1. PICK S : db.log \in Seq(S)
  BY DEF Shape, SeqInv
<1>2. R \subseteq 1..Len(db.log) /\ Len(db.log) \in Nat
  BY <1>1 DEF Lifecycle!Reassigned
<1>3. IsFiniteSet(1..Len(db.log))
  BY <1>2, FS_Interval
<1>4. IsFiniteSet(R)
  BY <1>2, <1>3, FS_Subset
<1>5. Cardinality(R) \in Nat
  BY <1>4, FS_CardinalityType
<1>6. Lifecycle!Cardinality(R) = Cardinality(R)
  BY DEF Lifecycle!Cardinality, Cardinality, Lifecycle!IsFiniteSet, IsFiniteSet
<1> QED BY <1>5, <1>6

\* A committed move is a move: of the team the committed row has.
LEMMA MoveMaps ==
  ASSUME Shape, TxInv, NEW w \in Workers, Commit(w), tx[w].req.event = "REASSIGNED"
  PROVE  Lifecycle!Next
<1>1. /\ Fresh(w) /\ db.state # "NONE" /\ tx[w].rec.state = db.state /\ \E S : db.log \in Seq(S)
  BY CommitFacts DEF SeqInv
<1>2. tx[w].to.state = db.state /\ tx[w].req.team \in Teams \ {db.team}
  BY <1>1 DEF Fresh
<1>3. LogOf(db'.log) = Append(LogOf(db.log), [event |-> "REASSIGNED", from |-> db.state, to |-> db.state])
  <2>1. LogOf(db'.log) = Append(LogOf(db.log), EventRow(EventOf(w)))
    BY <1>1, MoveCommit, LogGrows
  <2>2. EventRow(EventOf(w)) = [event |-> "REASSIGNED", from |-> db.state, to |-> db.state]
    BY <1>1, <1>2 DEF EventOf, EventRow
  <2> QED BY <2>1, <2>2
<1>4. /\ db'.version = db.version + 1 /\ db'.team = tx[w].req.team
      /\ db'.state = db.state /\ db'.appeals = db.appeals /\ db'.ledger = db.ledger
      /\ db'.bal = db.bal /\ db'.clocks = db.clocks /\ db'.questionnaire = db.questionnaire
      /\ db'.risk = db.risk /\ db'.notices = db.notices /\ db'.regime = db.regime
      /\ db'.disputed = db.disputed /\ db'.addresses = db.addresses
  BY MoveCommit
<1>5. PICK tm : tm = tx[w].req.team
  OBVIOUS
<1>6. Lifecycle!Reassign(tm)
  BY <1>1, <1>2, <1>3, <1>4, <1>5, MovesCounted DEF Lifecycle!Reassign, LogOf, EventRow
<1>7. tm \in Teams
  BY <1>2, <1>5
<1> QED BY <1>6, <1>7 DEF Lifecycle!Next

\* A committed transition is one the state machine, the hold and the payload rules allow
\* on the committed rows, with exactly the rows it demands.
LEMMA EventMaps ==
  ASSUME Shape, TxInv, NEW w \in Workers, Commit(w), tx[w].req.event # "REASSIGNED"
  PROVE  Lifecycle!Next
<1> DEFINE q == tx[w].req
           e == tx[w].req.event
           r == Rules[db.regime]
           p == [liability |-> tx[w].req.liability, settlement |-> tx[w].req.settlement,
                 answered |-> tx[w].req.answered, override |-> tx[w].req.override]
<1>1. /\ Fresh(w) /\ db.state # "NONE" /\ tx[w].rec.state = db.state /\ \E S : db.log \in Seq(S)
      /\ tx[w].rec.version = db.version /\ tx[w].pc = "commit" /\ WrittenInv(w) /\ q \in Requests
  BY CommitFacts DEF SeqInv
<1>2. PICK n \in Apply(r, db.state, db.appeals, e) : tx[w].to = Row(n.state, n.appeals, db.version)
  BY <1>1 DEF Fresh
<1>3. /\ tx[w].to.state = n.state /\ tx[w].to.appeals = n.appeals /\ tx[w].rec.appeals = db.appeals
  BY <1>1, <1>2 DEF Row, Fresh
<1>4. n \in Lifecycle!Apply(r, db.state, db.appeals, e)
  BY <1>2, SameApply
<1>5. p \in Lifecycle!Payloads /\ e \in Lifecycle!AllEvents
  <2>1. q \in RequestType
    BY <1>1, ServiceAssumption
  <2>2. e \in AllEvents /\ q.answered \in BOOLEAN /\ q.override \in BOOLEAN
    BY <2>1 DEF RequestType
  <2>3. e \in Lifecycle!AllEvents
    BY <2>2 DEF Lifecycle!AllEvents, AllEvents
  <2>4. /\ q.liability \in {x.liability : x \in Requests} \cup {0}
        /\ q.settlement \in {x.settlement : x \in Requests} \cup {""}
    BY <1>1
  <2> QED BY <2>2, <2>3, <2>4 DEF Lifecycle!Payloads
<1>6. Lifecycle!holdCheck(db.risk, e, p) /\ Lifecycle!PayloadValid(r, db.disputed, e, p)
  <2>1. holdCheck(db.risk, e, q) /\ PayloadValid(r, db.disputed, e, q)
    BY <1>1 DEF Fresh, WrittenInv
  <2>2. p.liability = q.liability /\ p.settlement = q.settlement /\ p.answered = q.answered
        /\ p.override = q.override
    OBVIOUS
  <2> HIDE DEF p, q, e, r
  <2> QED BY <2>1, <2>2, SameChecks
<1> DEFINE ps == Lifecycle!Postings(r, n.state, db.disputed, p.liability, db.bal["SUSPENSE"],
                                    Lifecycle!ParseSettlement(r, p.settlement))
<1>7. ps = Movements(w)
  BY <1>3, SamePostings, SameBooks DEF Movements
<1>8. PICK tier \in Assessed(w) : tx[w].writes = Writes(w, tier)
  BY <1>1 DEF WrittenInv
<1>9. db'.ledger = db.ledger \o Lifecycle!LedgerRows(db.version + 1, ps) /\ db'.bal = Lifecycle!Book(db.bal, ps)
  <2>1. tx[w].writes.postings = Movements(w)
    BY <1>8 DEF Writes
  <2>2. /\ db'.ledger = db.ledger \o LedgerRows(db.version + 1, Movements(w))
        /\ db'.bal = Book(db.bal, Movements(w))
    BY <1>1, <2>1, EventCommit
  <2> HIDE DEF ps
  <2> QED BY <1>7, <2>2, SameBooks
<1>10. db'.clocks = Lifecycle!settleDeadlines(r, db.clocks, n.state, n.appeals > db.appeals, n.appeals)
  <2> DEFINE cs == settleDeadlines(r, db.clocks, n.state, n.appeals > db.appeals, n.appeals)
  <2>1. tx[w].writes.clocksOut = db.clocks \ cs /\ tx[w].writes.clocksIn = cs \ db.clocks
    BY <1>3, <1>8 DEF Writes
  <2>2. db'.clocks = (db.clocks \ tx[w].writes.clocksOut) \cup tx[w].writes.clocksIn
    BY EventCommit
  <2>3. cs = Lifecycle!settleDeadlines(r, db.clocks, n.state, n.appeals > db.appeals, n.appeals)
    BY SameClocks
  <2> HIDE DEF cs
  <2>4. db'.clocks = cs
    BY <2>1, <2>2
  <2> QED BY <2>3, <2>4
<1>11. db'.notices = db.notices \cup Lifecycle!notify(r, db.addresses, n.state, db.version + 1,
                                                     Lifecycle!OutcomeOf(db'.ledger, db'.bal))
  <2>1. tx[w].writes.notices =
          notify(r, db.addresses, n.state, db.version + 1,
                 OutcomeOf(db.ledger \o LedgerRows(db.version + 1, Movements(w)), Book(db.bal, Movements(w))))
    BY <1>1, <1>3, <1>8 DEF Writes
  <2>2. /\ db'.ledger = db.ledger \o LedgerRows(db.version + 1, Movements(w))
        /\ db'.bal = Book(db.bal, Movements(w))
    BY <1>7, <1>9, SameBooks
  <2>3. db'.notices = db.notices \cup tx[w].writes.notices
    BY EventCommit
  <2>4. \A l, b : Lifecycle!OutcomeOf(l, b) = OutcomeOf(l, b)
    BY SameBooks
  <2>5. \A a, b, c, d, f : Lifecycle!notify(a, b, c, d, f) = notify(a, b, c, d, f)
    BY SameNotices
  <2>6. tx[w].writes.notices = notify(r, db.addresses, n.state, db.version + 1, OutcomeOf(db'.ledger, db'.bal))
    BY <2>1, <2>2
  <2> QED BY <2>3, <2>4, <2>5, <2>6
<1>12. /\ db'.questionnaire = Lifecycle!Questionnaire(e, db.questionnaire)
       /\ db'.risk \in IF e = "RECEIVE_QUESTIONNAIRE" THEN Lifecycle!RiskTiers ELSE {db.risk}
  <2>1. tx[w].writes.questionnaire = Questionnaire(e, db.questionnaire) /\ tx[w].writes.risk = tier
    BY <1>8 DEF Writes
  <2>2. db'.questionnaire = tx[w].writes.questionnaire /\ db'.risk = tier
    BY <2>1, EventCommit
  <2>3. tier \in IF e = "RECEIVE_QUESTIONNAIRE" THEN Lifecycle!RiskTiers ELSE {db.risk}
    BY <1>8, ServiceAssumption DEF Assessed, Lifecycle!RiskTiers, RiskTiers
  <2>4. Lifecycle!Questionnaire(e, db.questionnaire) = Questionnaire(e, db.questionnaire)
    BY SameNotices
  <2> QED BY <2>1, <2>2, <2>3, <2>4
<1>13. LogOf(db'.log) = Append(LogOf(db.log), [event |-> e, from |-> db.state, to |-> n.state])
  <2>1. LogOf(db'.log) = Append(LogOf(db.log), EventRow(EventOf(w)))
    <3>1. db'.log = Append(db.log, EventOf(w))
      BY EventCommit
    <3> QED BY <1>1, <3>1, LogGrows
  <2>2. EventRow(EventOf(w)) = [event |-> e, from |-> db.state, to |-> n.state]
    BY <1>1, <1>3 DEF EventOf, EventRow
  <2> QED BY <2>1, <2>2
<1>14. /\ db'.version = db.version + 1 /\ db'.state = n.state /\ db'.appeals = n.appeals
       /\ db'.team = db.team /\ db'.regime = db.regime
       /\ db'.disputed = db.disputed /\ db'.addresses = db.addresses
  BY <1>3, EventCommit
<1> HIDE DEF p, e, r
<1>15. PICK c : c = e
  OBVIOUS
<1>16. Lifecycle!ApplyEvent(c)
  BY <1>1, <1>4, <1>5, <1>6, <1>9, <1>10, <1>11, <1>12, <1>13, <1>14, <1>15
     DEF Lifecycle!ApplyEvent, LogOf, EventRow, r
<1>17. c \in Lifecycle!AllEvents
  BY <1>5, <1>15
<1> QED BY <1>16, <1>17 DEF Lifecycle!Next

\* The interleaved transactions implement DisputeLifecycle: every commit is one whole
\* CreateDispute, ApplyEvent or Reassign, decided on the rows it is committed to although
\* they were read before the row was locked, and every other step commits nothing.
THEOREM ServiceImplementsLifecycle == Spec => CommitsAreLifecycleSteps
<1>1. Shape /\ TxInv /\ [Next]_vars => [Lifecycle!Next]_(Lifecycle!vars)
  <2> SUFFICES ASSUME Shape, TxInv, [Next]_vars PROVE [Lifecycle!Next]_(Lifecycle!vars)
    OBVIOUS
  <2>1. CASE db' = db
    BY <2>1, StutterMaps
  <2>2. ASSUME NEW w \in Workers, Commit(w) PROVE Lifecycle!Next
    BY <2>2, MoveMaps, EventMaps
  <2> QED BY <2>1, <2>2, OpenMaps, OnlyCommitsWrite
<1>2. Init => Lifecycle!Init
  BY InitMaps
<1> QED BY <1>1, <1>2, TxInit, TxStep, PTL DEF Spec, CommitsAreLifecycleSteps, Lifecycle!Spec

-----------------------------------------------------------------------------
(* What is proved of DisputeLifecycle holds of the interleaved service *)

Proved == INSTANCE DisputeLifecycleProofs WITH
  Liabilities <- {q.liability : q \in Requests} \cup {0},
  Settlements <- {q.settlement : q \in Requests} \cup {""},
  MovesBefore <- Nat,
  regime <- db.regime, disputed <- db.disputed, addresses <- db.addresses,
  state <- db.state, appeals <- db.appeals, version <- db.version, team <- db.team,
  log <- [i \in DOMAIN db.log |->
            [event |-> db.log[i].event, from |-> db.log[i].from, to |-> db.log[i].to]],
  ledger <- db.ledger, bal <- db.bal, clocks <- db.clocks,
  questionnaire <- db.questionnaire, risk <- db.risk, notices <- db.notices

\* The lifecycle the proofs are about is the one the service implements.
LEMMA SameLifecycle ==
  /\ Lifecycle!Init => Proved!Init
  /\ [Lifecycle!Next]_(Lifecycle!vars) => [Proved!Next]_(Proved!vars)
BY DEF Lifecycle!Init, Proved!Init, Lifecycle!Next, Proved!Next,
         Lifecycle!CreateDispute, Proved!CreateDispute, Lifecycle!ApplyEvent, Proved!ApplyEvent,
         Lifecycle!Reassign, Proved!Reassign, Lifecycle!Reassigned, Proved!Reassigned,
         Lifecycle!Payloads, Proved!Payloads, Lifecycle!Apply, Proved!Apply,
         Lifecycle!next, Proved!next, Lifecycle!AllStates, Proved!AllStates,
         Lifecycle!RefundStates, Proved!RefundStates, Lifecycle!Undecided, Proved!Undecided,
         Lifecycle!Contested, Proved!Contested, Lifecycle!closing, Proved!closing,
         Lifecycle!HasProvisionalCredit, Proved!HasProvisionalCredit,
         Lifecycle!HasRefundStep, Proved!HasRefundStep,
         Lifecycle!refundState, Proved!refundState, Lifecycle!Postings, Proved!Postings,
         Lifecycle!post, Proved!post, Lifecycle!settle, Proved!settle,
         Lifecycle!settlements, Proved!settlements, Lifecycle!reversal, Proved!reversal,
         Lifecycle!creditKind, Proved!creditKind,
         Lifecycle!ParseSettlement, Proved!ParseSettlement, Lifecycle!Book, Proved!Book,
         Lifecycle!add, Proved!add, Lifecycle!Accounts, Proved!Accounts,
         Lifecycle!LedgerRows, Proved!LedgerRows, Lifecycle!OutcomeOf, Proved!OutcomeOf,
         Lifecycle!settleDeadlines, Proved!settleDeadlines, Lifecycle!Settle, Proved!Settle,
         Lifecycle!AppealDeadlines, Proved!AppealDeadlines,
         Lifecycle!acknowledge, Proved!acknowledge,
         Lifecycle!OpeningDeadlines, Proved!OpeningDeadlines, Lifecycle!notify, Proved!notify,
         Lifecycle!NoticesFor, Proved!NoticesFor, Lifecycle!ChannelsFor, Proved!ChannelsFor,
         Lifecycle!Questionnaire, Proved!Questionnaire, Lifecycle!holdCheck, Proved!holdCheck,
         Lifecycle!CreditAllowed, Proved!CreditAllowed,
         Lifecycle!PayloadValid, Proved!PayloadValid,
         Lifecycle!LiabilityAllowed, Proved!LiabilityAllowed,
         Lifecycle!SettlementAllowed, Proved!SettlementAllowed,
         Lifecycle!SuspenseSettlements, Proved!SuspenseSettlements,
         Lifecycle!RiskTiers, Proved!RiskTiers, Lifecycle!AllEvents, Proved!AllEvents,
         Lifecycle!Cardinality, Proved!Cardinality, Lifecycle!IsFiniteSet, Proved!IsFiniteSet,
         Lifecycle!vars, Proved!vars

\* The service's constants satisfy what the lifecycle assumes of its own.
LEMMA LifecycleAssumptions == Proved!RulesAssumption /\ Proved!InputsAssumption
<1>1. Proved!RulesAssumption
  BY ServiceAssumption
     DEF Proved!RulesAssumption, Proved!RuleRows, RuleRows, Proved!RefundPaths, RefundPaths,
         Proved!DeadlineKinds, DeadlineKinds, Proved!SuspenseSettlements, SuspenseSettlements
<1>2. \A q \in Requests : q.liability \in Int
  BY ServiceAssumption DEF RequestType
<1>3. Proved!InputsAssumption
  <2>1. {q.liability : q \in Requests} \cup {0} \subseteq Int
    BY <1>2
  <2>2. Amounts \subseteq Nat \ {0} /\ AddressBooks \subseteq SUBSET Proved!Channels
    BY ServiceAssumption DEF Proved!Channels, Channels
  <2> QED BY <2>1, <2>2 DEF Proved!InputsAssumption
<1> QED BY <1>1, <1>3

LEMMA ServiceImplementsProved == Spec => Proved!Spec
<1>1. Spec => Lifecycle!Init /\ [][Lifecycle!Next]_(Lifecycle!vars)
  BY ServiceImplementsLifecycle DEF CommitsAreLifecycleSteps, Lifecycle!Spec
<1> QED BY <1>1, SameLifecycle, PTL DEF Proved!Spec

\* However the requests on a dispute interleave, repeat, crash and lose the core's
\* answers, the committed books never hold more than one advance, suspense is clear and
\* the books balance once the dispute is CLOSED, and one resolution clock runs until then.
THEOREM ServiceKeepsTheBooks ==
  Spec => []/\ Lifecycle!OneAdvance /\ Lifecycle!SuspenseClears
            /\ Lifecycle!ClosedBooksBalance /\ Lifecycle!ResolutionClockRuns
<1>1. Proved!Spec => [](Proved!OneAdvance)
  BY LifecycleAssumptions, Proved!OneAdvanceAlways
<1>2. Proved!Spec => [](Proved!SuspenseClears)
  BY LifecycleAssumptions, Proved!SuspenseAlwaysClears
<1>3. Proved!Spec => [](Proved!ClosedBooksBalance)
  BY LifecycleAssumptions, Proved!ClosedBooksAlwaysBalance
<1>4. Proved!Spec => [](Proved!ResolutionClockRuns)
  BY LifecycleAssumptions, Proved!ResolutionClockAlwaysRuns
<1>5. /\ Proved!OneAdvance => Lifecycle!OneAdvance
      /\ Proved!SuspenseClears => Lifecycle!SuspenseClears
  BY DEF Proved!OneAdvance, Lifecycle!OneAdvance, Proved!Advanced, Lifecycle!Advanced,
         Proved!RefundStates, Lifecycle!RefundStates, Proved!HasProvisionalCredit,
         Lifecycle!HasProvisionalCredit, Proved!SuspenseClears, Lifecycle!SuspenseClears
<1>6. /\ Proved!ClosedBooksBalance => Lifecycle!ClosedBooksBalance
      /\ Proved!ResolutionClockRuns => Lifecycle!ResolutionClockRuns
  BY DEF Proved!ClosedBooksBalance, Lifecycle!ClosedBooksBalance, Proved!Accounts,
         Lifecycle!Accounts, Proved!ResolutionClockRuns, Lifecycle!ResolutionClockRuns
<1> QED BY <1>1, <1>2, <1>3, <1>4, <1>5, <1>6, ServiceImplementsProved, PTL

\* What the customer sees is as safe from interleaving: a reversal takes back exactly the
\* credit before it, every movement on the account is told in every form owed, and a
\* refund clock is met only by a credit before the first close, void only without one.
THEOREM ServiceKeepsItsPromises ==
  Spec => []/\ Lifecycle!ReversalReturnsTheCredit /\ Lifecycle!CustomerIsTold
            /\ Lifecycle!RefundClockTruthful
<1>1. Proved!Spec => [](Proved!ReversalReturnsTheCredit)
  BY LifecycleAssumptions, Proved!ReversalAlwaysReturnsTheCredit
<1>2. Proved!Spec => [](Proved!CustomerIsTold)
  BY LifecycleAssumptions, Proved!CustomerIsAlwaysTold
<1>3. Proved!Spec => [](Proved!RefundClockTruthful)
  BY LifecycleAssumptions, Proved!RefundClockIsTruthful
<1>4. Proved!ReversalReturnsTheCredit => Lifecycle!ReversalReturnsTheCredit
  BY DEF Proved!ReversalReturnsTheCredit, Lifecycle!ReversalReturnsTheCredit
<1>5. Proved!CustomerIsTold => Lifecycle!CustomerIsTold
  BY DEF Proved!CustomerIsTold, Lifecycle!CustomerIsTold, Proved!Channels, Lifecycle!Channels
<1>6. Proved!RefundClockTruthful => Lifecycle!RefundClockTruthful
  BY DEF Proved!RefundClockTruthful, Lifecycle!RefundClockTruthful, Proved!FirstCloseSeq,
         Lifecycle!FirstCloseSeq, Proved!CreditKinds, Lifecycle!CreditKinds
<1> QED BY <1>1, <1>2, <1>3, <1>4, <1>5, <1>6, ServiceImplementsProved, PTL

=============================================================================
