------------------------ MODULE AccessControlProofs ------------------------
(***************************************************************************)
(* Theorems about AccessControl, for every set of rows an operator may     *)
(* write, any number of principals, teams, requests and replicas.          *)
(***************************************************************************)
EXTENDS AccessControl, TLAPS

-----------------------------------------------------------------------------
(* What the engine may allow *)

\* A set of permits none of which reaches outside its own team.
Bounded(permits) == \A x \in permits : x.within = x.team

\* Memberships are the caller's own rows.
OwnRows(members, p) == members \subseteq MemberRows /\ \A m \in members : m.who = p

\* Compile bounds every permit to the team of its grant.
LEMMA CompileBounded == \A grants : Bounded(Compile(grants))
BY DEF Compile, Bounded

\* Whatever the grants, an analyst is allowed nothing on a team they are not in.
LEMMA AllowedReach ==
  ASSUME NEW permits, Bounded(permits), NEW p \in Principals, NEW members,
         NEW action, NEW res, Decide(permits, p, members, action, res)
  PROVE  /\ res.kind = "Tenant" => p \in Admins
         /\ res.kind # "Tenant" => p \in Keys \/ \E m \in members : m.team = res.team
         /\ action \in People => p \notin Keys
BY DEF Bounded, Decide, Forbidden, Guaranteed, GrantAllows, InScope

\* The forbids hold of whatever is allowed.
LEMMA AllowedDuties ==
  ASSUME NEW permits, NEW p \in Principals, NEW members, OwnRows(members, p),
         NEW action, NEW res, res.kind = "Dispute",
         Decide(permits, p, members, action, res)
  PROVE  /\ action = "reassign" =>
              [team |-> res.team, who |-> p, role |-> "lead"] \in members
         /\ action = "ISSUE_FINAL_CREDIT" /\ p \in Analysts =>
              res.opener \notin {p, "?unrecorded"}
<1>1. ~Forbidden(p, members, action, res)
  BY DEF Decide
<1>2. ASSUME action = "reassign"
      PROVE  [team |-> res.team, who |-> p, role |-> "lead"] \in members
  <2>1. PICK m \in members : m.role = "lead" /\ m.team = res.team
    BY <1>1, <1>2 DEF Forbidden
  <2>2. m.who = p /\ m \in MemberRows
    BY DEF OwnRows
  <2>3. m = [team |-> m.team, who |-> m.who, role |-> m.role]
    BY <2>2 DEF MemberRows
  <2> QED BY <2>1, <2>2, <2>3
<1> QED BY <1>1, <1>2 DEF Forbidden

-----------------------------------------------------------------------------
(* Guardrails.  AllowedWithinGuardrails speaks of a request that has been  *)
(* allowed; the step that allows it uses a cached set, the memberships it  *)
(* read and the caller it started with, so the invariant follows all three.*)

ReqOK(q) ==
  /\ req[q].pc \in {"idle", "facts", "access", "decide", "write"}
  /\ req[q].pc # "idle" => req[q].p \in Principals
  /\ req[q].pc \in {"decide", "write"} => OwnRows(req[q].a.members, req[q].p)

WithinGuardrails(r) ==
  /\ r.action \in Administration => r.p \in Admins
  /\ r.action \notin Administration =>
       r.p \in Keys \/ \E m \in r.a.members : m.team = r.rec.team
  /\ r.action \in People => r.p \in Analysts
  /\ r.action = "reassign" =>
       [team |-> r.rec.team, who |-> r.p, role |-> "lead"] \in r.a.members
  /\ r.action = "ISSUE_FINAL_CREDIT" /\ r.p \in Analysts =>
       r.opener \notin {r.p, "?unrecorded"}

GuardInv ==
  /\ DOMAIN req = Requests /\ DOMAIN cache = Replicas
  /\ access.members \subseteq MemberRows
  /\ \A rep \in Replicas : Bounded(cache[rep].permits)
  /\ \A q \in Requests : ReqOK(q)
  /\ \A q \in Requests : req[q].pc = "write" => WithinGuardrails(req[q])

\* A step that leaves the other requests alone and ends, or advances, q.
LEMMA RequestStep ==
  ASSUME GuardInv, NEW q \in Requests, NEW r, req' = [req EXCEPT ![q] = r],
         UNCHANGED cache \/ \E rep \in Replicas : \E v, P :
           Bounded(P) /\ cache' = [cache EXCEPT ![rep] = [version |-> v, permits |-> P]],
         UNCHANGED access,
         r.pc \in {"idle", "facts", "access", "decide", "write"},
         r.pc # "idle" => r.p \in Principals,
         r.pc \in {"decide", "write"} => OwnRows(r.a.members, r.p),
         r.pc = "write" => WithinGuardrails(r)
  PROVE  GuardInv'
<1>1. DOMAIN req' = Requests /\ req'[q] = r /\ \A o \in Requests \ {q} : req'[o] = req[o]
  BY DEF GuardInv
<1>2. DOMAIN cache' = Replicas /\ \A rep \in Replicas : Bounded(cache'[rep].permits)
  <2>1. CASE UNCHANGED cache
    BY <2>1 DEF GuardInv
  <2>2. ASSUME NEW rep \in Replicas, NEW v, NEW P, Bounded(P),
               cache' = [cache EXCEPT ![rep] = [version |-> v, permits |-> P]]
        PROVE  DOMAIN cache' = Replicas /\ \A o \in Replicas : Bounded(cache'[o].permits)
    <3>1. DOMAIN cache' = Replicas /\ cache'[rep] = [version |-> v, permits |-> P]
          /\ \A o \in Replicas \ {rep} : cache'[o] = cache[o]
      BY <2>2 DEF GuardInv
    <3>2. cache'[rep].permits = P
      BY <3>1
    <3>3. \A o \in Replicas \ {rep} : Bounded(cache'[o].permits)
      BY <3>1 DEF GuardInv
    <3> QED BY <3>1, <3>2, <3>3, <2>2
  <2> QED BY <2>1, <2>2
<1>3. \A o \in Requests : ReqOK(o)'
  BY <1>1 DEF GuardInv, ReqOK
<1>4. \A o \in Requests : req'[o].pc = "write" => WithinGuardrails(req'[o])
  BY <1>1 DEF GuardInv
<1>5. access'.members \subseteq MemberRows
  BY DEF GuardInv
<1> QED BY <1>1, <1>2, <1>3, <1>4, <1>5 DEF GuardInv

\* What authorize hands on has been allowed within the guardrails.
LEMMA AuthorizeWithin ==
  ASSUME GuardInv, NEW q \in Requests, req[q].pc = "decide",
         NEW permits, Bounded(permits),
         Decide(permits, req[q].p, req[q].a.members, req[q].action, Resource(q))
  PROVE  WithinGuardrails(WithAccess(req[q], "write", req[q].rec, req[q].a))
<1> DEFINE r == req[q]
           w == WithAccess(r, "write", r.rec, r.a)
<1>1. r.p \in Principals /\ OwnRows(r.a.members, r.p)
  BY DEF GuardInv, ReqOK
<1>2. w.p = r.p /\ w.action = r.action /\ w.rec = r.rec /\ w.a = r.a /\ w.opener = r.opener
  BY DEF WithAccess
<1>3. /\ Resource(q).kind = "Tenant" <=> r.action \in Administration
      /\ r.action \notin Administration => Resource(q).team = r.rec.team
      /\ r.action \in {"reassign", "ISSUE_FINAL_CREDIT"} =>
           Resource(q).kind = "Dispute" /\ Resource(q).opener = r.opener
  BY DEF Resource, TeamResource, TenantResource, DisputeResource, Administration
<1>4. /\ Resource(q).kind = "Tenant" => r.p \in Admins
      /\ Resource(q).kind # "Tenant" =>
           r.p \in Keys \/ \E m \in r.a.members : m.team = Resource(q).team
      /\ r.action \in People => r.p \notin Keys
  BY <1>1, AllowedReach
<1>5. Resource(q).kind = "Dispute" =>
        /\ r.action = "reassign" =>
             [team |-> Resource(q).team, who |-> r.p, role |-> "lead"] \in r.a.members
        /\ r.action = "ISSUE_FINAL_CREDIT" /\ r.p \in Analysts =>
             Resource(q).opener \notin {r.p, "?unrecorded"}
  BY <1>1, AllowedDuties
<1>6. /\ r.action \in Administration => r.p \in Admins
      /\ r.action \notin Administration => r.p \in Keys \/ \E m \in r.a.members : m.team = r.rec.team
      /\ r.action \in People => r.p \in Analysts
  BY <1>1, <1>3, <1>4 DEF Principals
<1>7. "reassign" \notin Administration
  BY DEF Administration
<1>8. /\ r.action = "reassign" => [team |-> r.rec.team, who |-> r.p, role |-> "lead"] \in r.a.members
      /\ r.action = "ISSUE_FINAL_CREDIT" /\ r.p \in Analysts => r.opener \notin {r.p, "?unrecorded"}
  BY <1>3, <1>5, <1>7
<1> HIDE DEF r, w
<1>9. WithinGuardrails(w)
  BY <1>2, <1>6, <1>8 DEF WithinGuardrails
<1> QED BY <1>9 DEF r, w

LEMMA GuardInit == Init => GuardInv
<1> SUFFICES ASSUME Init PROVE GuardInv
  OBVIOUS
<1>1. access.members \subseteq MemberRows
  <2>1. PICK f \in Fixtures :
          access = [version |-> 1, default |-> f.default, members |-> f.members,
                    grants |-> f.grants, routing |-> f.routing]
    BY DEF Init
  <2>2. access.members = f.members
    BY <2>1
  <2> QED BY <2>2, AccessAssumption DEF ParseFixture
<1>2. DOMAIN req = Requests /\ \A q \in Requests : req[q].pc = "idle"
  BY DEF Init, Idle
<1>3. DOMAIN cache = Replicas /\ \A rep \in Replicas : cache[rep].permits = {}
  BY DEF Init, NoSet
<1> QED BY <1>1, <1>2, <1>3 DEF GuardInv, ReqOK, Bounded

LEMMA GuardNext == GuardInv /\ [Next]_vars => GuardInv'
<1> SUFFICES ASSUME GuardInv, [Next]_vars PROVE GuardInv'
  OBVIOUS
<1> DEFINE Edits == access'.members \subseteq MemberRows /\ UNCHANGED <<req, cache>>
<1>1. ASSUME Edits PROVE GuardInv'
  BY <1>1 DEF GuardInv, ReqOK
<1>2. ASSUME NEW a \in Analysts, NEW t \in Teams, RemoveMember(a, t) PROVE Edits
  BY <1>2 DEF RemoveMember, Edit, Edited, GuardInv
<1>3. ASSUME NEW a \in Analysts, NEW t \in Teams, NEW role \in Roles, AddMember(a, t, role) PROVE Edits
  BY <1>3 DEF AddMember, Edit, Edited, GuardInv, MemberRows
<1>4. ASSUME NEW f \in Fixtures, SeedAccess(f) PROVE Edits
  BY <1>4, AccessAssumption DEF SeedAccess, Edit, Edited, GuardInv, ParseFixture
<1>5. ASSUME NEW q \in Requests, End(q), UNCHANGED <<access, cache>> PROVE GuardInv'
  <2>1. req' = [req EXCEPT ![q] = Idle] /\ Idle.pc = "idle"
    BY <1>5 DEF End, Idle
  <2> QED BY <2>1, <1>5, RequestStep
<1>6. ASSUME NEW q \in Requests, NEW x \in Asks, NEW txn, Start(q, x.p, x.action, txn) PROVE GuardInv'
  <2> DEFINE r == [pc |-> "access", p |-> x.p, action |-> x.action, to |-> "NONE",
                   rec |-> NoDispute, opener |-> "", blind |-> FALSE, txn |-> txn]
  <2>1. req' = [req EXCEPT ![q] = r] /\ UNCHANGED <<access, cache>>
    BY <1>6 DEF Start
  <2>2. r.pc = "access" /\ r.p \in Principals
    BY AccessAssumption DEF Principals
  <2> HIDE DEF r
  <2> QED BY <2>1, <2>2, RequestStep
<1>7. ASSUME NEW q \in Requests, NEW x \in Asks, GetDispute(q, x.p, x.action, x.to) PROVE GuardInv'
  <2> DEFINE r == [pc |-> "facts", p |-> x.p, action |-> x.action, to |-> x.to, rec |-> dispute]
  <2>1. req' = [req EXCEPT ![q] = r] /\ UNCHANGED <<access, cache>>
    BY <1>7 DEF GetDispute
  <2>2. r.pc = "facts" /\ r.p \in Principals
    BY AccessAssumption DEF Principals
  <2> HIDE DEF r
  <2> QED BY <2>1, <2>2, RequestStep
<1>8. ASSUME NEW q \in Requests, ListEvents(q) PROVE GuardInv'
  <2> DEFINE seen == in_team(req[q].p, dispute.team)
             r == [pc |-> "access", p |-> req[q].p, action |-> req[q].action, to |-> req[q].to,
                   rec |-> req[q].rec, opener |-> OpenedBy(IF seen THEN openers ELSE <<>>),
                   blind |-> ~seen, txn |-> NoTxn]
  <2>1. req' = [req EXCEPT ![q] = r] /\ UNCHANGED <<access, cache>>
    BY <1>8 DEF ListEvents
  <2>2. req[q].p \in Principals
    BY <1>8 DEF ListEvents, GuardInv, ReqOK
  <2>3. r.pc = "access" /\ r.p = req[q].p
    OBVIOUS
  <2> HIDE DEF r
  <2> QED BY <2>1, <2>2, <2>3, RequestStep
<1>9. ASSUME NEW q \in Requests, ReadAccess(q) PROVE GuardInv'
  <2>1. PICK rec : /\ req' = [req EXCEPT ![q] = WithAccess(req[q], "decide", rec, GetAccess(req[q].p))]
                   /\ UNCHANGED <<access, cache>>
    BY <1>9 DEF ReadAccess
  <2> DEFINE r == WithAccess(req[q], "decide", rec, GetAccess(req[q].p))
  <2>2. r.pc = "decide" /\ r.p = req[q].p /\ r.a = GetAccess(req[q].p)
    BY DEF WithAccess
  <2>3. req[q].p \in Principals
    BY <1>9 DEF ReadAccess, GuardInv, ReqOK
  <2>4. GetAccess(req[q].p).members = {m \in access.members : m.who = req[q].p}
    BY DEF GetAccess
  <2>5. OwnRows(r.a.members, r.p)
    BY <2>2, <2>4 DEF OwnRows, GuardInv
  <2>6. req' = [req EXCEPT ![q] = r] /\ UNCHANGED <<access, cache>>
    BY <2>1
  <2> HIDE DEF r
  <2> QED BY <2>2, <2>3, <2>5, <2>6, RequestStep
<1>10. ASSUME NEW q \in Requests, NEW rep \in Replicas, Authorize(q, rep) PROVE GuardInv'
  <2> DEFINE permits == set(rep, req[q].a)
             r == WithAccess(req[q], "write", req[q].rec, req[q].a)
  <2>1. /\ req[q].pc = "decide" /\ UNCHANGED access
        /\ cache' = [cache EXCEPT ![rep] = [version |-> req[q].a.version, permits |-> permits]]
        /\ \/ /\ Decide(permits, req[q].p, req[q].a.members, req[q].action, Resource(q))
              /\ req' = [req EXCEPT ![q] = r]
           \/ End(q)
    BY <1>10 DEF Authorize
  <2>2. Bounded(permits)
    BY CompileBounded DEF set, GuardInv
  <2> HIDE DEF permits
  <2>3. CASE End(q)
    <3>1. req' = [req EXCEPT ![q] = Idle] /\ Idle.pc = "idle"
      BY <2>3 DEF End, Idle
    <3> QED BY <3>1, <2>1, <2>2, RequestStep
  <2>4. CASE /\ Decide(permits, req[q].p, req[q].a.members, req[q].action, Resource(q))
             /\ req' = [req EXCEPT ![q] = r]
    <3>1. WithinGuardrails(r)
      BY <2>1, <2>2, <2>4, AuthorizeWithin
    <3>2. r.pc = "write" /\ r.p = req[q].p /\ r.a = req[q].a
      BY DEF WithAccess
    <3>3. r.p \in Principals /\ OwnRows(r.a.members, r.p)
      BY <3>2, <2>1 DEF GuardInv, ReqOK
    <3> HIDE DEF r
    <3> QED BY <3>1, <3>2, <3>3, <2>1, <2>2, <2>4, RequestStep
  <2> QED BY <2>1, <2>3, <2>4
<1>11. ASSUME NEW q \in Requests,
             InsertDispute(q) \/ ApplyEvent(q) \/ Reassign(q) \/ Operate(q) \/ Abandon(q)
       PROVE GuardInv'
  <2>1. End(q) /\ UNCHANGED <<access, cache>>
    BY <1>11 DEF InsertDispute, ApplyEvent, Reassign, Operate, Abandon
  <2> QED BY <2>1, <1>5
<1>12. ASSUME NEW rep \in Replicas, Restart(rep) PROVE GuardInv'
  <2>1. DOMAIN cache' = Replicas /\ \A o \in Replicas : cache'[o] = cache[o] \/ cache'[o] = NoSet
    BY <1>12 DEF Restart, GuardInv
  <2>2. \A o \in Replicas : Bounded(cache'[o].permits)
    BY <2>1 DEF GuardInv, NoSet, Bounded
  <2> QED BY <1>12, <2>1, <2>2 DEF Restart, GuardInv, ReqOK
<1>13. CASE UNCHANGED vars
  BY <1>13 DEF vars, GuardInv, ReqOK
<1> QED BY <1>1, <1>2, <1>3, <1>4, <1>6, <1>7, <1>8, <1>9, <1>10, <1>11, <1>12, <1>13 DEF Next

\* No set of rows breaks separation of duties, reaches another team or
\* administers the tenant: every request authz.Engine.Decide allows is within
\* the guardrails, for every table of grants and every history of edits.
THEOREM GuardrailsHold == Spec => []AllowedWithinGuardrails
<1>1. GuardInv => AllowedWithinGuardrails
  BY DEF GuardInv, AllowedWithinGuardrails, WithinGuardrails
<1> QED BY <1>1, GuardInit, GuardNext, PTL DEF Spec

-----------------------------------------------------------------------------
(* Separation of duties.  A credit is decided on what a request read       *)
(* earlier, so the invariant ties the reading to the version the write     *)
(* checks: as long as the dispute has the version a request read, the      *)
(* opener the request was told is the opener the log names.                *)

Unopened == {"NONE", "INITIATED"}

LogInv ==
  /\ openers \in Seq(Principals \cup {Unrecorded}) /\ Len(openers) =< 1
  /\ dispute.state \in Unopened => openers = <<>> /\ credits = {}

RowInv ==
  /\ DOMAIN dispute = {"state", "appeals", "version", "team", "amount", "moves"}
  /\ dispute.version \in Nat

\* What an event request knows of the dispute is true while the version stands.
Knows(r) ==
  r.pc # "idle" /\ r.action \in AllEvents =>
    /\ r.rec.version \in Nat /\ r.rec.version =< dispute.version
    /\ r.rec.version = dispute.version =>
         /\ r.rec.state = dispute.state
         /\ r.pc # "facts" /\ ~r.blind => r.opener = OpenedBy(openers)

DutyInv ==
  /\ GuardInv /\ LogInv /\ RowInv
  /\ \A q \in Requests : Knows(req[q])
  /\ SeparationWhenLogSeen

\* An event never leads back to an unopened dispute, and only an unopened one is opened.
LEMMA ApplyOpens ==
  ASSUME NEW r, NEW from, NEW used, NEW e, NEW n \in Apply(r, from, used, e)
  PROVE  /\ n.state \notin Unopened
         /\ e = "OPEN_INVESTIGATION" => from = "INITIATED"
<1>1. CASE e = "APPEAL"
  BY <1>1 DEF Apply, Unopened
<1>2. CASE e # "APPEAL"
  <2>1. PICK to \in next(r, from, e) : n = [state |-> to, appeals |-> used]
    BY <1>2 DEF Apply
  <2>2. to # "NONE"
    BY <2>1 DEF next, AllStates, RefundStates
  <2>3. to # "INITIATED"
    BY <2>1 DEF next, refundState
  <2>4. e = "OPEN_INVESTIGATION" => from = "INITIATED"
    BY <2>1 DEF next
  <2> QED BY <2>1, <2>2, <2>3, <2>4 DEF Unopened
<1> QED BY <1>1, <1>2

\* While the log and the dispute stand still, a request that comes to know no
\* more than is true keeps the invariant.
LEMMA KnowsStep ==
  ASSUME DutyInv, GuardInv', UNCHANGED <<dispute, openers, credits>>,
         NEW q \in Requests, NEW r, req' = [req EXCEPT ![q] = r], Knows(r)
  PROVE  DutyInv'
<1>1. \A o \in Requests : req'[o] = IF o = q THEN r ELSE req[o]
  BY DEF DutyInv, GuardInv
<1>2. \A o \in Requests : Knows(req'[o])
  BY <1>1 DEF DutyInv
<1>3. \A o \in Requests : Knows(req[o])'
  BY <1>2 DEF Knows
<1>4. LogInv' /\ RowInv' /\ SeparationWhenLogSeen'
  BY DEF DutyInv, LogInv, RowInv, SeparationWhenLogSeen
<1> QED BY <1>3, <1>4 DEF DutyInv

\* When the dispute takes a new version every request in flight knows an old one.
LEMMA NewVersion ==
  ASSUME DutyInv, GuardInv', NEW q \in Requests, End(q), dispute'.version = dispute.version + 1
  PROVE  \A o \in Requests : Knows(req[o])'
<1>1. \A o \in Requests : req'[o] = IF o = q THEN Idle ELSE req[o]
  BY DEF End, DutyInv, GuardInv
<1>2. Idle.pc = "idle"
  BY DEF Idle
<1>3. dispute.version \in Nat
  BY DEF DutyInv, RowInv
<1>4. ASSUME NEW o \in Requests PROVE Knows(req[o])'
  <2>1. CASE o = q
    BY <2>1, <1>1, <1>2 DEF Knows
  <2>2. CASE o # q
    <3>1. req'[o] = req[o] /\ Knows(req[o])
      BY <2>2, <1>1 DEF DutyInv
    <3>2. req[o].pc # "idle" /\ req[o].action \in AllEvents =>
            /\ req[o].rec.version \in Nat /\ req[o].rec.version =< dispute'.version
            /\ req[o].rec.version # dispute'.version
      BY <3>1, <1>3 DEF Knows
    <3> QED BY <3>1, <3>2 DEF Knows
  <2> QED BY <2>1, <2>2
<1> QED BY <1>4

LEMMA DutyInit == Init => DutyInv
<1> SUFFICES ASSUME Init PROVE DutyInv
  OBVIOUS
<1>1. GuardInv
  BY GuardInit
<1>2. /\ DOMAIN dispute = {"state", "appeals", "version", "team", "amount", "moves"}
      /\ \/ dispute.state = "NONE" /\ dispute.version = 0 /\ openers = <<>>
         \/ dispute.state = "INVESTIGATING" /\ dispute.version = 2 /\ openers = <<Unrecorded>>
  <2>1. CASE dispute = NoDispute /\ openers = <<>>
    BY <2>1 DEF NoDispute
  <2>2. ASSUME NEW txn, openers = <<Unrecorded>>,
               dispute = [NoDispute EXCEPT !.state = "INVESTIGATING", !.version = 2,
                                           !.team = access.default, !.amount = txn.amount]
        PROVE  /\ DOMAIN dispute = {"state", "appeals", "version", "team", "amount", "moves"}
               /\ dispute.state = "INVESTIGATING" /\ dispute.version = 2
    BY <2>2 DEF NoDispute
  <2>3. \/ dispute = NoDispute /\ openers = <<>>
        \/ \E txn \in Transactions :
             /\ openers = <<Unrecorded>>
             /\ dispute = [NoDispute EXCEPT !.state = "INVESTIGATING", !.version = 2,
                                            !.team = access.default, !.amount = txn.amount]
    BY DEF Init
  <2> QED BY <2>1, <2>2, <2>3
<1>3. LogInv /\ RowInv
  <2>1. RowInv
    BY <1>2 DEF RowInv
  <2>2. openers \in Seq(Principals \cup {Unrecorded}) /\ Len(openers) =< 1
    <3>1. CASE openers = <<>>
      BY <3>1
    <3>2. CASE openers = <<Unrecorded>>
      BY <3>2
    <3> QED BY <1>2, <3>1, <3>2
  <2>3. credits = {}
    BY DEF Init
  <2> QED BY <1>2, <2>1, <2>2, <2>3 DEF LogInv, Unopened
<1>4. \A q \in Requests : Knows(req[q])
  BY DEF Init, Idle, Knows
<1>5. SeparationWhenLogSeen
  BY DEF Init, SeparationWhenLogSeen
<1> QED BY <1>1, <1>3, <1>4, <1>5 DEF DutyInv

\* The write of an event: the only step that opens an investigation or credits.
LEMMA DutyApply ==
  ASSUME DutyInv, GuardInv', NEW q \in Requests, ApplyEvent(q)
  PROVE  DutyInv'
<1> DEFINE r == req[q]
           after == Apply(Regime, r.rec.state, r.rec.appeals, r.action)
<1>1. r.pc = "write" /\ r.action \in AllEvents /\ End(q)
  BY DEF ApplyEvent
<1>2. CASE ~(after # {} /\ Updatable(q))
  <2>1. UNCHANGED <<dispute, openers, credits>> /\ req' = [req EXCEPT ![q] = Idle]
    BY <1>2 DEF ApplyEvent, End
  <2>2. Knows(Idle)
    BY DEF Knows, Idle
  <2> QED BY <2>1, <2>2, KnowsStep
<1>3. CASE after # {} /\ Updatable(q)
  <2>1. PICK n \in after :
          dispute' = [dispute EXCEPT !.state = n.state, !.appeals = n.appeals,
                                     !.version = dispute.version + 1]
    BY <1>3 DEF ApplyEvent
  <2>2. /\ openers' = IF r.action = "OPEN_INVESTIGATION" THEN Append(openers, r.p) ELSE openers
        /\ credits' = IF r.action = "ISSUE_FINAL_CREDIT"
                        THEN credits \cup {[who |-> r.p, blind |-> r.blind]} ELSE credits
    BY <1>3 DEF ApplyEvent
  <2>3. n.state \notin Unopened /\ (r.action = "OPEN_INVESTIGATION" => r.rec.state = "INITIATED")
    BY ApplyOpens
  <2>4. /\ r.rec.state = dispute.state
        /\ ~r.blind => r.opener = OpenedBy(openers)
    BY <1>1, <1>3 DEF Updatable, DutyInv, Knows
  <2>5. r.p \in Principals
    BY <1>1 DEF DutyInv, GuardInv, ReqOK
  <2>6. DOMAIN dispute = {"state", "appeals", "version", "team", "amount", "moves"}
        /\ dispute.version \in Nat
    BY DEF DutyInv, RowInv
  <2>7. /\ DOMAIN dispute' = {"state", "appeals", "version", "team", "amount", "moves"}
        /\ dispute'.version = dispute.version + 1 /\ dispute'.state = n.state
    BY <2>1, <2>6
  <2>8. RowInv'
    BY <2>6, <2>7 DEF RowInv
  <2>9. \A o \in Requests : Knows(req[o])'
    BY <1>1, <2>7, NewVersion
  <2> HIDE DEF r, after
  <2>10. CASE r.action = "OPEN_INVESTIGATION"
    <3>1. openers = <<>> /\ credits = {}
      BY <2>3, <2>4, <2>10 DEF DutyInv, LogInv, Unopened
    <3>2. openers' = <<r.p>> /\ credits' = {}
      BY <2>2, <2>10, <3>1
    <3>3. LogInv'
      BY <3>2, <2>3, <2>5, <2>7 DEF LogInv
    <3>4. SeparationWhenLogSeen'
      BY <3>2 DEF SeparationWhenLogSeen
    <3> QED BY <3>3, <3>4, <2>8, <2>9 DEF DutyInv
  <2>11. CASE r.action # "OPEN_INVESTIGATION"
    <3>1. openers' = openers
      BY <2>2, <2>11
    <3>2. LogInv'
      BY <3>1, <2>3, <2>7 DEF DutyInv, LogInv
    <3>3. ASSUME r.action = "ISSUE_FINAL_CREDIT", r.p \in Analysts, ~r.blind, NEW i \in DOMAIN openers
          PROVE  openers[i] \notin {r.p, Unrecorded}
      <4>1. r.opener \notin {r.p, "?unrecorded"}
        BY <1>1, <3>3 DEF DutyInv, GuardInv, WithinGuardrails, r
      <4>2. openers \in Seq(Principals \cup {Unrecorded}) /\ Len(openers) =< 1
        BY DEF DutyInv, LogInv
      <4>3. i = 1 /\ Len(openers) = 1 /\ openers # <<>>
        <5>1. DOMAIN openers = 1..Len(openers) /\ Len(openers) \in Nat
          BY <4>2
        <5>2. i \in 1..Len(openers) /\ Len(openers) =< 1
          BY <5>1, <4>2, <3>3
        <5>3. i = 1 /\ Len(openers) = 1
          BY <5>1, <5>2
        <5>4. Len(<<>>) = 0
          OBVIOUS
        <5> QED BY <5>3, <5>4
      <4>4. OpenedBy(openers) = IF openers[1] = Unrecorded THEN "?unrecorded" ELSE openers[1]
        BY <4>3 DEF OpenedBy
      <4>5. r.opener = IF openers[1] = Unrecorded THEN "?unrecorded" ELSE openers[1]
        BY <4>4, <2>4, <3>3
      <4>6. openers[1] # Unrecorded
        BY <4>5, <4>1
      <4>7. openers[1] # r.p
        BY <4>5, <4>6, <4>1
      <4> QED BY <4>3, <4>6, <4>7
    <3>4. SeparationWhenLogSeen'
      <4>1. SUFFICES ASSUME NEW c \in credits', c.who \in Analysts, ~c.blind, NEW i \in DOMAIN openers
                     PROVE  openers[i] \notin {c.who, Unrecorded}
        BY <3>1 DEF SeparationWhenLogSeen
      <4>2. CASE c \in credits
        BY <4>1, <4>2 DEF DutyInv, SeparationWhenLogSeen
      <4>3. CASE c \notin credits
        <5>1. r.action = "ISSUE_FINAL_CREDIT" /\ c = [who |-> r.p, blind |-> r.blind]
          BY <4>1, <4>3, <2>2
        <5>2. c.who = r.p /\ c.blind = r.blind
          BY <5>1
        <5> QED BY <4>1, <5>1, <5>2, <3>3
      <4> QED BY <4>2, <4>3
    <3> QED BY <3>2, <3>4, <2>8, <2>9 DEF DutyInv
  <2> QED BY <2>10, <2>11
<1> QED BY <1>2, <1>3

LEMMA DutyNext == DutyInv /\ [Next]_vars => DutyInv'
<1> SUFFICES ASSUME DutyInv, [Next]_vars PROVE DutyInv'
  OBVIOUS
<1>0. GuardInv'
  BY GuardNext DEF DutyInv
<1>1. ASSUME UNCHANGED <<dispute, openers, credits, req>> PROVE DutyInv'
  BY <1>0, <1>1 DEF DutyInv, LogInv, RowInv, Knows, SeparationWhenLogSeen
<1>2. ASSUME NEW q \in Requests, End(q), UNCHANGED <<dispute, openers, credits>> PROVE DutyInv'
  <2>1. req' = [req EXCEPT ![q] = Idle] /\ Knows(Idle)
    BY <1>2 DEF End, Idle, Knows
  <2> QED BY <1>0, <1>2, <2>1, KnowsStep
<1>3. ASSUME NEW q \in Requests, NEW x \in Asks, NEW txn, Start(q, x.p, x.action, txn) PROVE DutyInv'
  <2> DEFINE r == [pc |-> "access", p |-> x.p, action |-> x.action, to |-> "NONE",
                   rec |-> NoDispute, opener |-> "", blind |-> FALSE, txn |-> txn]
  <2>1. req' = [req EXCEPT ![q] = r] /\ UNCHANGED <<dispute, openers, credits>>
    BY <1>3 DEF Start
  <2>2. r.action \notin AllEvents
    BY <1>3 DEF Start, Administration, AllEvents
  <2>3. Knows(r)
    BY <2>2 DEF Knows
  <2> HIDE DEF r
  <2> QED BY <1>0, <2>1, <2>3, KnowsStep
<1>4. ASSUME NEW q \in Requests, NEW x \in Asks, GetDispute(q, x.p, x.action, x.to) PROVE DutyInv'
  <2> DEFINE r == [pc |-> "facts", p |-> x.p, action |-> x.action, to |-> x.to, rec |-> dispute]
  <2>1. req' = [req EXCEPT ![q] = r] /\ UNCHANGED <<dispute, openers, credits>>
    BY <1>4 DEF GetDispute
  <2>2. r.pc = "facts" /\ r.rec = dispute
    OBVIOUS
  <2>3. Knows(r)
    BY <2>2 DEF Knows, DutyInv, RowInv
  <2> HIDE DEF r
  <2> QED BY <1>0, <2>1, <2>3, KnowsStep
<1>5. ASSUME NEW q \in Requests, ListEvents(q) PROVE DutyInv'
  <2> DEFINE seen == in_team(req[q].p, dispute.team)
             r == [pc |-> "access", p |-> req[q].p, action |-> req[q].action, to |-> req[q].to,
                   rec |-> req[q].rec, opener |-> OpenedBy(IF seen THEN openers ELSE <<>>),
                   blind |-> ~seen, txn |-> NoTxn]
  <2>1. /\ req' = [req EXCEPT ![q] = r] /\ UNCHANGED <<dispute, openers, credits>>
        /\ req[q].pc = "facts"
    BY <1>5 DEF ListEvents
  <2>2. r.action = req[q].action /\ r.rec = req[q].rec /\ (~r.blind => r.opener = OpenedBy(openers))
    OBVIOUS
  <2>3. Knows(req[q])
    BY DEF DutyInv
  <2> HIDE DEF r
  <2>4. Knows(r)
    BY <2>1, <2>2, <2>3 DEF Knows
  <2> QED BY <1>0, <2>1, <2>4, KnowsStep
<1>6. ASSUME NEW q \in Requests, NEW pc, NEW rec, NEW a,
             req' = [req EXCEPT ![q] = WithAccess(req[q], pc, rec, a)],
             req[q].action \in AllEvents => rec = req[q].rec, req[q].pc \in {"access", "decide"},
             UNCHANGED <<dispute, openers, credits>>
      PROVE DutyInv'
  <2> DEFINE r == WithAccess(req[q], pc, rec, a)
  <2>1. r.action = req[q].action /\ r.rec = rec /\ r.blind = req[q].blind /\ r.opener = req[q].opener
    BY DEF WithAccess
  <2>2. Knows(req[q])
    BY DEF DutyInv
  <2>3. req' = [req EXCEPT ![q] = r]
    BY <1>6
  <2> HIDE DEF r
  <2>4. Knows(r)
    BY <1>6, <2>1, <2>2 DEF Knows
  <2> QED BY <1>0, <1>6, <2>3, <2>4, KnowsStep
<1>7. ASSUME NEW q \in Requests, ReadAccess(q) PROVE DutyInv'
  <2>1. "create" \notin AllEvents
    BY DEF AllEvents
  <2> DEFINE a == GetAccess(req[q].p)
             rec == IF req[q].action = "create"
                      THEN [NoDispute EXCEPT !.team = Route(a, req[q].txn), !.amount = req[q].txn.amount]
                      ELSE req[q].rec
  <2>2. /\ req' = [req EXCEPT ![q] = WithAccess(req[q], "decide", rec, a)]
        /\ req[q].pc = "access" /\ UNCHANGED <<dispute, openers, credits>>
    BY <1>7 DEF ReadAccess
  <2>3. req[q].action \in AllEvents => rec = req[q].rec
    BY <2>1
  <2> HIDE DEF a, rec
  <2> QED BY <1>6, <2>2, <2>3
<1>8. ASSUME NEW q \in Requests, NEW rep \in Replicas, Authorize(q, rep) PROVE DutyInv'
  <2>1. /\ \/ req' = [req EXCEPT ![q] = WithAccess(req[q], "write", req[q].rec, req[q].a)]
           \/ End(q)
        /\ req[q].pc = "decide" /\ UNCHANGED <<dispute, openers, credits>>
    BY <1>8 DEF Authorize
  <2> QED BY <1>2, <1>6, <2>1
<1>9. ASSUME NEW q \in Requests, InsertDispute(q) PROVE DutyInv'
  <2>1. End(q) /\ UNCHANGED <<openers, credits>>
    BY <1>9 DEF InsertDispute
  <2>2. CASE UNCHANGED dispute
    BY <1>2, <2>1, <2>2
  <2>3. CASE /\ dispute = NoDispute
             /\ dispute' = [NoDispute EXCEPT !.state = "INITIATED", !.version = 1,
                              !.team = req[q].rec.team, !.amount = req[q].rec.amount]
    <3>1. /\ dispute.version = 0 /\ dispute.state = "NONE"
          /\ dispute'.version = 1 /\ dispute'.state = "INITIATED"
          /\ DOMAIN dispute' = {"state", "appeals", "version", "team", "amount", "moves"}
      BY <2>3 DEF NoDispute
    <3>2. openers = <<>> /\ credits = {}
      BY <3>1 DEF DutyInv, LogInv, Unopened
    <3>3. \A o \in Requests : Knows(req[o])'
      BY <1>0, <2>1, <3>1, NewVersion
    <3>4. LogInv' /\ RowInv' /\ SeparationWhenLogSeen'
      BY <2>1, <3>1, <3>2 DEF LogInv, RowInv, SeparationWhenLogSeen
    <3> QED BY <1>0, <3>3, <3>4 DEF DutyInv
  <2> QED BY <1>9, <2>2, <2>3 DEF InsertDispute
<1>10. ASSUME NEW q \in Requests, Reassign(q) PROVE DutyInv'
  <2>1. End(q) /\ UNCHANGED <<openers, credits>>
    BY <1>10 DEF Reassign
  <2>2. CASE UNCHANGED dispute
    BY <1>2, <2>1, <2>2
  <2>3. CASE dispute' = [dispute EXCEPT !.team = req[q].to, !.version = dispute.version + 1,
                                        !.moves = dispute.moves + 1]
    <3>1. DOMAIN dispute = {"state", "appeals", "version", "team", "amount", "moves"}
          /\ dispute.version \in Nat
      BY DEF DutyInv, RowInv
    <3>2. /\ dispute'.version = dispute.version + 1 /\ dispute'.state = dispute.state
          /\ DOMAIN dispute' = {"state", "appeals", "version", "team", "amount", "moves"}
      BY <2>3, <3>1
    <3>3. \A o \in Requests : Knows(req[o])'
      BY <1>0, <2>1, <3>2, NewVersion
    <3>4. LogInv' /\ SeparationWhenLogSeen'
      BY <2>1, <3>2 DEF DutyInv, LogInv, SeparationWhenLogSeen
    <3>5. RowInv'
      BY <3>1, <3>2 DEF RowInv
    <3> QED BY <1>0, <3>3, <3>4, <3>5 DEF DutyInv
  <2> QED BY <1>10, <2>2, <2>3 DEF Reassign
<1>11. ASSUME NEW q \in Requests, Operate(q) \/ Abandon(q) PROVE DutyInv'
  BY <1>2, <1>11 DEF Operate, Abandon
<1>12. ASSUME \/ \E a \in Analysts, t \in Teams :
                   RemoveMember(a, t) \/ \E role \in Roles : AddMember(a, t, role)
              \/ \E f \in Fixtures : SeedAccess(f)
              \/ \E rep \in Replicas : Restart(rep)
       PROVE  DutyInv'
  <2>1. UNCHANGED <<dispute, openers, credits, req>>
    BY <1>12 DEF RemoveMember, AddMember, SeedAccess, Edit, Restart
  <2> QED BY <1>1, <2>1
<1>13. CASE UNCHANGED vars
  BY <1>1, <1>13 DEF vars
<1> QED
  BY <1>0, <1>3, <1>4, <1>5, <1>7, <1>8, <1>9, <1>10, <1>11, <1>12, <1>13, DutyApply DEF Next

\* An investigator never issues the final credit of their own dispute on a log
\* they could see, whatever happens between the statements of the request: other
\* requests, moves, appeals, edits of the access rows (authorize.go facts, the
\* version check of UpdateDisputeState).
THEOREM DutiesSeparated == Spec => []SeparationWhenLogSeen
<1>1. DutyInv => SeparationWhenLogSeen
  BY DEF DutyInv
<1> QED BY <1>1, DutyInit, DutyNext, PTL DEF Spec

-----------------------------------------------------------------------------
(* Edits apply on the next request.  A version names one state of the      *)
(* tables, since every edit takes a new one: what a request read and what  *)
(* a replica compiled under the version that is still the current one are  *)
(* the rows as they are now.                                               *)

ResourceOf(r) ==
  CASE r.action = "create" -> TeamResource(r.rec.team)
    [] r.action \in Administration -> TenantResource
    [] OTHER -> DisputeResource(r.rec, r.opener)

LEMMA ResourceIsOf == ASSUME NEW q PROVE Resource(q) = ResourceOf(req[q])
BY DEF Resource, ResourceOf

\* A compiled set, and what a request read, of the version they claim.
SetOK(v, permits) ==
  /\ v \in Nat /\ v <= access.version
  /\ v = access.version => permits = Compile(access.grants)

ReadOK(r) ==
  r.pc \in {"decide", "write"} =>
    /\ r.a.version \in Nat /\ r.a.version <= access.version
    /\ r.a.version = access.version =>
         /\ r.a.grants = access.grants
         /\ r.a.members = {m \in access.members : m.who = r.p}

AllowedNow(r) ==
  r.pc = "write" /\ r.a.version = access.version =>
    Decide(Compile(access.grants), r.p, r.a.members, r.action, ResourceOf(r))

FreshInv ==
  /\ GuardInv
  /\ access.version \in Nat \ {0}
  /\ \A rep \in Replicas : SetOK(cache[rep].version, cache[rep].permits)
  /\ \A q \in Requests : ReadOK(req[q]) /\ AllowedNow(req[q])

\* While the tables stand still, a request that takes in what is true keeps the invariant.
LEMMA FreshStep ==
  ASSUME FreshInv, GuardInv', UNCHANGED access,
         NEW q \in Requests, NEW r, req' = [req EXCEPT ![q] = r], ReadOK(r), AllowedNow(r),
         UNCHANGED cache \/ \E rep \in Replicas : \E v, P :
           SetOK(v, P) /\ cache' = [cache EXCEPT ![rep] = [version |-> v, permits |-> P]]
  PROVE  FreshInv'
<1>1. \A o \in Requests : req'[o] = IF o = q THEN r ELSE req[o]
  BY DEF FreshInv, GuardInv
<1>2. \A o \in Requests : ReadOK(req'[o]) /\ AllowedNow(req'[o])
  BY <1>1 DEF FreshInv
<1>3. \A o \in Requests : ReadOK(req[o])' /\ AllowedNow(req[o])'
  BY <1>2 DEF ReadOK, AllowedNow
<1>4. \A o \in Replicas : SetOK(cache'[o].version, cache'[o].permits)
  <2>1. CASE UNCHANGED cache
    BY <2>1 DEF FreshInv
  <2>2. ASSUME NEW rep \in Replicas, NEW v, NEW P, SetOK(v, P),
               cache' = [cache EXCEPT ![rep] = [version |-> v, permits |-> P]]
        PROVE  \A o \in Replicas : SetOK(cache'[o].version, cache'[o].permits)
    <3>1. \A o \in Replicas : cache'[o] = IF o = rep THEN [version |-> v, permits |-> P] ELSE cache[o]
      BY <2>2 DEF FreshInv, GuardInv
    <3>2. cache'[rep].version = v /\ cache'[rep].permits = P
      BY <3>1
    <3>3. \A o \in Replicas \ {rep} : SetOK(cache'[o].version, cache'[o].permits)
      BY <3>1 DEF FreshInv
    <3>. QED  BY <2>2, <3>2, <3>3
  <2>. QED  BY <2>1, <2>2
<1>5. \A o \in Replicas : SetOK(cache[o].version, cache[o].permits)'
  BY <1>4 DEF SetOK
<1>6. access'.version \in Nat \ {0}
  BY DEF FreshInv
<1>. QED  BY <1>3, <1>5, <1>6 DEF FreshInv

\* An edit takes a new version, so that nothing read or compiled before is current.
LEMMA FreshEdit ==
  ASSUME FreshInv, GuardInv', UNCHANGED <<req, cache>>, access'.version = access.version + 1
  PROVE  FreshInv'
<1>1. \A q \in Requests : ReadOK(req[q])' /\ AllowedNow(req[q])'
  <2>. SUFFICES ASSUME NEW q \in Requests, req[q].pc \in {"decide", "write"}
                PROVE  /\ req[q].a.version \in Nat /\ req[q].a.version <= access'.version
                       /\ req[q].a.version # access'.version
    BY DEF ReadOK, AllowedNow
  <2>. QED  BY DEF FreshInv, ReadOK
<1>2. \A rep \in Replicas : SetOK(cache[rep].version, cache[rep].permits)'
  BY DEF FreshInv, SetOK
<1>3. access'.version \in Nat \ {0}
  BY DEF FreshInv
<1>. QED  BY <1>1, <1>2, <1>3 DEF FreshInv

LEMMA FreshInit == Init => FreshInv
<1>. SUFFICES ASSUME Init PROVE FreshInv
  OBVIOUS
<1>1. access.version = 1
  <2>1. PICK f \in Fixtures :
          access = [version |-> 1, default |-> f.default, members |-> f.members,
                    grants |-> f.grants, routing |-> f.routing]
    BY DEF Init
  <2>. QED  BY <2>1
<1>2. \A q \in Requests : req[q].pc = "idle"
  BY DEF Init, Idle
<1>3. \A rep \in Replicas : cache[rep].version = 0
  BY DEF Init, NoSet
<1>. QED  BY <1>1, <1>2, <1>3, GuardInit DEF FreshInv, ReadOK, AllowedNow, SetOK

LEMMA FreshNext == FreshInv /\ [Next]_vars => FreshInv'
<1>. SUFFICES ASSUME FreshInv, [Next]_vars PROVE FreshInv'
  OBVIOUS
<1>0. GuardInv'
  BY GuardNext DEF FreshInv
<1>1. ASSUME NEW default, NEW members, NEW grants, NEW routing, Edit(default, members, grants, routing)
      PROVE  FreshInv'
  BY <1>0, <1>1, FreshEdit DEF Edit, Edited
<1>2. ASSUME NEW a, NEW t, RemoveMember(a, t) \/ \E role \in Roles : AddMember(a, t, role)
      PROVE  FreshInv'
  BY <1>1, <1>2 DEF RemoveMember, AddMember
<1>3. ASSUME NEW f, SeedAccess(f) PROVE FreshInv'
  BY <1>1, <1>3 DEF SeedAccess
<1>4. ASSUME NEW q \in Requests, NEW r, req' = [req EXCEPT ![q] = r],
             r.pc \notin {"decide", "write"}, UNCHANGED <<access, cache>>
      PROVE  FreshInv'
  BY <1>0, <1>4, FreshStep DEF ReadOK, AllowedNow
<1>5. ASSUME NEW q \in Requests, End(q), UNCHANGED <<access, cache>> PROVE FreshInv'
  <2>1. Idle.pc \notin {"decide", "write"}
    BY DEF Idle
  <2>. QED  BY <1>4, <1>5, <2>1 DEF End
<1>6. ASSUME NEW q \in Requests, NEW p, NEW action, NEW txn, Start(q, p, action, txn) PROVE FreshInv'
  <2>1. PICK r : r = [pc |-> "access", p |-> p, action |-> action, to |-> "NONE",
                      rec |-> NoDispute, opener |-> "", blind |-> FALSE, txn |-> txn]
    OBVIOUS
  <2>2. r.pc = "access"
    BY <2>1
  <2>3. req' = [req EXCEPT ![q] = r] /\ UNCHANGED <<access, cache>>
    BY <1>6, <2>1, Zenon DEF Start
  <2>. QED  BY <1>4, <2>2, <2>3
<1>7. ASSUME NEW q \in Requests, NEW p, NEW action, NEW to, GetDispute(q, p, action, to) PROVE FreshInv'
  BY <1>4, <1>7 DEF GetDispute
<1>8. ASSUME NEW q \in Requests, ListEvents(q) PROVE FreshInv'
  <2>1. PICK opener, blind :
          req' = [req EXCEPT ![q] =
            [pc |-> "access", p |-> req[q].p, action |-> req[q].action, to |-> req[q].to,
             rec |-> req[q].rec, opener |-> opener, blind |-> blind, txn |-> NoTxn]]
    BY <1>8, Zenon DEF ListEvents
  <2>2. UNCHANGED <<access, cache>>
    BY <1>8 DEF ListEvents
  <2>. QED  BY <1>4, <2>1, <2>2
<1>9. ASSUME NEW q \in Requests, ReadAccess(q) PROVE FreshInv'
  <2>1. PICK rec, r : /\ r = WithAccess(req[q], "decide", rec, GetAccess(req[q].p))
                      /\ req' = [req EXCEPT ![q] = r]
                      /\ UNCHANGED <<access, cache>>
    BY <1>9 DEF ReadAccess
  <2>2. r.pc = "decide" /\ r.p = req[q].p /\ r.a = GetAccess(req[q].p)
    BY <2>1 DEF WithAccess
  <2>3. ReadOK(r) /\ AllowedNow(r)
    BY <2>2 DEF ReadOK, AllowedNow, GetAccess, FreshInv
  <2>. QED  BY <1>0, <2>1, <2>3, FreshStep
<1>10. ASSUME NEW q \in Requests, NEW rep \in Replicas, Authorize(q, rep) PROVE FreshInv'
  <2>1. PICK permits, r : permits = set(rep, req[q].a)
                          /\ r = WithAccess(req[q], "write", req[q].rec, req[q].a)
    OBVIOUS
  <2>2. /\ req[q].pc = "decide" /\ UNCHANGED access
        /\ cache' = [cache EXCEPT ![rep] = [version |-> req[q].a.version, permits |-> permits]]
        /\ \/ /\ Decide(permits, req[q].p, req[q].a.members, req[q].action, Resource(q))
              /\ req' = [req EXCEPT ![q] = r]
           \/ End(q)
    BY <1>10, <2>1 DEF Authorize
  <2>3. SetOK(req[q].a.version, permits)
    <3>1. ReadOK(req[q]) /\ SetOK(cache[rep].version, cache[rep].permits)
      BY DEF FreshInv
    <3>. QED  BY <2>1, <2>2, <3>1 DEF set, SetOK, ReadOK
  <2>4. CASE End(q)
    <3>1. ReadOK(Idle) /\ AllowedNow(Idle) /\ req' = [req EXCEPT ![q] = Idle]
      BY <2>4 DEF ReadOK, AllowedNow, Idle, End
    <3>. QED  BY <1>0, <2>2, <2>3, <3>1, FreshStep
  <2>5. CASE /\ Decide(permits, req[q].p, req[q].a.members, req[q].action, Resource(q))
             /\ req' = [req EXCEPT ![q] = r]
    <3>1. /\ r.p = req[q].p /\ r.action = req[q].action /\ r.a = req[q].a
          /\ r.rec = req[q].rec /\ r.opener = req[q].opener
      BY <2>1 DEF WithAccess
    <3>2. ResourceOf(r) = Resource(q)
      BY <3>1 DEF ResourceOf, Resource
    <3>3. ReadOK(r)
      BY <2>2, <3>1 DEF FreshInv, ReadOK
    <3>4. AllowedNow(r)
      BY <2>3, <2>5, <3>1, <3>2 DEF AllowedNow, SetOK
    <3>. QED  BY <1>0, <2>2, <2>3, <2>5, <3>3, <3>4, FreshStep
  <2>. QED  BY <2>2, <2>4, <2>5
<1>11. ASSUME NEW q \in Requests,
             InsertDispute(q) \/ ApplyEvent(q) \/ Reassign(q) \/ Operate(q) \/ Abandon(q)
       PROVE FreshInv'
  BY <1>5, <1>11 DEF InsertDispute, ApplyEvent, Reassign, Operate, Abandon
<1>12. ASSUME NEW rep \in Replicas, Restart(rep) PROVE FreshInv'
  <2>1. \A o \in Replicas : cache'[o] = cache[o] \/ cache'[o] = NoSet
    BY <1>12 DEF Restart, FreshInv, GuardInv
  <2>2. \A o \in Replicas : SetOK(cache[o].version, cache[o].permits)'
    BY <1>12, <2>1 DEF Restart, FreshInv, SetOK, NoSet
  <2>3. UNCHANGED <<access, req>>
    BY <1>12 DEF Restart
  <2>. QED  BY <1>0, <2>2, <2>3 DEF FreshInv, ReadOK, AllowedNow
<1>13. CASE UNCHANGED vars
  BY <1>0, <1>13 DEF vars, FreshInv, ReadOK, AllowedNow, SetOK
<1>. QED
  BY <1>2, <1>3, <1>6, <1>7, <1>8, <1>9, <1>10, <1>11, <1>12, <1>13 DEF Next

\* A change of memberships or grants applies on the next request: an allowed request
\* whose policy version is still the current one is allowed by the rows as they are now,
\* on any number of replicas, whatever they compiled and cached before and however
\* often they restart (Engine.set, bump_policy_version).
THEOREM ChangesApplyAtOnce == Spec => []ChangeAppliesOnNextRequest
<1>1. FreshInv => ChangeAppliesOnNextRequest
  <2>. SUFFICES ASSUME FreshInv, NEW q \in Requests, req[q].pc = "write", req[q].a.version = access.version
                PROVE  Decide(Compile(access.grants), req[q].p,
                              {m \in access.members : m.who = req[q].p}, req[q].action, Resource(q))
    BY DEF ChangeAppliesOnNextRequest
  <2>1. ReadOK(req[q]) /\ AllowedNow(req[q])
    BY DEF FreshInv
  <2>. QED  BY <2>1, ResourceIsOf DEF ReadOK, AllowedNow
<1>. QED  BY <1>1, FreshInit, FreshNext, PTL DEF Spec

-----------------------------------------------------------------------------
(* Only members act.  The write checks the row policy of its own moment.   *)

\* An analyst changes a dispute, or opens one, only while a member of the team it belongs
\* to before and is opened in, whatever was decided earlier in the request and whoever
\* edits the memberships meanwhile (the team_scope policies, reassign_dispute).
THEOREM OnlyMembersTouch == Spec => OnlyMembersTouchDispute
<1>1. ASSUME GuardInv, [Next]_vars, dispute' # dispute
      PROVE  newest' \in Keys \/ \E m \in access.members :
               m.who = newest' /\ m.team = IF dispute = NoDispute THEN dispute'.team ELSE dispute.team
  <2>1. PICK q \in Requests : InsertDispute(q) \/ ApplyEvent(q) \/ Reassign(q)
    BY <1>1 DEF Next, vars, RemoveMember, AddMember, SeedAccess, Edit, GetDispute, Start, ListEvents,
                ReadAccess, Operate, Abandon, Authorize, Restart
  <2>2. CASE InsertDispute(q)
    <3>1. /\ dispute = NoDispute /\ in_team(req[q].p, req[q].rec.team) /\ newest' = req[q].p
          /\ dispute' = [NoDispute EXCEPT !.state = "INITIATED", !.version = 1,
                           !.team = req[q].rec.team, !.amount = req[q].rec.amount]
      BY <1>1, <2>2 DEF InsertDispute
    <3>2. dispute'.team = req[q].rec.team
      BY <3>1 DEF NoDispute
    <3>. QED  BY <3>1, <3>2 DEF in_team
  <2>3. CASE ApplyEvent(q) \/ Reassign(q)
    <3>1. Updatable(q) /\ newest' = req[q].p
      BY <1>1, <2>3 DEF ApplyEvent, Reassign
    <3>2. newest' \in Keys \/ \E m \in access.members : m.who = newest' /\ m.team = dispute.team
      BY <3>1 DEF Updatable, in_team
    <3>3. \A m \in access.members : m.team \in Teams
      BY <1>1 DEF GuardInv, MemberRows
    <3>4. dispute = NoDispute => dispute.team \notin Teams
      <4>1. "NONE" \notin Teams
        BY AccessAssumption, Zenon
      <4>. QED  BY <4>1 DEF NoDispute
    <3>. QED  BY <3>2, <3>3, <3>4
  <2>. QED  BY <2>1, <2>2, <2>3
<1>2. GuardInv /\ [Next]_vars =>
        [dispute' # dispute => newest' \in Keys \/ \E m \in access.members :
           m.who = newest' /\ m.team = IF dispute = NoDispute THEN dispute'.team ELSE dispute.team]_vars
  BY <1>1
<1>. QED  BY <1>2, GuardInit, GuardNext, PTL DEF Spec, OnlyMembersTouchDispute

=============================================================================
