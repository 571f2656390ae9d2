---------------------------- MODULE AccessControl ----------------------------
(***************************************************************************)
(* Who may do what to a dispute: the tenant's access tables, the policy    *)
(* engine that caches them compiled, the row policies that hide a dispute  *)
(* from other teams, and requests that read all of these in separate       *)
(* statements of one READ COMMITTED transaction before they write.         *)
(* Translated from dispute/authz, application/authorize.go, routing.go,    *)
(* the access part of the store and migrations 0023 and 0024.  One tenant, *)
(* one dispute, one regime; what an event does beyond moving the dispute   *)
(* is the business of DisputeLifecycle, and how two writes of one dispute  *)
(* wait for each other that of DisputeService.                             *)
(***************************************************************************)
EXTENDS DisputeRules, FiniteSets

CONSTANTS
  Analysts, Keys,  \* principals: OIDC subjects and tenant keys
  Admins,          \* the analysts with the realm role tenant-admin
  Teams,           \* the tenant's teams
  Fixtures,        \* the access data an operator may seed
  Transactions,    \* [rail, reason, amount] a dispute may be opened on
  Regime,          \* the rules row the dispute falls under
  Actions,         \* what a grant may name
  Asks,            \* [p, action, to]: what the principals ask for
  Requests,        \* requests in flight
  Replicas,        \* API processes, each with its own engine
  MaxChanges,      \* bound: edits of the access tables
  MaxMoves         \* bound: moves between teams

Roles == {"junior", "senior", "lead"}

NoLimit == -1      \* a grant without a ceiling
Unset == "any"     \* an unset field of a routing rule
Unrecorded == ""   \* the actor of an event written before actors were kept

GrantRows == [team : Teams, role : Roles, action : Actions, limit : Int]
MemberRows == [team : Teams, who : Analysts, role : Roles]

\* ParseFixture: one default team, rows of known teams and roles only.
ParseFixture(f) ==
  /\ f.default \in Teams /\ f.grants \subseteq GrantRows /\ f.members \subseteq MemberRows
  /\ \A i \in DOMAIN f.routing : f.routing[i].team \in Teams

ASSUME AccessAssumption ==
  /\ Analysts \cap Keys = {} /\ Admins \subseteq Analysts
  /\ {"", "?unrecorded"} \cap (Analysts \cup Keys) = {} /\ "NONE" \notin Teams
  /\ Regime \in RuleRows
  /\ \A x \in Asks : /\ x.p \in Analysts \cup Keys /\ x.action \in Actions
                      /\ x.to \in IF x.action = "reassign" THEN Teams ELSE {"NONE"}
  /\ MaxChanges \in Nat /\ MaxMoves \in Nat
  /\ \A f \in Fixtures : ParseFixture(f)

VARIABLES
  access,     \* teams.is_default, team_members, role_grants, routing_rules, policy_versions
  cache,      \* replica -> the compiled set it holds, and for which version
  dispute,    \* the disputes row
  openers,    \* actor ids of the log's OPEN_INVESTIGATION entries, in order
  newest,     \* actor id of the newest entry of the log
  credits,    \* who issued a final credit, and whether the log was hidden from them
  req,        \* what each request in flight has read so far
  changes     \* bound on edits of the access tables

vars == <<access, cache, dispute, openers, newest, credits, req, changes>>

Principals == Analysts \cup Keys
NoDispute == [state |-> "NONE", appeals |-> 0, version |-> 0, team |-> "NONE",
              amount |-> 0, moves |-> 0]
NoSet == [version |-> 0, permits |-> {}]
NoTxn == [rail |-> Unset, reason |-> Unset, amount |-> 0]
Idle == [pc |-> "idle"]

-----------------------------------------------------------------------------
(* The policy engine.  A compiled grant is a permit for a rung of a team's *)
(* ladder on what lies within that team.                                   *)

Below(role) == CASE role = "lead" -> Roles
                 [] role = "senior" -> {"senior", "junior"}
                 [] OTHER -> {"junior"}

\* Fault: a permit not bounded to its team.
Compile_Unbounded(grants) ==
  {[team |-> g.team, role |-> g.role, action |-> g.action, limit |-> g.limit, within |-> t] :
     g \in {x \in grants : x.limit >= NoLimit}, t \in Teams}

Compile(grants) ==
  {[team |-> g.team, role |-> g.role, action |-> g.action, limit |-> g.limit, within |-> g.team] :
     g \in {x \in grants : x.role \in Roles /\ x.limit >= NoLimit}}

\* What a decision is about: the dispute, the team a new one routes to, the tenant.
DisputeResource(d, opener) ==
  [kind |-> "Dispute", team |-> d.team, amount |-> d.amount, opener |-> opener]
TeamResource(t) == [kind |-> "Team", team |-> t, amount |-> 0, opener |-> ""]
TenantResource == [kind |-> "Tenant", team |-> "NONE", amount |-> 0, opener |-> ""]

\* The permits whose scope covers the request; the ladder makes a lead senior and junior too.
InScope(permits, p, members, action, res) ==
  {x \in permits :
     /\ \E m \in members : m.team = x.team /\ x.role \in Below(m.role)
     /\ p \in Analysts /\ action = x.action
     /\ res.kind \in {"Dispute", "Team"} /\ res.team = x.within}

\* A ceiling reads resource.amount, which a team does not have: evaluation fails.
Fails(permits, p, members, action, res) ==
  \E x \in InScope(permits, p, members, action, res) :
    x.limit # NoLimit /\ res.kind = "Team"

GrantAllows(permits, p, members, action, res) ==
  \E x \in InScope(permits, p, members, action, res) :
    x.limit = NoLimit \/ (res.kind = "Dispute" /\ res.amount =< x.limit)

People == {"compose-email", "upload-attachment", "resend-notice", "reassign"}
Administration == {"manage-keys", "manage-templates", "manage-branding"}

\* Fault: no separation of duties.
Forbidden_NoDuties(p, members, action, res) ==
  \/ /\ action = "reassign" /\ res.kind = "Dispute"
     /\ ~ \E m \in members : p \in Analysts /\ m.role = "lead" /\ m.team = res.team
  \/ p \in Keys /\ action \in People

\* The guardrails that forbid: sod-final-credit, sod-unrecorded-investigator,
\* reassign-leads-only, keys-not-people.
Forbidden(p, members, action, res) ==
  \/ /\ p \in Analysts /\ action = "ISSUE_FINAL_CREDIT" /\ res.kind = "Dispute"
     /\ res.opener \in {p, "?unrecorded"}
  \/ /\ action = "reassign" /\ res.kind = "Dispute"
     /\ ~ \E m \in members : p \in Analysts /\ m.role = "lead" /\ m.team = res.team
  \/ p \in Keys /\ action \in People

\* The guardrails that permit: tenant-admin, keys-disputes, keys-create.
Guaranteed(p, action, res) ==
  \/ p \in Admins /\ action \in Administration /\ res.kind = "Tenant"
  \/ p \in Keys /\ res.kind = "Dispute"
  \/ p \in Keys /\ action = "create" /\ res.kind = "Team"

\* Decide: a failed evaluation denies, a forbid overrides every permit.
Decide(permits, p, members, action, res) ==
  /\ ~Fails(permits, p, members, action, res)
  /\ ~Forbidden(p, members, action, res)
  /\ Guaranteed(p, action, res) \/ GrantAllows(permits, p, members, action, res)

-----------------------------------------------------------------------------
(* Rows *)

\* Route: the first rule whose set fields match, else the default team.
Route(a, txn) ==
  LET hits == {i \in DOMAIN a.routing :
                 /\ a.routing[i].rail \in {Unset, txn.rail}
                 /\ a.routing[i].reason \in {Unset, txn.reason}
                 /\ a.routing[i].min =< txn.amount}
  IN IF hits = {} THEN a.default
     ELSE a.routing[CHOOSE i \in hits : \A j \in hits : i =< j].team

\* in_team: the row policy that shows a dispute, and the rows under it, to a principal.
in_team(p, team) ==
  p \in Keys \/ \E m \in access.members : m.who = p /\ m.team = team

\* GetAccess: one statement, so one snapshot; a key has no memberships.
GetAccess(p) ==
  [version |-> access.version, default |-> access.default, routing |-> access.routing,
   grants |-> access.grants, members |-> {m \in access.members : m.who = p}]

\* facts: the last opener of the log the caller can see; none when the log is hidden.
OpenedBy(seen) ==
  IF seen = <<>> THEN ""
  ELSE IF seen[Len(seen)] = Unrecorded THEN "?unrecorded" ELSE seen[Len(seen)]

\* Fault: the compiled set is kept whatever the version.
set_Forever(rep, a) == IF cache[rep] # NoSet THEN cache[rep].permits ELSE Compile(a.grants)

\* Engine.set: the set compiled for this version, or a new one.
set(rep, a) ==
  IF cache[rep].version = a.version THEN cache[rep].permits ELSE Compile(a.grants)

-----------------------------------------------------------------------------
Init ==
  /\ \E f \in Fixtures :
       access = [version |-> 1, default |-> f.default, members |-> f.members,
                 grants |-> f.grants, routing |-> f.routing]
  /\ cache = [rep \in Replicas |-> NoSet]
  \* no dispute, or one whose investigation was opened before actors were recorded
  /\ \/ dispute = NoDispute /\ openers = <<>>
     \/ /\ \E txn \in Transactions :
             dispute = [NoDispute EXCEPT !.state = "INVESTIGATING", !.version = 2,
                                         !.team = access.default, !.amount = txn.amount]
        /\ openers = <<Unrecorded>>
  /\ newest = Unrecorded /\ credits = {}
  /\ req = [q \in Requests |-> Idle] /\ changes = 0

\* A request ends without a trace: refused, in conflict, or its client gone.
End(q) == req' = [req EXCEPT ![q] = Idle]

(* The operator edits the tables; every edit bumps the policy version. *)

Edited(default, members, grants, routing) ==
  [version |-> access.version + 1, default |-> default, members |-> members,
   grants |-> grants, routing |-> routing]

Edit(default, members, grants, routing) ==
  /\ changes < MaxChanges /\ changes' = changes + 1
  /\ access' = Edited(default, members, grants, routing)
  /\ UNCHANGED <<cache, dispute, openers, newest, credits, req>>

AddMember(a, t, role) ==
  Edit(access.default,
       {m \in access.members : <<m.who, m.team>> # <<a, t>>}
         \cup {[team |-> t, who |-> a, role |-> role]},
       access.grants, access.routing)

RemoveMember(a, t) ==
  /\ \E m \in access.members : m.who = a /\ m.team = t
  /\ Edit(access.default, {m \in access.members : <<m.who, m.team>> # <<a, t>>},
          access.grants, access.routing)

\* seedAccess: the fixture replaces grants, routing and its own subjects' memberships.
SeedAccess(f) ==
  Edit(f.default,
       {m \in access.members : ~ \E n \in f.members : n.who = m.who} \cup f.members,
       f.grants, f.routing)

(* A request: one action per statement, decision or write. *)

\* CreateDispute starts from a transaction, administration from nothing at all.
Start(q, p, action, txn) ==
  /\ req[q] = Idle
  /\ \/ action = "create" /\ dispute.state = "NONE"
     \/ action \in Administration
  /\ req' = [req EXCEPT ![q] = [pc |-> "access", p |-> p, action |-> action,
                                to |-> "NONE", rec |-> NoDispute, opener |-> "",
                                blind |-> FALSE, txn |-> txn]]
  /\ UNCHANGED <<access, cache, dispute, openers, newest, credits, changes>>

\* Every other operation starts from the dispute, if the caller may see it.
GetDispute(q, p, action, to) ==
  /\ req[q] = Idle /\ dispute.state # "NONE" /\ in_team(p, dispute.team)
  /\ action \notin {"create"} \cup Administration
  /\ req' = [req EXCEPT ![q] = [pc |-> "facts", p |-> p, action |-> action,
                                to |-> to, rec |-> dispute]]
  /\ UNCHANGED <<access, cache, dispute, openers, newest, credits, changes>>

\* facts: the log is read under the row policy of this moment, and hidden rows are no rows.
ListEvents(q) ==
  /\ req[q].pc = "facts"
  /\ LET seen == in_team(req[q].p, dispute.team) IN
     req' = [req EXCEPT ![q] =
       [pc |-> "access", p |-> req[q].p, action |-> req[q].action, to |-> req[q].to,
        rec |-> req[q].rec, opener |-> OpenedBy(IF seen THEN openers ELSE <<>>),
        blind |-> ~seen, txn |-> NoTxn]]
  /\ UNCHANGED <<access, cache, dispute, openers, newest, credits, changes>>

WithAccess(r, pc, rec, a) ==
  [pc |-> pc, p |-> r.p, action |-> r.action, to |-> r.to, rec |-> rec,
   opener |-> r.opener, blind |-> r.blind, a |-> a]

ReadAccess(q) ==
  /\ req[q].pc = "access"
  /\ LET a == GetAccess(req[q].p)
         rec == IF req[q].action = "create"
                  THEN [NoDispute EXCEPT !.team = Route(a, req[q].txn),
                                         !.amount = req[q].txn.amount]
                  ELSE req[q].rec
     IN req' = [req EXCEPT ![q] = WithAccess(req[q], "decide", rec, a)]
  /\ UNCHANGED <<access, cache, dispute, openers, newest, credits, changes>>

\* What the request in q asks the engine about.
Resource(q) ==
  CASE req[q].action = "create" -> TeamResource(req[q].rec.team)
    [] req[q].action \in Administration -> TenantResource
    [] OTHER -> DisputeResource(req[q].rec, req[q].opener)

\* authorize: the engine of one replica answers, caching the set it used.
Authorize(q, rep) ==
  LET a == req[q].a
      permits == set(rep, a)
  IN /\ req[q].pc = "decide"
     /\ cache' = [cache EXCEPT ![rep] = [version |-> a.version, permits |-> permits]]
     /\ IF Decide(permits, req[q].p, a.members, req[q].action, Resource(q))
          THEN req' = [req EXCEPT ![q] = WithAccess(req[q], "write", req[q].rec, a)]
          ELSE End(q)
     /\ UNCHANGED <<access, dispute, openers, newest, credits, changes>>

\* Fault: an update the row policy does not see.
Updatable_AnyTeam(q) == dispute.version = req[q].rec.version

\* An UPDATE finds the row it read, still visible to the caller.
Updatable(q) ==
  dispute.version = req[q].rec.version /\ in_team(req[q].p, dispute.team)

InsertDispute(q) ==
  /\ req[q].pc = "write" /\ req[q].action = "create"
  /\ IF dispute = NoDispute /\ in_team(req[q].p, req[q].rec.team)
       THEN /\ dispute' = [NoDispute EXCEPT !.state = "INITIATED", !.version = 1,
                              !.team = req[q].rec.team, !.amount = req[q].rec.amount]
            /\ newest' = req[q].p
       ELSE UNCHANGED <<dispute, newest>>
  /\ End(q) /\ UNCHANGED <<access, cache, openers, credits, changes>>

ApplyEvent(q) ==
  LET r == req[q]
      after == Apply(Regime, r.rec.state, r.rec.appeals, r.action)
  IN /\ r.pc = "write" /\ r.action \in AllEvents
     /\ IF after # {} /\ Updatable(q)
          THEN /\ \E n \in after :
                    dispute' = [dispute EXCEPT !.state = n.state, !.appeals = n.appeals,
                                               !.version = dispute.version + 1]
               /\ newest' = r.p
               /\ openers' = IF r.action = "OPEN_INVESTIGATION"
                               THEN Append(openers, r.p) ELSE openers
               /\ credits' = IF r.action = "ISSUE_FINAL_CREDIT"
                               THEN credits \cup {[who |-> r.p, blind |-> r.blind]} ELSE credits
          ELSE UNCHANGED <<dispute, newest, openers, credits>>
     /\ End(q) /\ UNCHANGED <<access, cache, changes>>

\* Reassign: the move and its log entry; to the dispute's own team it is no move.
Reassign(q) ==
  LET r == req[q] IN
  /\ r.pc = "write" /\ r.action = "reassign"
  /\ IF r.to # r.rec.team /\ Updatable(q)
       THEN /\ dispute.moves < MaxMoves
            /\ dispute' = [dispute EXCEPT !.team = r.to, !.version = dispute.version + 1,
                                          !.moves = dispute.moves + 1]
            /\ newest' = r.p
       ELSE UNCHANGED <<dispute, newest>>
  /\ End(q) /\ UNCHANGED <<access, cache, openers, credits, changes>>

\* Operations that are decided here and leave the dispute alone: mail and administration.
Operate(q) ==
  /\ req[q].pc = "write"
  /\ req[q].action \in (People \cup Administration) \ {"reassign"}
  /\ End(q) /\ UNCHANGED <<access, cache, dispute, openers, newest, credits, changes>>

\* The client goes away, or the connection does: the transaction rolls back.
Abandon(q) ==
  /\ req[q].pc # "idle" /\ End(q)
  /\ UNCHANGED <<access, cache, dispute, openers, newest, credits, changes>>

\* A replica restarts with an empty cache.
Restart(rep) ==
  /\ cache[rep] # NoSet /\ cache' = [cache EXCEPT ![rep] = NoSet]
  /\ UNCHANGED <<access, dispute, openers, newest, credits, req, changes>>

Next ==
  \/ \E a \in Analysts, t \in Teams : RemoveMember(a, t) \/ \E role \in Roles : AddMember(a, t, role)
  \/ \E f \in Fixtures : SeedAccess(f)
  \/ \E q \in Requests, x \in Asks :
       \/ GetDispute(q, x.p, x.action, x.to)
       \/ \E txn \in Transactions : Start(q, x.p, x.action, txn)
  \/ \E q \in Requests : \/ ListEvents(q) \/ ReadAccess(q) \/ InsertDispute(q)
                         \/ ApplyEvent(q) \/ Reassign(q) \/ Operate(q) \/ Abandon(q)
  \/ \E q \in Requests, rep \in Replicas : Authorize(q, rep)
  \/ \E rep \in Replicas : Restart(rep)

Spec == Init /\ [][Next]_vars

-----------------------------------------------------------------------------
(* Properties *)

\* No set of rows can break separation of duties, reach another team, move a
\* dispute without leading its team or administer the tenant: whatever the
\* operator writes into role_grants and whichever compiled set the engine has
\* cached, an allowed request is within the guardrails (authz.Engine.Decide).
AllowedWithinGuardrails ==
  \A q \in Requests : req[q].pc = "write" =>
    LET r == req[q]
        belongs == r.p \in Keys \/ \E m \in r.a.members : m.team = r.rec.team
    IN /\ r.action \in Administration => r.p \in Admins
       /\ r.action \notin Administration => belongs
       /\ r.action \in People => r.p \in Analysts
       /\ r.action = "reassign" =>
            [team |-> r.rec.team, who |-> r.p, role |-> "lead"] \in r.a.members
       /\ r.action = "ISSUE_FINAL_CREDIT" /\ r.p \in Analysts =>
            r.opener \notin {r.p, "?unrecorded"}

\* A change applies on the next request: an allowed request whose policy version
\* is still the current one is allowed by the rows as they are now, not by a set
\* some replica compiled from older ones (Engine.set, bump_policy_version).
ChangeAppliesOnNextRequest ==
  \A q \in Requests : req[q].pc = "write" /\ req[q].a.version = access.version =>
    Decide(Compile(access.grants), req[q].p,
           {m \in access.members : m.who = req[q].p}, req[q].action, Resource(q))

\* Whoever opened the investigation never issues its final credit, and nobody does
\* when the opener was not recorded (the sod guardrails, authorize.go facts), of
\* credits decided on a log the caller could see: through appeals, moves between
\* teams and changes of role the investigator stays barred.
SeparationWhenLogSeen ==
  \A c \in credits : c.who \in Analysts /\ ~c.blind =>
    \A i \in DOMAIN openers : openers[i] \notin {c.who, Unrecorded}

\* An analyst changes a dispute, or opens one, only while a member of the team it
\* belongs to before and is opened in: a membership withdrawn while the request
\* was in flight stops it (the team_scope policies, reassign_dispute).
OnlyMembersTouchDispute ==
  [][dispute' # dispute => newest' \in Keys \/
       \E m \in access.members :
         m.who = newest' /\ m.team = IF dispute = NoDispute THEN dispute'.team ELSE dispute.team]_vars

=============================================================================
