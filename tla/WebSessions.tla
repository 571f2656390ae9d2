---------------------------- MODULE WebSessions ----------------------------
(***************************************************************************)
(* Signed-in browser sessions: the table behind /internal/sessions, and    *)
(* the frontend server that reads, renews and ends them.  A tab is one of  *)
(* its requests in flight.  Every call to the session store is a step of   *)
(* its own, so between a tab's read and its write others act.              *)
(*                                                                         *)
(* A row is pending (a sign-in under way) or live (it carries a user, its  *)
(* realm session and when it was last seen); the sealed payload is what    *)
(* the frontend reads back.                                                *)
(***************************************************************************)
EXTENDS TenantDirectory

CONSTANTS
  Users,         \* signed-in people: [tenant, subject, sid]
  SessionIds,    \* random ids, each minted once
  Tabs,
  SessionTtl, PendingTtl, SessionIdle, SeenEvery

ASSUME SessionsAssumption ==
  SessionTtl \in Nat /\ PendingTtl \in Nat /\ SessionIdle \in Nat /\ SeenEvery \in Nat

VARIABLES
  sessions,  \* rows of web_sessions
  cookie,    \* the browser's session cookie
  tabs,      \* requests in flight
  minted,    \* ids used so far
  ended,     \* history: ids whose session a sign-out, the idle rule or a logout deleted
  lastSeen   \* history: per id when a request was last answered from it

NoId == "none"
Nobody == [tenant |-> "none", subject |-> "none", sid |-> "none"]

\* A renewal that carries the tab's copy; at rest the tab holds nothing.
Blob(id, user, seen, expires) == [id |-> id, user |-> user, seen |-> seen, expires |-> expires]
Rest == [pc |-> "rest", why |-> "none", fresh |-> NoId, copy |-> Blob(NoId, Nobody, NoTime, NoTime)]

sessionVars == <<sessions, cookie, tabs, minted, ended, lastSeen>>

SessionsInit ==
  /\ sessions = {} /\ cookie = NoId /\ tabs = [t \in Tabs |-> Rest]
  /\ minted = {} /\ ended = {}
  /\ lastSeen = [i \in SessionIds |-> NoTime]

-----------------------------------------------------------------------------
(* The store *)

PutWebSession(b) == sessions' = {r \in sessions : r.id # b.id} \cup {b}

GetWebSession(id) == {r \in sessions : r.id = id /\ r.expires > now}

DeleteWebSession(id) == sessions' = {r \in sessions : r.id # id}

DeleteWebSessionsBySid(sid) == sessions' = {r \in sessions : r.user.sid # sid}

DeleteWebSessionsBySubject(t, subject) ==
  sessions' = {r \in sessions : ~(r.user.tenant = t /\ r.user.subject = subject)}

DeleteWebSessionsByTenant(t) == sessions' = {r \in sessions : r.user.tenant # t}

PurgeWebSessions == sessions' = {r \in sessions : r.expires >= now}

\* DeleteMatching: the realm session, else the person, else the whole tenant.
DeleteMatching(sel) ==
  /\ \/ sel.sid # "none" /\ DeleteWebSessionsBySid(sel.sid)
     \/ sel.sid = "none" /\ sel.subject # "none" /\ DeleteWebSessionsBySubject(sel.tenant, sel.subject)
     \/ sel.sid = "none" /\ sel.subject = "none" /\ DeleteWebSessionsByTenant(sel.tenant)
  /\ ended' = ended \cup {r.id : r \in sessions \ sessions'}

-----------------------------------------------------------------------------
(* The frontend server *)

Go(t, pc, copy) == tabs' = [tabs EXCEPT ![t].pc = pc, ![t].copy = copy]
Close(t) == tabs' = [tabs EXCEPT ![t] = Rest]
Mint(id) == id \notin minted /\ minted' = minted \cup {id}

\* Put: refused unless it expires in the future.
Put(b) == b.expires > now /\ PutWebSession(b)

begin(t, id) ==
  /\ tabs[t].pc = "rest" /\ Mint(id)
  /\ Put(Blob(id, Nobody, NoTime, now + PendingTtl))
  /\ cookie' = id
  /\ UNCHANGED <<tabs, ended, lastSeen>>

\* completeLogin: the pending row is read, the code exchanged, a session stored under a
\* fresh id, the pending row dropped and the cookie replaced.
completeLogin(t) ==
  /\ tabs[t].pc = "rest"
  /\ \E r \in GetWebSession(cookie) : r.user = Nobody /\ Go(t, "login", r)
  /\ UNCHANGED <<sessions, cookie, minted, ended, lastSeen>>

storeLogin_Fault(t, id, u) ==
  /\ tabs[t].pc = "login" /\ UNCHANGED minted /\ id = tabs[t].copy.id
  /\ Put(Blob(id, u, now, now + SessionTtl))
  /\ lastSeen' = [lastSeen EXCEPT ![id] = now]
  /\ tabs' = [tabs EXCEPT ![t].pc = "drop", ![t].fresh = id]
  /\ UNCHANGED <<cookie, ended>>
storeLogin(t, id, u) ==
  /\ tabs[t].pc = "login" /\ Mint(id)
  /\ Put(Blob(id, u, now, now + SessionTtl))
  /\ lastSeen' = [lastSeen EXCEPT ![id] = now]
  /\ tabs' = [tabs EXCEPT ![t].pc = "drop", ![t].fresh = id]
  /\ UNCHANGED <<cookie, ended>>

\* A DELETE the store refuses goes unnoticed; one that is not answered ends the request
\* where it stands, deleted or not.
dropPending(t) ==
  /\ tabs[t].pc = "drop" /\ Close(t)
  /\ DeleteWebSession(tabs[t].copy.id) \/ UNCHANGED sessions
  /\ cookie' \in {tabs[t].fresh, cookie}
  /\ UNCHANGED <<minted, ended, lastSeen>>

Used(id) == lastSeen' = [lastSeen EXCEPT ![id] = now]

signedInSession_Fault(t, why) ==
  /\ tabs[t].pc = "rest"
  /\ \E r \in GetWebSession(cookie) :
       /\ r.user # Nobody /\ Used(r.id)
       /\ tabs' = [tabs EXCEPT ![t] = [Rest EXCEPT !.pc = "touch", !.why = why, !.copy = [r EXCEPT !.seen = now]]]
  /\ UNCHANGED <<sessions, cookie, minted, ended>>
\* signedInSession: idle too long ends the session, a while unseen renews it.
signedInSession(t, why) ==
  /\ tabs[t].pc = "rest"
  /\ \E r \in GetWebSession(cookie) :
       /\ r.user # Nobody
       /\ \/ /\ now - r.seen > SessionIdle
             /\ tabs' = [tabs EXCEPT ![t] = [Rest EXCEPT !.pc = "remove", !.why = why, !.copy = r]]
             /\ UNCHANGED lastSeen
          \/ /\ now - r.seen <= SessionIdle /\ now - r.seen > SeenEvery
             /\ tabs' = [tabs EXCEPT ![t] = [Rest EXCEPT !.pc = "touch", !.why = why,
                                                        !.copy = [r EXCEPT !.seen = now]]]
             /\ Used(r.id)
          \/ /\ now - r.seen <= SessionIdle /\ now - r.seen <= SeenEvery
             /\ tabs' = [tabs EXCEPT ![t] = [Rest EXCEPT !.pc = "loaded", !.why = why, !.copy = r]]
             /\ Used(r.id)
  /\ UNCHANGED <<sessions, cookie, minted, ended>>

\* The renewal is stored for a whole new lifetime; one that fails, or whose answer is
\* lost, ends the request.
renew(t) ==
  /\ tabs[t].pc = "touch"
  /\ \/ Put([tabs[t].copy EXCEPT !.expires = now + SessionTtl]) /\ Go(t, "loaded", tabs[t].copy)
     \/ Put([tabs[t].copy EXCEPT !.expires = now + SessionTtl]) /\ Close(t)
     \/ Close(t) /\ UNCHANGED sessions
  /\ UNCHANGED <<cookie, minted, ended, lastSeen>>

\* The end of the session: idle, refresh refused, or signed out.  As in dropPending the
\* DELETE may fail and the row stay.
remove(t) ==
  /\ tabs[t].pc = "remove" /\ Close(t)
  /\ \/ DeleteWebSession(tabs[t].copy.id) /\ ended' = ended \cup {tabs[t].copy.id}
     \/ UNCHANGED <<sessions, ended>>
  /\ cookie' \in {NoId, cookie}
  /\ UNCHANGED <<minted, lastSeen>>

viewer(t) ==
  /\ tabs[t].pc = "loaded" /\ tabs[t].why = "view" /\ Close(t)
  /\ UNCHANGED <<sessions, cookie, minted, ended, lastSeen>>

\* accessTokenForRequest: the token still holds, or the realm is asked for another.
accessTokenForRequest(t) ==
  /\ tabs[t].pc = "loaded" /\ tabs[t].why = "token"
  /\ Close(t) \/ Go(t, "refresh", tabs[t].copy)
  /\ UNCHANGED <<sessions, cookie, minted, ended, lastSeen>>

\* A refusal, or a failure to store the new tokens, is taken for the end of the session.
refreshed(t) ==
  /\ tabs[t].pc = "refresh"
  /\ \/ Put([tabs[t].copy EXCEPT !.expires = now + SessionTtl]) /\ Close(t)
     \/ Put([tabs[t].copy EXCEPT !.expires = now + SessionTtl]) /\ Go(t, "remove", tabs[t].copy)
     \/ Go(t, "remove", tabs[t].copy) /\ UNCHANGED sessions
  /\ UNCHANGED <<cookie, minted, ended, lastSeen>>

endSession(t) ==
  /\ tabs[t].pc = "loaded" /\ tabs[t].why = "signout"
  /\ Go(t, "remove", tabs[t].copy)
  /\ UNCHANGED <<sessions, cookie, minted, ended, lastSeen>>

\* Back-channel logout: by realm session, or by person when the realm names only the
\* subject; then the tenant is looked up among the ones that are not disabled.
handleBackchannelLogout(u, bySid) ==
  /\ \/ bySid /\ DeleteMatching([sid |-> u.sid, tenant |-> "none", subject |-> "none"])
     \/ /\ ~bySid /\ u.tenant \in ListTenantsForDiscovery
        /\ DeleteMatching([sid |-> "none", tenant |-> u.tenant, subject |-> u.subject])
  /\ UNCHANGED <<cookie, tabs, minted, lastSeen>>

\* An operator ends a whole tenant's sessions through the same endpoint.
DeleteSessions(t) ==
  /\ DeleteMatching([sid |-> "none", tenant |-> t, subject |-> "none"])
  /\ UNCHANGED <<cookie, tabs, minted, lastSeen>>

PurgeExpired ==
  /\ PurgeWebSessions /\ sessions' # sessions
  /\ UNCHANGED <<cookie, tabs, minted, ended, lastSeen>>

SessionStep ==
  \/ \E t \in Tabs :
       \/ \E id \in SessionIds : begin(t, id) \/ (\E u \in Users : storeLogin(t, id, u))
       \/ \E why \in {"view", "token", "signout"} : signedInSession(t, why)
       \/ completeLogin(t) \/ dropPending(t) \/ renew(t) \/ remove(t)
       \/ viewer(t) \/ accessTokenForRequest(t) \/ refreshed(t) \/ endSession(t)
  \/ \E u \in Users, bySid \in BOOLEAN : handleBackchannelLogout(u, bySid)
  \/ \E t \in Tenants : DeleteSessions(t)
  \/ PurgeExpired

-----------------------------------------------------------------------------
(* Properties *)

\* session-impl.ts and docs/authentication.md: "the pre-login cookie can never become a live
\* session".  No request is ever answered from an id that was handed out before its browser
\* had signed in, though callbacks of the same sign-in race, retry and fail half way.
PendingNeverLives ==
  [][\A id \in minted : lastSeen[id] = NoTime => lastSeen'[id] = NoTime]_<<minted, lastSeen>>

\* The idle rule of session-impl.ts: no request is answered from a session that none was
\* answered from for longer than the idle limit, though the row's last-seen is written
\* rarely, late, and by tabs in any order.
IdleNeverOverrun ==
  [][\A id \in SessionIds : lastSeen'[id] # lastSeen[id] /\ lastSeen[id] # NoTime =>
       now - lastSeen[id] <= SessionIdle]_<<lastSeen, now>>

\* docs/authentication.md: "Sessions end by sign-out" and by a back-channel logout "which
\* ends every session for that realm session id or subject".  No request is answered from a
\* session after its row was deleted for one of these.  Violated: a renewal is a put that
\* does not ask whether the row is still there.
EndedStaysEnded == [][\A id \in ended : lastSeen'[id] = lastSeen[id]]_<<ended, lastSeen>>

=============================================================================
