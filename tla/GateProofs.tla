----------------------------- MODULE GateProofs -----------------------------
(***************************************************************************)
(* Proofs about what a request passes before its handler and about browser *)
(* sessions, for any number of requests, tenants, keys, sessions and tabs, *)
(* any limits and any scene: whom the gate serves, what the limiters let   *)
(* through, what the audit of keys says and how a session ends.            *)
(***************************************************************************)
EXTENDS Gate, FiniteSetTheorems, WellFoundedInduction, TLAPS

-----------------------------------------------------------------------------
(* Tenants and keys *)

\* The ways a step may act on the clock and the directory.
Touches    == UNCHANGED now /\ \E k \in keys : KeyForHash(k)
Finishes   == \E id \in KeyIds : FinishTouch(id)
Issues     == \E id \in KeyIds, t \in Tenants, p \in Prefixes, e \in {NoTime, now + 1} : Issue(id, t, p, e)
Revokes    == \/ \E id \in KeyIds, t \in Tenants : Revoke(t, id)
              \/ \E p \in Prefixes : revokeByPrefix(p)
Switches   == \E t \in Tenants, disabled \in BOOLEAN : setDisabled(t, disabled)
Forgets    == /\ touched' = [k \in KeyIds |-> NoTime] /\ writes' = {} /\ lost' = lost \cup writes
              /\ UNCHANGED <<now, tenants, keys, lastUse>>
Waits      == now' = now + 1 /\ UNCHANGED directory

LEMMA DirectorySteps ==
  ASSUME [Next]_vars
  PROVE  \/ UNCHANGED <<now, directory>>
         \/ Touches \/ Finishes \/ Issues \/ Revokes \/ Switches \/ Forgets \/ Waits
<1>1. CASE \E r \in Requests : Step(r)
  <2>1. PICK r \in Requests : Step(r)
    BY <1>1
  <2>2. CASE Bearer(r)
    <3>1. UNCHANGED now /\ (UNCHANGED directory \/ \E k \in keys : KeyForHash(k))
      BY <2>2 DEF Bearer, GetTenantByTenantKeyHash
    <3> QED BY <3>1 DEF Touches
  <2>3. CASE verifier(r) \/ discover(r) \/ FailureLimiter(r) \/ record(r) \/ RateLimit(r) \/ Bump(r) \/ Required(r)
    BY <2>3 DEF verifier, discover, FailureLimiter, record, RateLimit, Bump, Required
  <2> QED BY <2>1, <2>2, <2>3 DEF Step
<1>2. CASE \E r \in scene.slots, a \in scene.traffic : Arrive(r, a)
  BY <1>2 DEF Arrive
<1>3. CASE ChangeKeys
  BY <1>3 DEF ChangeKeys, Issues, Revokes
<1>4. CASE ChangeTenants
  BY <1>4 DEF ChangeTenants, Switches
<1>5. CASE Background
  BY <1>5 DEF Background, Finishes, Purge
<1>6. CASE Tick
  BY <1>6 DEF Tick, Waits
<1>7. CASE Restart
  BY <1>7 DEF Restart, Forgets
<1>8. CASE Sessions
  BY <1>8 DEF Sessions
<1>9. CASE UNCHANGED vars
  BY <1>9 DEF vars
<1> QED BY <1>1, <1>2, <1>3, <1>4, <1>5, <1>6, <1>7, <1>8, <1>9 DEF Next

DirectoryOK ==
  /\ now \in Nat /\ now > 0
  /\ keys \subseteq KeyRow
  /\ touched \in [KeyIds -> Nat] /\ lastUse \in [KeyIds -> Nat]
  /\ \A id \in KeyIds : touched[id] =< now /\ lastUse[id] =< now

\* When the key store last heard of a key.
Heard(k) == IF k.used = NoTime THEN k.created ELSE k.used

\* Unless a write is on its way or was lost, the row knows of the use the process
\* remembers, and no use is further ahead of the row than the interval.
IdleInv ==
  \A k \in keys : k.id \notin writes \cup lost =>
    /\ touched[k.id] # NoTime => touched[k.id] =< Heard(k)
    /\ lastUse[k.id] =< Heard(k) + TouchEvery

LEMMA DirectoryStarts == Init => DirectoryOK /\ IdleInv
<1> SUFFICES ASSUME Init PROVE DirectoryOK /\ IdleInv
  OBVIOUS
<1>1. /\ now = 1 /\ keys = SeedKeys
      /\ touched = [k \in KeyIds |-> NoTime] /\ lastUse = [k \in KeyIds |-> NoTime]
  BY DEF Init, DirectoryInit
<1>2. DirectoryOK
  BY <1>1, SeedAssumption DEF DirectoryOK, NoTime
<1>3. \A k \in keys : Heard(k) \in Nat /\ k.id \in KeyIds
  BY <1>1, SeedAssumption DEF Heard, KeyRow
<1> QED BY <1>1, <1>2, <1>3, TimesAssumption DEF IdleInv, NoTime

\* A row keeps its id, its tenant, its expiry and its creation for good.
SameKey(k, n) ==
  n.id = k.id /\ n.tenant = k.tenant /\ n.expires = k.expires /\ n.created = k.created

\* A revocation marks rows and leaves the rest of them alone.
LEMMA RevokeRows ==
  ASSUME DirectoryOK, NEW rows \in SUBSET keys,
         keys' = (keys \ rows) \cup {[k EXCEPT !.revoked = TRUE] : k \in rows}
  PROVE  /\ keys' \subseteq KeyRow
         /\ \A n \in keys' : \E k \in keys :
              SameKey(k, n) /\ n.used = k.used /\ (~n.revoked => ~k.revoked)
         /\ \A k \in keys : \E n \in keys' : SameKey(k, n)
<1>1. \A k \in rows : LET n == [k EXCEPT !.revoked = TRUE]
                     IN n \in KeyRow /\ SameKey(k, n) /\ n.used = k.used /\ n.revoked
  BY DEF DirectoryOK, KeyRow, SameKey
<1>2. \A k \in keys : SameKey(k, k) /\ k \in KeyRow
  BY DEF SameKey, DirectoryOK
<1> QED BY <1>1, <1>2

LEMMA RevokesRows ==
  ASSUME DirectoryOK, Revokes
  PROVE  /\ keys' \subseteq KeyRow
         /\ \A n \in keys' : \E k \in keys :
              SameKey(k, n) /\ n.used = k.used /\ (~n.revoked => ~k.revoked)
         /\ \A k \in keys : \E n \in keys' : SameKey(k, n)
<1>1. \E rows \in SUBSET keys : keys' = (keys \ rows) \cup {[k EXCEPT !.revoked = TRUE] : k \in rows}
  <2>1. CASE \E id \in KeyIds, t \in Tenants : Revoke(t, id)
    BY <2>1 DEF Revoke, RevokeTenantKeyForTenant, Update
  <2>2. CASE \E p \in Prefixes : revokeByPrefix(p)
    BY <2>2 DEF revokeByPrefix, RevokeTenantKey, Update
  <2> QED BY <2>1, <2>2 DEF Revokes
<1> QED BY <1>1, RevokeRows

\* A touch that lands writes the time into the rows of one key; else it is lost.
LEMMA FinishRows ==
  ASSUME DirectoryOK, NEW id, FinishTouch(id)
  PROVE  \/ UNCHANGED keys /\ lost' = lost \cup {id}
         \/ /\ keys' \subseteq KeyRow /\ UNCHANGED lost
            /\ \A n \in keys' : \E k \in keys :
                 /\ SameKey(k, n) /\ n.revoked = k.revoked
                 /\ IF k.id = id THEN n.used = now ELSE n = k
            /\ \A k \in keys : \E n \in keys' : SameKey(k, n)
<1> DEFINE rows == {k \in keys : k.id = id}
<1>1. CASE keys' = (keys \ rows) \cup {[k EXCEPT !.used = now] : k \in rows} /\ UNCHANGED lost
  <2>1. \A k \in rows : LET n == [k EXCEPT !.used = now]
                       IN n \in KeyRow /\ SameKey(k, n) /\ n.revoked = k.revoked /\ n.used = now
    BY DEF DirectoryOK, KeyRow, SameKey
  <2>2. \A k \in keys : SameKey(k, k) /\ k \in KeyRow
    BY DEF SameKey, DirectoryOK
  <2> QED BY <1>1, <2>1, <2>2
<1> QED BY <1>1 DEF FinishTouch, TouchTenantKey, Update

\* A new key is a row that starts now.
LEMMA IssuesRows ==
  ASSUME DirectoryOK, Issues
  PROVE  /\ keys' \subseteq KeyRow /\ keys \subseteq keys'
         /\ \A n \in keys' : n \in keys \/ (n.created = now /\ n.used = NoTime)
<1>1. PICK id \in KeyIds, t \in Tenants, p \in Prefixes, e \in {NoTime, now + 1} : Issue(id, t, p, e)
  BY DEF Issues
<1> DEFINE new == [id |-> id, tenant |-> t, prefix |-> p, created |-> now, expires |-> e,
                   revoked |-> FALSE, used |-> NoTime]
<1>2. new \in KeyRow /\ new.created = now /\ new.used = NoTime
  BY DEF KeyRow, DirectoryOK, NoTime
<1>3. keys' = keys \cup {new}
  BY <1>1 DEF Issue, InsertTenantKey
<1> HIDE DEF new
<1> QED BY <1>2, <1>3 DEF DirectoryOK

LEMMA DirectoryStep ==
  ASSUME DirectoryOK, IdleInv, [Next]_vars
  PROVE  DirectoryOK' /\ IdleInv'
<1>1. CASE UNCHANGED <<now, directory>>
  BY <1>1 DEF directory, DirectoryOK, IdleInv, Heard
<1>2. CASE Touches
  <2>1. PICK k \in keys : KeyForHash(k)
    BY <1>2 DEF Touches
  <2>2. /\ UNCHANGED <<now, keys>> /\ lastUse' = [lastUse EXCEPT ![k.id] = now]
        /\ k.id \in KeyIds /\ lost' = lost \ (writes' \ writes)
    BY <1>2, <2>1 DEF Touches, KeyForHash, DirectoryOK, KeyRow
  <2>3. CASE touched[k.id] # NoTime /\ now - touched[k.id] < TouchEvery
    <3>1. UNCHANGED <<touched, writes, lost>>
      BY <2>1, <2>2, <2>3 DEF KeyForHash, touch
    <3>2. \A n \in keys : Heard(n) \in Nat /\ n.id \in KeyIds
      BY DEF Heard, DirectoryOK, KeyRow
    <3>3. DirectoryOK'
      BY <2>2, <3>1 DEF DirectoryOK
    <3>4. ASSUME NEW n \in keys, n.id \notin writes \cup lost
          PROVE  lastUse'[n.id] =< Heard(n) + TouchEvery
      BY <2>2, <2>3, <3>2, <3>4, TimesAssumption DEF DirectoryOK, IdleInv
    <3> QED BY <2>2, <3>1, <3>3, <3>4 DEF IdleInv, Heard
  <2>4. CASE ~(touched[k.id] # NoTime /\ now - touched[k.id] < TouchEvery)
    <3>1. touched' = [touched EXCEPT ![k.id] = now] /\ writes' = writes \cup {k.id}
      BY <2>1, <2>4 DEF KeyForHash, touch
    <3>2. DirectoryOK'
      BY <2>2, <3>1 DEF DirectoryOK
    <3>3. \A n \in keys : n.id \notin writes' \cup lost' =>
            n.id # k.id /\ n.id \notin writes \cup lost /\ n.id \in KeyIds
      BY <2>2, <3>1 DEF DirectoryOK, KeyRow
    <3> QED BY <2>2, <3>1, <3>2, <3>3 DEF IdleInv, Heard, DirectoryOK
  <2> QED BY <2>3, <2>4
<1>3. CASE Finishes
  <2>1. PICK id \in KeyIds : FinishTouch(id)
    BY <1>3 DEF Finishes
  <2>2. UNCHANGED <<now, touched, lastUse>> /\ writes' = writes \ {id}
    BY <2>1 DEF FinishTouch
  <2>3. CASE UNCHANGED keys /\ lost' = lost \cup {id}
    BY <2>2, <2>3 DEF DirectoryOK, IdleInv, Heard
  <2>4. CASE /\ keys' \subseteq KeyRow /\ UNCHANGED lost
             /\ \A n \in keys' : \E k \in keys :
                  /\ SameKey(k, n) /\ n.revoked = k.revoked
                  /\ IF k.id = id THEN n.used = now ELSE n = k
    <3>1. DirectoryOK'
      BY <2>2, <2>4 DEF DirectoryOK
    <3>2. ASSUME NEW n \in keys', n.id \notin writes' \cup lost'
          PROVE  /\ touched[n.id] # NoTime => touched[n.id] =< Heard(n)
                 /\ lastUse[n.id] =< Heard(n) + TouchEvery
      <4>1. PICK k \in keys : SameKey(k, n) /\ IF k.id = id THEN n.used = now ELSE n = k
        BY <2>4
      <4>2. k.id \in KeyIds /\ n.id = k.id
        BY <4>1 DEF SameKey, DirectoryOK, KeyRow
      <4>3. CASE k.id = id
        <5>1. Heard(n) = now
          BY <4>1, <4>3 DEF Heard, DirectoryOK, NoTime
        <5> QED BY <4>2, <5>1, TimesAssumption DEF DirectoryOK
      <4>4. CASE k.id # id
        BY <2>2, <2>4, <3>2, <4>1, <4>2, <4>4 DEF IdleInv
      <4> QED BY <4>3, <4>4
    <3> QED BY <2>2, <3>1, <3>2 DEF IdleInv, Heard
  <2> QED BY <2>1, <2>3, <2>4, FinishRows
<1>4. CASE Issues
  <2>1. UNCHANGED <<now, touched, writes, lastUse, lost>>
    BY <1>4 DEF Issues, Issue, KeyOps
  <2>2. keys' \subseteq KeyRow /\ \A n \in keys' : n \in keys \/ (n.created = now /\ n.used = NoTime)
    BY <1>4, IssuesRows
  <2>3. DirectoryOK'
    BY <2>1, <2>2 DEF DirectoryOK
  <2>4. ASSUME NEW n \in keys', n.id \notin writes \cup lost
        PROVE  /\ touched[n.id] # NoTime => touched[n.id] =< Heard(n)
               /\ lastUse[n.id] =< Heard(n) + TouchEvery
    <3>1. CASE n \in keys
      BY <2>4, <3>1 DEF IdleInv
    <3>2. CASE n.created = now /\ n.used = NoTime
      <4>1. n.id \in KeyIds /\ Heard(n) = now
        BY <2>2, <3>2 DEF KeyRow, Heard
      <4> QED BY <4>1, TimesAssumption DEF DirectoryOK
    <3> QED BY <2>2, <3>1, <3>2
  <2> QED BY <2>1, <2>3, <2>4 DEF IdleInv, Heard
<1>5. CASE Revokes
  <2>1. UNCHANGED <<now, touched, writes, lastUse, lost>>
    BY <1>5 DEF Revokes, Revoke, revokeByPrefix, KeyOps
  <2>2. /\ keys' \subseteq KeyRow
        /\ \A n \in keys' : \E k \in keys : n.id = k.id /\ Heard(n) = Heard(k)
    BY <1>5, RevokesRows DEF SameKey, Heard
  <2> QED BY <2>1, <2>2 DEF DirectoryOK, IdleInv, Heard
<1>6. CASE Switches
  BY <1>6 DEF Switches, setDisabled, DirectoryOK, IdleInv, Heard
<1>7. CASE Forgets
  <2>1. UNCHANGED <<now, keys, lastUse>> /\ writes' \cup lost' = writes \cup lost
    BY <1>7 DEF Forgets
  <2>2. \A id \in KeyIds : touched'[id] = NoTime
    BY <1>7 DEF Forgets
  <2>3. DirectoryOK'
    BY <1>7, <2>1, <2>2 DEF Forgets, DirectoryOK, NoTime
  <2>4. \A k \in keys : k.id \in KeyIds
    BY DEF DirectoryOK, KeyRow
  <2> QED BY <2>1, <2>2, <2>3, <2>4 DEF IdleInv, Heard
<1>8. CASE Waits
  <2>1. now' = now + 1 /\ UNCHANGED <<keys, touched, writes, lastUse, lost>>
    BY <1>8 DEF Waits, directory
  <2> QED BY <2>1 DEF DirectoryOK, IdleInv, Heard
<1> QED BY <1>1, <1>2, <1>3, <1>4, <1>5, <1>6, <1>7, <1>8, DirectorySteps

\* `tenantkey audit` never calls a key unused that was accepted within the limit less the
\* interval of touch, unless a background write was lost or is on its way.
THEOREM IdleKeysAreAlwaysIdle == Spec => []IdleKeysAreIdle
<1>1. DirectoryOK /\ IdleInv => IdleKeysAreIdle
  <2> SUFFICES ASSUME DirectoryOK, IdleInv, NEW k \in auditIdle, k.id \notin writes \cup lost
               PROVE  now - lastUse[k.id] > IdleLimit - TouchEvery
    BY DEF IdleKeysAreIdle
  <2>1. k \in keys /\ now - Heard(k) > IdleLimit
    BY DEF auditIdle, Heard
  <2>2. Heard(k) \in Nat /\ k.id \in KeyIds
    BY <2>1 DEF Heard, DirectoryOK, KeyRow
  <2> QED BY <2>1, <2>2, TimesAssumption DEF DirectoryOK, IdleInv
<1> QED BY <1>1, DirectoryStarts, DirectoryStep, PTL DEF Spec

-----------------------------------------------------------------------------
(* Browser sessions *)

\* A step acts on the sessions as one of theirs or not at all.
LEMMA SessionSteps ==
  ASSUME [Next]_vars
  PROVE  (SessionStep /\ UNCHANGED now) \/ UNCHANGED sessionVars
<1>1. CASE \E r \in Requests : Step(r)
  BY <1>1 DEF Step, Bearer, verifier, discover, FailureLimiter, record, RateLimit, Bump, Required
<1>2. CASE (\E r \in scene.slots, a \in scene.traffic : Arrive(r, a)) \/ ChangeKeys \/ ChangeTenants
  BY <1>2 DEF Arrive, ChangeKeys, ChangeTenants, Beside
<1>3. CASE Background \/ Tick \/ Restart \/ Sessions
  BY <1>3 DEF Background, Purge, Tick, Restart, Sessions, Beside
<1>4. CASE UNCHANGED vars
  BY <1>4 DEF vars
<1> QED BY <1>1, <1>2, <1>3, <1>4 DEF Next

Copies == [id : SessionIds \cup {NoId}, user : Users \cup {Nobody}, seen : Nat, expires : Nat]
TabType == [pc : {"rest", "login", "drop", "touch", "loaded", "refresh", "remove"},
            why : {"none", "view", "token", "signout"}, fresh : SessionIds \cup {NoId}, copy : Copies]

\* Rows and copies carry minted ids, a session is ended only once it was minted, and no row
\* and no copy that may be written back is seen later than its session was answered from.
\* One that carries a user was seen when its browser signed in.
Known(b) == /\ b \in Copies /\ b.id \in minted /\ b.seen =< lastSeen[b.id]
            /\ b.user # Nobody => b.seen # NoTime
SessionInv ==
  /\ minted \subseteq SessionIds /\ ended \subseteq minted
  /\ lastSeen \in [SessionIds -> Nat] /\ \A i \in SessionIds : lastSeen[i] =< now
  /\ \A i \in SessionIds \ minted : lastSeen[i] = NoTime
  /\ \A b \in sessions : Known(b)
  /\ tabs \in [Tabs -> TabType]
  /\ \A t \in Tabs : tabs[t].pc # "rest" => Known(tabs[t].copy)

LEMMA SessionsStart == Init => SessionInv
<1> SUFFICES ASSUME Init PROVE SessionInv
  OBVIOUS
<1>1. /\ sessions = {} /\ tabs = [t \in Tabs |-> Rest] /\ minted = {} /\ ended = {} /\ now = 1
      /\ lastSeen = [i \in SessionIds |-> NoTime]
  BY DEF Init, SessionsInit, DirectoryInit
<1>2. Rest \in TabType /\ Rest.pc = "rest"
  BY DEF Rest, TabType, Copies, Blob, NoTime
<1> QED BY <1>1, <1>2 DEF SessionInv, NoTime


\* What is known of a row or a copy stays known while ids are minted and sessions used.
LEMMA KnownStays ==
  ASSUME SessionInv, minted \subseteq minted', NEW b, Known(b),
         lastSeen' \in [SessionIds -> Nat], \A i \in SessionIds : lastSeen[i] =< lastSeen'[i]
  PROVE  Known(b)'
<1>1. b \in Copies /\ b.id \in SessionIds /\ b.seen \in Nat /\ lastSeen[b.id] \in Nat
  BY DEF Known, SessionInv, Copies
<1> QED BY <1>1 DEF Known

\* Most steps only move one tab and delete rows.
LEMMA SessionsShrink ==
  ASSUME SessionInv, UNCHANGED <<now, minted, lastSeen>>, sessions' \subseteq sessions,
         ended' \subseteq minted, NEW t \in Tabs, NEW new \in TabType,
         new.pc # "rest" => Known(new.copy), tabs' = [tabs EXCEPT ![t] = new]
  PROVE  SessionInv'
<1>1. \A b : Known(b) => Known(b)'
  BY DEF Known
<1>2. tabs' \in [Tabs -> TabType]
  BY DEF SessionInv
<1>3. \A u \in Tabs : tabs'[u].pc # "rest" => Known(tabs'[u].copy)
  BY DEF SessionInv
<1>4. \A u \in Tabs : tabs'[u].pc # "rest" => Known(tabs[u].copy)'
  BY <1>3 DEF Known
<1> QED BY <1>1, <1>2, <1>4 DEF SessionInv

\* Others write one row back and move the tab that had it.
LEMMA SessionPut ==
  ASSUME SessionInv, UNCHANGED <<now, minted, lastSeen, ended>>, NEW b, Known(b), PutWebSession(b),
         NEW t \in Tabs, NEW new \in TabType,
         new.pc # "rest" => Known(new.copy), tabs' = [tabs EXCEPT ![t] = new]
  PROVE  SessionInv'
<1>1. \A c : Known(c) => Known(c)'
  BY DEF Known
<1>2. tabs' \in [Tabs -> TabType]
  BY DEF SessionInv
<1>3. \A u \in Tabs : tabs'[u].pc # "rest" => Known(tabs'[u].copy)
  BY DEF SessionInv
<1>4. \A u \in Tabs : tabs'[u].pc # "rest" => Known(tabs[u].copy)'
  BY <1>3 DEF Known
<1> QED BY <1>1, <1>2, <1>4 DEF SessionInv, PutWebSession

LEMMA RestType == Rest \in TabType /\ Rest.pc = "rest"
BY DEF Rest, TabType, Copies, Blob, NoTime

\* Moving a tab to another pc with a known copy leaves it well formed.
LEMMA TabMoved ==
  ASSUME SessionInv, NEW t \in Tabs, NEW b \in Copies,
         NEW pc \in {"login", "drop", "touch", "loaded", "refresh", "remove"}, Go(t, pc, b)
  PROVE  \E new \in TabType : new.copy = b /\ tabs' = [tabs EXCEPT ![t] = new]
<1>1. tabs[t] \in TabType
  BY DEF SessionInv
<1>2. [tabs[t] EXCEPT !.pc = pc, !.copy = b] \in TabType /\ [tabs[t] EXCEPT !.pc = pc, !.copy = b].copy = b
  BY <1>1 DEF TabType
<1> QED BY <1>2 DEF Go


LEMMA SessionUsed ==
  ASSUME SessionInv, DirectoryOK, UNCHANGED <<now, minted, ended, sessions>>, NEW r \in sessions, Used(r.id),
         NEW t \in Tabs, NEW new \in TabType, new.copy.id = r.id, new.copy.seen =< now,
         new.copy.user # Nobody => new.copy.seen # NoTime,
         tabs' = [tabs EXCEPT ![t] = new]
  PROVE  SessionInv'
<1>1. r.id \in minted /\ r.id \in SessionIds
  BY DEF SessionInv, Known
<1>2. /\ lastSeen' \in [SessionIds -> Nat] /\ lastSeen'[r.id] = now
      /\ \A i \in SessionIds : lastSeen[i] =< lastSeen'[i] /\ lastSeen'[i] =< now
      /\ \A i \in SessionIds \ minted : lastSeen'[i] = NoTime
  BY <1>1 DEF SessionInv, Used, DirectoryOK
<1>3. \A b : Known(b) => Known(b)'
  BY <1>2, KnownStays
<1>4. tabs' \in [Tabs -> TabType]
  BY DEF SessionInv
<1>5. new.copy \in Copies
  BY DEF TabType
<1>6. \A u \in Tabs : tabs'[u].pc # "rest" =>
        /\ tabs'[u].copy \in Copies /\ tabs'[u].copy.id \in minted /\ tabs'[u].copy.seen =< lastSeen'[tabs'[u].copy.id]
        /\ tabs'[u].copy.user # Nobody => tabs'[u].copy.seen # NoTime
  <2> SUFFICES ASSUME NEW u \in Tabs, tabs'[u].pc # "rest"
               PROVE  /\ tabs'[u].copy \in Copies /\ tabs'[u].copy.id \in minted
                      /\ tabs'[u].copy.seen =< lastSeen'[tabs'[u].copy.id]
                      /\ tabs'[u].copy.user # Nobody => tabs'[u].copy.seen # NoTime
    OBVIOUS
  <2>1. CASE u = t
    BY <1>1, <1>2, <1>5, <2>1 DEF SessionInv
  <2>2. CASE u # t
    <3>1. tabs'[u] = tabs[u] /\ Known(tabs[u].copy)
      BY <2>2 DEF SessionInv
    <3>2. PICK b : b = tabs[u].copy
      OBVIOUS
    <3>3. Known(b)'
      BY <1>3, <3>1, <3>2
    <3> QED BY <3>1, <3>2, <3>3 DEF Known
  <2> QED BY <2>1, <2>2
<1>7. \A u \in Tabs : tabs'[u].pc # "rest" => Known(tabs[u].copy)'
  BY <1>6 DEF Known
<1>8. \A b \in sessions' : Known(b)'
  BY <1>3 DEF SessionInv
<1> QED BY <1>2, <1>4, <1>7, <1>8 DEF SessionInv

\* A fresh id is minted with a row of its own, by begin and by storeLogin.
LEMMA SessionMinted ==
  ASSUME SessionInv, DirectoryOK, UNCHANGED <<now, ended>>, NEW id \in SessionIds, Mint(id),
         NEW b \in Copies, b.id = id, PutWebSession(b), b.user # Nobody => b.seen # NoTime,
         \/ UNCHANGED lastSeen /\ b.seen = NoTime
         \/ lastSeen' = [lastSeen EXCEPT ![id] = now] /\ b.seen = now,
         tabs' \in [Tabs -> TabType],
         \A t \in Tabs : tabs'[t].pc # "rest" => tabs[t].pc # "rest" /\ tabs'[t].copy = tabs[t].copy
  PROVE  SessionInv'
<1>1. id \notin minted /\ minted' = minted \cup {id} /\ lastSeen[id] = NoTime
  BY DEF Mint, SessionInv
<1>2. /\ lastSeen' \in [SessionIds -> Nat] /\ b.seen =< lastSeen'[id]
      /\ \A i \in SessionIds : lastSeen[i] =< lastSeen'[i] /\ lastSeen'[i] =< now
      /\ \A i \in SessionIds \ minted' : lastSeen'[i] = NoTime
  BY <1>1 DEF SessionInv, DirectoryOK, NoTime
<1>3. \A c : Known(c) => Known(c)'
  BY <1>1, <1>2, KnownStays
<1>4. Known(b)'
  BY <1>1, <1>2 DEF Known
<1>5. \A c \in sessions' : Known(c)'
  BY <1>3, <1>4 DEF SessionInv, PutWebSession
<1>6. ASSUME NEW t \in Tabs, tabs'[t].pc # "rest"
      PROVE  Known(tabs[t].copy)'
  <2>1. PICK c : c = tabs[t].copy
    OBVIOUS
  <2>2. tabs'[t].copy = c /\ Known(c)
    BY <1>6, <2>1 DEF SessionInv
  <2>3. Known(c)'
    BY <1>3, <2>2
  <2> QED BY <2>2, <2>3 DEF Known
<1> QED BY <1>1, <1>2, <1>5, <1>6 DEF SessionInv

LEMMA SessionStepKeeps ==
  ASSUME SessionInv, DirectoryOK, SessionStep, UNCHANGED now
  PROVE  SessionInv'
<1>1. ASSUME NEW t \in Tabs, NEW id \in SessionIds, begin(t, id)
      PROVE  SessionInv'
  <2>1. PICK b : b = Blob(id, Nobody, NoTime, now + PendingTtl)
    OBVIOUS
  <2>2. b \in Copies /\ b.id = id /\ b.seen = NoTime /\ b.user = Nobody
    BY <2>1, SessionsAssumption DEF Blob, Copies, NoTime, DirectoryOK
  <2>3. PutWebSession(b) /\ Mint(id) /\ UNCHANGED <<tabs, ended, lastSeen>>
    BY <1>1, <2>1 DEF begin, Put
  <2> QED BY <2>2, <2>3, SessionMinted DEF SessionInv
<1>2. ASSUME NEW t \in Tabs, NEW id \in SessionIds, NEW u \in Users, storeLogin(t, id, u)
      PROVE  SessionInv'
  <2>1. PICK b : b = Blob(id, u, now, now + SessionTtl)
    OBVIOUS
  <2>2. b \in Copies /\ b.id = id /\ b.seen = now /\ now # NoTime
    BY <2>1, SessionsAssumption DEF Blob, Copies, DirectoryOK, NoTime
  <2>3. /\ PutWebSession(b) /\ Mint(id) /\ UNCHANGED ended
        /\ lastSeen' = [lastSeen EXCEPT ![id] = now] /\ tabs[t].pc = "login"
        /\ tabs' = [tabs EXCEPT ![t].pc = "drop", ![t].fresh = id]
    BY <1>2, <2>1 DEF storeLogin, Put
  <2>4. /\ tabs' \in [Tabs -> TabType]
        /\ \A v \in Tabs : tabs'[v].pc # "rest" => tabs[v].pc # "rest" /\ tabs'[v].copy = tabs[v].copy
    BY <2>3 DEF SessionInv, TabType
  <2> QED BY <2>2, <2>3, <2>4, SessionMinted
<1>3. ASSUME NEW t \in Tabs, completeLogin(t)
      PROVE  SessionInv'
  <2>1. PICK r \in sessions : Go(t, "login", r)
    BY <1>3 DEF completeLogin, GetWebSession
  <2>2. UNCHANGED <<sessions, minted, ended, lastSeen>>
    BY <1>3 DEF completeLogin
  <2>3. Known(r) /\ r \in Copies
    BY DEF SessionInv, Known
  <2>4. PICK new \in TabType : new.copy = r /\ tabs' = [tabs EXCEPT ![t] = new]
    BY <2>1, <2>3, TabMoved
  <2> QED BY <2>2, <2>3, <2>4, SessionsShrink DEF SessionInv
<1>4. ASSUME NEW t \in Tabs, dropPending(t)
      PROVE  SessionInv'
  <2>1. /\ sessions' \subseteq sessions /\ UNCHANGED <<minted, ended, lastSeen>>
        /\ tabs' = [tabs EXCEPT ![t] = Rest]
    BY <1>4 DEF dropPending, DeleteWebSession, Close
  <2> QED BY <2>1, RestType, SessionsShrink DEF SessionInv
<1>5. ASSUME NEW t \in Tabs, NEW why \in {"view", "token", "signout"}, signedInSession(t, why)
      PROVE  SessionInv'
  <2>1. PICK r \in sessions :
          \/ /\ tabs' = [tabs EXCEPT ![t] = [Rest EXCEPT !.pc = "remove", !.why = why, !.copy = r]]
             /\ UNCHANGED lastSeen
          \/ /\ tabs' = [tabs EXCEPT ![t] = [Rest EXCEPT !.pc = "touch", !.why = why,
                                                        !.copy = [r EXCEPT !.seen = now]]]
             /\ Used(r.id)
          \/ /\ tabs' = [tabs EXCEPT ![t] = [Rest EXCEPT !.pc = "loaded", !.why = why, !.copy = r]]
             /\ Used(r.id)
    BY <1>5 DEF signedInSession, GetWebSession
  <2>2. UNCHANGED <<sessions, minted, ended>>
    BY <1>5 DEF signedInSession
  <2>3. Known(r) /\ r \in Copies /\ r.seen \in Nat /\ r.seen =< now
    <3>1. Known(r) /\ r \in Copies /\ r.seen \in Nat /\ r.id \in SessionIds /\ r.seen =< lastSeen[r.id]
      BY DEF SessionInv, Known, Copies
    <3> QED BY <3>1 DEF SessionInv, DirectoryOK
  <2>4. [r EXCEPT !.seen = now] \in Copies /\ [r EXCEPT !.seen = now].id = r.id /\ [r EXCEPT !.seen = now].seen = now
    BY <2>3 DEF Copies, DirectoryOK
  <2>5. ASSUME NEW pc \in {"remove", "touch", "loaded"}, NEW c \in Copies
        PROVE  /\ [Rest EXCEPT !.pc = pc, !.why = why, !.copy = c] \in TabType
               /\ [Rest EXCEPT !.pc = pc, !.why = why, !.copy = c].copy = c
    BY RestType DEF TabType
  <2>6. CASE /\ tabs' = [tabs EXCEPT ![t] = [Rest EXCEPT !.pc = "remove", !.why = why, !.copy = r]]
             /\ UNCHANGED lastSeen
    BY <2>2, <2>3, <2>5, <2>6, SessionsShrink DEF SessionInv
  <2>7. CASE /\ tabs' = [tabs EXCEPT ![t] = [Rest EXCEPT !.pc = "touch", !.why = why,
                                                        !.copy = [r EXCEPT !.seen = now]]]
             /\ Used(r.id)
    <3>1. PICK new : new = [Rest EXCEPT !.pc = "touch", !.why = why, !.copy = [r EXCEPT !.seen = now]]
      OBVIOUS
    <3>2. new \in TabType /\ new.copy = [r EXCEPT !.seen = now]
      BY <2>4, <2>5, <3>1
    <3>3. new.copy.id = r.id /\ new.copy.seen =< now /\ new.copy.seen # NoTime
      BY <2>4, <3>2 DEF DirectoryOK, NoTime
    <3> QED BY <2>2, <2>7, <3>1, <3>2, <3>3, SessionUsed
  <2>8. CASE /\ tabs' = [tabs EXCEPT ![t] = [Rest EXCEPT !.pc = "loaded", !.why = why, !.copy = r]]
             /\ Used(r.id)
    <3>1. PICK new : new = [Rest EXCEPT !.pc = "loaded", !.why = why, !.copy = r]
      OBVIOUS
    <3>2. new \in TabType /\ new.copy = r
      BY <2>3, <2>5, <3>1
    <3>3. new.copy.id = r.id /\ new.copy.seen =< now /\ (new.copy.user # Nobody => new.copy.seen # NoTime)
      BY <2>3, <3>2 DEF Known
    <3> QED BY <2>2, <2>8, <3>1, <3>2, <3>3, SessionUsed
  <2> QED BY <2>1, <2>6, <2>7, <2>8
<1>6. ASSUME NEW t \in Tabs, renew(t) \/ refreshed(t)
      PROVE  SessionInv'
  <2>1. UNCHANGED <<minted, ended, lastSeen>> /\ tabs[t].pc # "rest"
    BY <1>6 DEF renew, refreshed
  <2>2. Known(tabs[t].copy) /\ tabs[t].copy \in Copies
    BY <2>1 DEF SessionInv, Known
  <2>3. PICK b : b = [tabs[t].copy EXCEPT !.expires = now + SessionTtl]
    OBVIOUS
  <2>4. Known(b)
    BY <2>2, <2>3, SessionsAssumption DEF Known, Copies, DirectoryOK
  <2>5. \/ PutWebSession(b) /\ (Go(t, "loaded", tabs[t].copy) \/ Close(t))
        \/ PutWebSession(b) /\ Go(t, "remove", tabs[t].copy)
        \/ UNCHANGED sessions /\ (Go(t, "remove", tabs[t].copy) \/ Close(t))
    BY <1>6, <2>3 DEF renew, refreshed, Put
  <2>6. PICK c \in Copies : c = tabs[t].copy /\ Known(c)
    BY <2>2
  <2>7. \E new \in TabType : (new.pc # "rest" => Known(new.copy)) /\ tabs' = [tabs EXCEPT ![t] = new]
    <3>1. CASE Close(t)
      BY <3>1, RestType DEF Close
    <3>2. CASE Go(t, "loaded", c) \/ Go(t, "remove", c)
      BY <2>6, <3>2, TabMoved
    <3> QED BY <2>5, <2>6, <3>1, <3>2
  <2>8. PICK new \in TabType : (new.pc # "rest" => Known(new.copy)) /\ tabs' = [tabs EXCEPT ![t] = new]
    BY <2>7
  <2>9. CASE PutWebSession(b)
    BY <2>1, <2>4, <2>8, <2>9, SessionPut
  <2>10. CASE UNCHANGED sessions
    BY <2>1, <2>8, <2>10, SessionsShrink DEF SessionInv
  <2> QED BY <2>5, <2>9, <2>10
<1>7. ASSUME NEW t \in Tabs, remove(t)
      PROVE  SessionInv'
  <2>1. /\ sessions' \subseteq sessions /\ UNCHANGED <<minted, lastSeen>> /\ tabs[t].pc = "remove"
        /\ tabs' = [tabs EXCEPT ![t] = Rest] /\ ended' \subseteq ended \cup {tabs[t].copy.id}
    BY <1>7 DEF remove, DeleteWebSession, Close
  <2>2. ended' \subseteq minted
    BY <2>1 DEF SessionInv, Known
  <2> QED BY <2>1, <2>2, RestType, SessionsShrink
<1>8. ASSUME NEW t \in Tabs, viewer(t) \/ accessTokenForRequest(t) \/ endSession(t)
      PROVE  SessionInv'
  <2>1. UNCHANGED <<sessions, minted, ended, lastSeen>> /\ tabs[t].pc = "loaded"
    BY <1>8 DEF viewer, accessTokenForRequest, endSession
  <2>2. PICK c \in Copies : c = tabs[t].copy /\ Known(c)
    BY <2>1 DEF SessionInv, Known
  <2>3. Close(t) \/ Go(t, "refresh", c) \/ Go(t, "remove", c)
    BY <1>8, <2>2 DEF viewer, accessTokenForRequest, endSession
  <2>4. CASE Close(t)
    BY <2>1, <2>4, RestType, SessionsShrink DEF Close, SessionInv
  <2>5. CASE Go(t, "refresh", c) \/ Go(t, "remove", c)
    <3>1. PICK new \in TabType : new.copy = c /\ tabs' = [tabs EXCEPT ![t] = new]
      BY <2>5, TabMoved
    <3> QED BY <2>1, <2>2, <3>1, SessionsShrink DEF SessionInv
  <2> QED BY <2>3, <2>4, <2>5
<1>9. ASSUME UNCHANGED <<tabs, minted, lastSeen>>, sessions' \subseteq sessions,
             ended' \subseteq ended \cup {r.id : r \in sessions \ sessions'}
      PROVE  SessionInv'
  <2>1. ended' \subseteq minted
    BY <1>9 DEF SessionInv, Known
  <2>2. \A b : Known(b) => Known(b)'
    BY <1>9 DEF Known
  <2>3. \A t \in Tabs : tabs[t].pc # "rest" => Known(tabs[t].copy)'
    BY <1>9 DEF SessionInv, Known
  <2> QED BY <1>9, <2>1, <2>2, <2>3 DEF SessionInv
<1>10. ASSUME NEW sel, DeleteMatching(sel)
       PROVE  sessions' \subseteq sessions /\ ended' = ended \cup {r.id : r \in sessions \ sessions'}
  BY <1>10 DEF DeleteMatching, DeleteWebSessionsBySid, DeleteWebSessionsBySubject, DeleteWebSessionsByTenant
<1>11. CASE \E u \in Users, bySid \in BOOLEAN : handleBackchannelLogout(u, bySid)
  <2>1. UNCHANGED <<tabs, minted, lastSeen>> /\ \E sel : DeleteMatching(sel)
    BY <1>11 DEF handleBackchannelLogout
  <2> QED BY <1>9, <1>10, <2>1
<1>12. CASE \E t \in Tenants : DeleteSessions(t)
  <2>1. UNCHANGED <<tabs, minted, lastSeen>> /\ \E sel : DeleteMatching(sel)
    BY <1>12 DEF DeleteSessions
  <2> QED BY <1>9, <1>10, <2>1
<1>13. CASE PurgeExpired
  BY <1>9, <1>13 DEF PurgeExpired, PurgeWebSessions
<1> QED BY <1>1, <1>2, <1>3, <1>4, <1>5, <1>6, <1>7, <1>8, <1>11, <1>12, <1>13 DEF SessionStep

LEMMA SessionsStep ==
  ASSUME SessionInv, DirectoryOK, [Next]_vars
  PROVE  SessionInv'
<1>1. CASE UNCHANGED sessionVars
  <2>1. UNCHANGED <<sessions, tabs, minted, ended, lastSeen>>
    BY <1>1 DEF sessionVars
  <2>2. now' \in Nat /\ now =< now'
    <3>1. now' = now \/ now' = now + 1
      BY DirectorySteps DEF Touches, Finishes, FinishTouch, Issues, Issue, Revokes, Revoke, revokeByPrefix,
         KeyOps, Switches, setDisabled, Forgets, Waits
    <3> QED BY <3>1 DEF DirectoryOK
  <2>3. \A i \in SessionIds : lastSeen[i] =< now'
    BY <2>2 DEF SessionInv, DirectoryOK
  <2> QED BY <2>1, <2>3 DEF SessionInv, Known
<1>2. CASE SessionStep /\ UNCHANGED now
  BY <1>2, SessionStepKeeps
<1> QED BY <1>1, <1>2, SessionSteps


\* However callbacks, tabs and logouts race, and whichever call to the store fails, no id that
\* was handed out before its browser signed in ever answers a request.
THEOREM APendingIdNeverLives == Spec => PendingNeverLives
<1>1. ASSUME SessionInv, DirectoryOK, [Next]_vars, NEW id \in minted, lastSeen[id] = NoTime
      PROVE  lastSeen'[id] = NoTime
  <2>1. id \in SessionIds /\ lastSeen \in [SessionIds -> Nat]
    BY <1>1 DEF SessionInv
  <2>2. SUFFICES ASSUME SessionStep, lastSeen' # lastSeen PROVE lastSeen'[id] = NoTime
    BY <1>1, SessionSteps DEF sessionVars
  <2>3. ASSUME NEW t \in Tabs, NEW x \in SessionIds, NEW u \in Users, storeLogin(t, x, u)
        PROVE  lastSeen'[id] = NoTime
    <3>1. x # id /\ lastSeen' = [lastSeen EXCEPT ![x] = now]
      BY <1>1, <2>3 DEF storeLogin, Mint
    <3> QED BY <1>1, <2>1, <3>1
  <2>4. ASSUME NEW t \in Tabs, NEW why \in {"view", "token", "signout"}, signedInSession(t, why)
        PROVE  lastSeen'[id] = NoTime
    <3>1. PICK r \in sessions : r.user # Nobody /\ Used(r.id)
      BY <2>2, <2>4 DEF signedInSession, GetWebSession
    <3>2. r.seen \in Nat /\ r.id \in SessionIds /\ r.seen # NoTime /\ r.seen =< lastSeen[r.id]
      BY <1>1, <3>1 DEF SessionInv, Known, Copies
    <3>3. r.id # id
      BY <1>1, <3>2 DEF NoTime
    <3> QED BY <1>1, <2>1, <3>1, <3>3 DEF Used
  <2> QED BY <2>2, <2>3, <2>4 DEF SessionStep, begin, completeLogin, dropPending, renew, remove, viewer,
         accessTokenForRequest, refreshed, endSession, handleBackchannelLogout, DeleteSessions, PurgeExpired
<1>2. SessionInv /\ DirectoryOK /\ [Next]_vars =>
        [\A id \in minted : lastSeen[id] = NoTime => lastSeen'[id] = NoTime]_<<minted, lastSeen>>
  BY <1>1
<1> QED BY <1>2, DirectoryStarts, DirectoryStep, SessionsStart, SessionsStep, PTL DEF Spec, PendingNeverLives

\* The idle rule holds whatever tabs race on a session: none is answered from it after
\* a pause longer than the limit, though the stored last-seen lags behind.
THEOREM NoSessionOutlivesItsIdleLimit == Spec => IdleNeverOverrun
<1>1. ASSUME SessionInv, DirectoryOK, [Next]_vars, NEW id \in SessionIds,
             lastSeen'[id] # lastSeen[id], lastSeen[id] # NoTime
      PROVE  now - lastSeen[id] <= SessionIdle
  <2>1. SessionStep
    BY <1>1, SessionSteps DEF sessionVars
  <2>2. \A u \in Users, t \in Tabs, x \in SessionIds : ~(storeLogin(t, x, u) /\ x = id)
    BY <1>1 DEF storeLogin, Mint, SessionInv
  <2>3. \A u \in Users, t \in Tabs, x \in SessionIds : ~storeLogin(t, x, u)
    BY <1>1, <2>2 DEF storeLogin, SessionInv
  <2>4. PICK t \in Tabs, why \in {"view", "token", "signout"} : signedInSession(t, why)
    <3>1. \E t \in Tabs : \E why \in {"view", "token", "signout"} : signedInSession(t, why)
      BY <1>1, <2>1, <2>3 DEF SessionStep, begin, completeLogin, dropPending, renew, remove, viewer,
         accessTokenForRequest, refreshed, endSession, handleBackchannelLogout, DeleteSessions, PurgeExpired
    <3> QED BY <3>1
  <2>5. PICK r \in sessions : now - r.seen <= SessionIdle /\ Used(r.id)
    BY <1>1, <2>4 DEF signedInSession, GetWebSession
  <2>6. r.id \in SessionIds /\ r.seen \in Nat /\ r.seen =< lastSeen[r.id]
    BY <1>1 DEF SessionInv, Known, Copies
  <2>7. r.id = id
    BY <1>1, <2>5, <2>6 DEF Used, SessionInv
  <2> QED BY <1>1, <2>5, <2>6, <2>7, SessionsAssumption DEF SessionInv, DirectoryOK
<1>2. SessionInv /\ DirectoryOK /\ [Next]_vars =>
        [\A id \in SessionIds : lastSeen'[id] # lastSeen[id] /\ lastSeen[id] # NoTime =>
           now - lastSeen[id] <= SessionIdle]_<<lastSeen, now>>
  BY <1>1
<1> QED BY <1>2, DirectoryStarts, DirectoryStep, SessionsStart, SessionsStep, PTL DEF Spec, IdleNeverOverrun


-----------------------------------------------------------------------------
(* Credentials *)

TenantsOK == tenants \in [Tenants -> [issuer : Issuers, disabled : BOOLEAN]]

LEMMA TenantsStart == Init => TenantsOK
BY DEF Init, DirectoryInit, TenantsOK, Issuers

\* No step changes a tenant's issuer, and only an operator's changes whether it is disabled.
LEMMA TenantsStep ==
  ASSUME TenantsOK, [Next]_vars
  PROVE  /\ TenantsOK' /\ \A t \in Tenants : tenants'[t].issuer = tenants[t].issuer
         /\ Switches \/ UNCHANGED tenants
<1>1. CASE Switches
  <2>1. PICK t \in Tenants, disabled \in BOOLEAN : tenants' = [tenants EXCEPT ![t].disabled = disabled]
    BY <1>1 DEF Switches, setDisabled, SetTenantDisabled
  <2> QED BY <1>1, <2>1 DEF TenantsOK
<1>2. CASE UNCHANGED tenants
  BY <1>2 DEF TenantsOK
<1> QED BY <1>1, <1>2, DirectorySteps DEF directory, Touches, KeyForHash, Finishes, FinishTouch, Issues, Issue,
       Revokes, Revoke, revokeByPrefix, KeyOps, Forgets, Waits

\* Every key stays the tenant's for good, and time, touches and restarts make no
\* credential good: only what an administrator or the operator does can.
LEMMA KeysStay ==
  ASSUME DirectoryOK, [Next]_vars
  PROVE  \A k \in keys : \E n \in keys' : n.id = k.id /\ n.tenant = k.tenant
<1>1. CASE UNCHANGED keys
  BY <1>1
<1>2. CASE Finishes
  BY <1>1, <1>2, FinishRows DEF Finishes, SameKey
<1>3. CASE Issues
  BY <1>3, IssuesRows
<1>4. CASE Revokes
  BY <1>4, RevokesRows DEF SameKey
<1> QED BY <1>1, <1>2, <1>3, <1>4, DirectorySteps DEF directory, Touches, KeyForHash, Switches, setDisabled,
       Forgets, Waits

Calm == UNCHANGED tenants /\ (UNCHANGED keys \/ Finishes)

LEMMA GoodOnlyFades ==
  ASSUME DirectoryOK, IdleInv, [Next]_vars, Calm, NEW a, Good(a)'
  PROVE  Good(a)
<1>1. UNCHANGED tenants
  BY DEF Calm
<1>2. CASE a.kind = "token"
  BY <1>1, <1>2 DEF Good
<1>3. CASE a.kind = "key"
  <2>1. PICK n \in keys' : n.id = a.key /\ (Status(n) = "live")' /\ ~tenants[n.tenant].disabled
    BY <1>1, <1>3 DEF Good
  <2>2. DirectoryOK'
    BY DirectoryStep
  <2>3. /\ ~n.revoked /\ ~(n.expires # NoTime /\ n.expires <= now')
        /\ n.expires \in Nat /\ now' \in Nat
    BY <2>1, <2>2 DEF Status, DirectoryOK, KeyRow
  <2>4. \E k \in keys : SameKey(k, n) /\ k.revoked = n.revoked
    <3>1. CASE UNCHANGED keys
      BY <3>1 DEF SameKey
    <3>2. CASE Finishes
      BY <3>1, <3>2, FinishRows DEF Finishes
    <3> QED BY <3>1, <3>2 DEF Calm
  <2>5. PICK k \in keys : SameKey(k, n) /\ k.revoked = n.revoked
    BY <2>4
  <2>6. now \in Nat /\ now =< now'
    <3>1. now' = now \/ now' = now + 1
      BY DirectorySteps DEF Touches, Finishes, FinishTouch, Issues, Issue, Revokes, Revoke, revokeByPrefix,
         KeyOps, Switches, setDisabled, Forgets, Waits
    <3> QED BY <3>1 DEF DirectoryOK
  <2>7. Status(k) = "live" /\ k.id = a.key /\ ~tenants[k.tenant].disabled
    BY <2>1, <2>3, <2>5, <2>6 DEF Status, SameKey
  <2> QED BY <1>3, <2>7 DEF Good
<1> QED BY <1>2, <1>3 DEF Good

-----------------------------------------------------------------------------
(* Requests *)

Underway == {"bearer", "verify", "discover", "limit", "record", "rate", "bump", "serve"}
ReqType == [pc : Underway \cup Answers, arrival : Arrival, tenant : Tenants \cup {NoTenant},
            err : {NoError, "unauthenticated", "unavailable"}, window : Int, alive : BOOLEAN]

RequestsOK == scene \in Scenes /\ reqs \in [Requests -> {Idle} \cup ReqType]

\* What is known of a request's credential at each stage.
Lawful(q) ==
  /\ q.alive /\ q.arrival.kind \in {"key", "token"}
  /\ q.arrival.kind = "key" => \E k \in keys : k.id = q.arrival.key /\ k.tenant = q.tenant
  /\ q.arrival.kind = "token" => tenants[q.tenant].issuer = q.arrival.issuer

Pending(q) ==
  /\ q.arrival.kind = "token" /\ q.tenant \in Tenants /\ tenants[q.tenant].issuer = q.arrival.issuer
  /\ q.arrival.good /\ q.arrival.names /\ q.arrival.claims \in {q.tenant, NoTenant} => q.alive

Entitled(q) ==
  /\ Good(q.arrival) => q.alive
  /\ q.pc \in {"verify", "discover"} => Pending(q)
  /\ q.pc \in {"limit", "record", "rate", "bump", "serve", "served"} /\ q.tenant # NoTenant => Lawful(q)
  /\ q.pc = "served" /\ q.arrival.class = "tenant" => q.tenant # NoTenant

EntitledInv == RequestsOK /\ \A r \in Requests : reqs[r] # Idle => Entitled(reqs[r])

\* A request is past idling when its pc says so.
LEMMA NotIdle ==
  ASSUME RequestsOK, NEW r \in Requests, reqs[r].pc # "idle"
  PROVE  reqs[r] \in ReqType /\ reqs[r] # Idle
BY DEF RequestsOK, Idle

LEMMA EntitledStays ==
  ASSUME DirectoryOK, IdleInv, TenantsOK, [Next]_vars, Calm, NEW q \in ReqType, Entitled(q)
  PROVE  Entitled(q)'
<1>1. Good(q.arrival)' => Good(q.arrival)
  BY GoodOnlyFades
<1>2. Lawful(q) /\ q.tenant \in Tenants => Lawful(q)'
  BY KeysStay, TenantsStep DEF Lawful
<1>3. Pending(q) => Pending(q)'
  BY TenantsStep DEF Pending
<1>4. q.tenant # NoTenant => q.tenant \in Tenants
  BY DEF ReqType
<1> QED BY <1>1, <1>2, <1>3, <1>4 DEF Entitled

\* One request moves and the others keep what is known of them.
LEMMA OneMoves ==
  ASSUME DirectoryOK, IdleInv, TenantsOK, [Next]_vars, Calm, EntitledInv,
         NEW r \in Requests, NEW q \in ReqType, Set(r, q), Entitled(q)'
  PROVE  EntitledInv'
<1>1. RequestsOK'
  BY DEF EntitledInv, RequestsOK, Set, Next, vars
<1>2. ASSUME NEW s \in Requests, reqs'[s] # Idle
      PROVE  Entitled(reqs[s])'
  <2>1. CASE s = r
    <3>1. reqs'[s] = q
      BY <2>1 DEF Set, EntitledInv, RequestsOK
    <3> QED BY <3>1 DEF Entitled, Good, Lawful, Pending
  <2>2. CASE s # r
    <3>1. PICK p : p = reqs[s]
      OBVIOUS
    <3>2. reqs'[s] = p /\ p \in ReqType /\ Entitled(p)
      BY <1>2, <2>2, <3>1 DEF Set, EntitledInv, RequestsOK
    <3>3. Entitled(p)'
      BY <3>2, EntitledStays
    <3> QED BY <3>2, <3>3 DEF Entitled, Good, Lawful, Pending
  <2> QED BY <2>1, <2>2
<1> QED BY <1>1, <1>2 DEF EntitledInv

LEMMA EntitledStarts == Init => EntitledInv
BY DEF Init, EntitledInv, RequestsOK

\* Looking a credential up: what is accepted is good at that moment.
LEMMA BearerEntitles ==
  ASSUME DirectoryOK, IdleInv, TenantsOK, EntitledInv, NEW r \in Requests, Bearer(r), [Next]_vars
  PROVE  EntitledInv'
<1>1. /\ reqs[r].pc = "bearer" /\ reqs[r] \in ReqType /\ Entitled(reqs[r]) /\ RequestsOK
  BY NotIdle DEF Bearer, At, EntitledInv
<1>2. UNCHANGED <<now, tenants, keys>>
  BY DEF Bearer, KeyForHash, directory
<1>3. Calm
  BY <1>2 DEF Calm
<1>4. PICK o : o = reqs[r]
  OBVIOUS
<1>5. o.arrival \in Arrival /\ o.alive \in BOOLEAN
  BY <1>1, <1>4 DEF ReqType
<1>6. (Good(o.arrival))' => o.alive
  <2>1. Good(o.arrival) => o.alive
    BY <1>1, <1>4 DEF Entitled
  <2> QED BY <1>2, <2>1 DEF Good, Status
<1>7. ASSUME NEW err \in {"unauthenticated", "unavailable"}, Failed(r, err)
      PROVE  EntitledInv'
  <2>1. PICK q : q = [reqs[r] EXCEPT !.pc = "limit", !.err = err, !.tenant = NoTenant]
    OBVIOUS
  <2>2. q \in ReqType /\ q.pc = "limit" /\ q.tenant = NoTenant /\ q.arrival = o.arrival /\ q.alive = o.alive
    BY <1>1, <1>4, <2>1 DEF ReqType, Underway
  <2>3. Entitled(q)'
    BY <1>6, <2>2 DEF Entitled
  <2> QED BY <1>3, <1>7, <2>1, <2>2, <2>3, OneMoves DEF Failed
<1>8. CASE o.arrival.kind = "key" /\ \E k \in GetTenantByTenantKeyHash(o.arrival.key) : Resolved(r, k.tenant)
  <2>1. PICK k \in GetTenantByTenantKeyHash(o.arrival.key) : Resolved(r, k.tenant)
    BY <1>8
  <2>2. /\ k \in keys /\ k.id = o.arrival.key /\ ~k.revoked /\ ~tenants[k.tenant].disabled
        /\ k.expires = NoTime \/ k.expires > now
    BY <2>1 DEF GetTenantByTenantKeyHash
  <2>3. k.tenant \in Tenants /\ Status(k) = "live"
    BY <2>2 DEF Status, DirectoryOK, KeyRow
  <2>4. o.alive
    <3>1. Good(o.arrival)
      BY <1>8, <2>2, <2>3 DEF Good
    <3> QED BY <1>1, <1>4, <3>1 DEF Entitled
  <2>5. PICK q : q = [reqs[r] EXCEPT !.pc = "limit", !.tenant = k.tenant]
    OBVIOUS
  <2>6. q \in ReqType /\ q.pc = "limit" /\ q.tenant = k.tenant /\ q.arrival = o.arrival /\ q.alive = o.alive
    BY <1>1, <1>4, <2>3, <2>5 DEF ReqType, Underway
  <2>7. Entitled(q)'
    BY <1>2, <1>8, <2>2, <2>4, <2>6 DEF Entitled, Lawful
  <2> QED BY <1>3, <2>1, <2>5, <2>6, <2>7, OneMoves DEF Resolved
<1>9. CASE o.arrival.kind = "token" /\ \E t \in GetTenantByIssuer(o.arrival.issuer) :
             Set(r, [reqs[r] EXCEPT !.pc = "verify", !.tenant = t])
  <2>1. PICK t \in GetTenantByIssuer(o.arrival.issuer) : Set(r, [reqs[r] EXCEPT !.pc = "verify", !.tenant = t])
    BY <1>9
  <2>2. t \in Tenants /\ tenants[t].issuer = o.arrival.issuer /\ ~tenants[t].disabled
    BY <2>1 DEF GetTenantByIssuer
  <2>3. o.arrival.good /\ o.arrival.names /\ o.arrival.claims \in {t, NoTenant} => o.alive
    <3>1. o.arrival.good /\ o.arrival.names /\ o.arrival.claims \in {t, NoTenant} => Good(o.arrival)
      BY <1>9, <2>2 DEF Good
    <3> QED BY <1>1, <1>4, <3>1 DEF Entitled
  <2>4. PICK q : q = [reqs[r] EXCEPT !.pc = "verify", !.tenant = t]
    OBVIOUS
  <2>5. q \in ReqType /\ q.pc = "verify" /\ q.tenant = t /\ q.arrival = o.arrival /\ q.alive = o.alive
    BY <1>1, <1>4, <2>2, <2>4 DEF ReqType, Underway
  <2>6. Entitled(q)'
    BY <1>2, <1>6, <1>9, <2>2, <2>3, <2>5 DEF Entitled, Pending
  <2> QED BY <1>3, <2>1, <2>4, <2>5, <2>6, OneMoves
<1> QED BY <1>4, <1>7, <1>8, <1>9 DEF Bearer

\* A token is taken only with the claims its pending request waits on.
LEMMA ClaimsEntitle ==
  ASSUME DirectoryOK, IdleInv, TenantsOK, EntitledInv, NEW r \in Requests, [Next]_vars, UNCHANGED <<now, directory>>,
         reqs[r].pc \in {"verify", "discover"}, Claims(r) \/ Failed(r, "unavailable")
  PROVE  EntitledInv'
<1>1. reqs[r] \in ReqType /\ Entitled(reqs[r]) /\ RequestsOK
  BY NotIdle DEF EntitledInv
<1>2. UNCHANGED <<now, tenants, keys>> /\ Calm
  BY DEF directory, Calm
<1>3. PICK o : o = reqs[r]
  OBVIOUS
<1>4. /\ Pending(o) /\ o.tenant \in Tenants /\ o.alive \in BOOLEAN
  BY <1>1, <1>3 DEF Entitled, Pending, ReqType
<1>5. (Good(o.arrival))' => o.alive
  <2>1. Good(o.arrival) => o.alive
    BY <1>1, <1>3 DEF Entitled
  <2> QED BY <1>2, <2>1 DEF Good, Status
<1>6. CASE \E err \in {"unauthenticated", "unavailable"} : Failed(r, err)
  <2>1. PICK err \in {"unauthenticated", "unavailable"} : Failed(r, err)
    BY <1>6
  <2>2. PICK q : q = [reqs[r] EXCEPT !.pc = "limit", !.err = err, !.tenant = NoTenant]
    OBVIOUS
  <2>3. q \in ReqType /\ q.pc = "limit" /\ q.tenant = NoTenant /\ q.arrival = o.arrival /\ q.alive = o.alive
    BY <1>1, <1>3, <2>2 DEF ReqType, Underway
  <2>4. Entitled(q)'
    BY <1>5, <2>3 DEF Entitled
  <2> QED BY <1>2, <2>1, <2>2, <2>3, <2>4, OneMoves DEF Failed
<1>7. CASE /\ o.arrival.good /\ o.arrival.claims \in {o.tenant, NoTenant} /\ o.arrival.names
           /\ Resolved(r, o.tenant)
  <2>1. PICK q : q = [reqs[r] EXCEPT !.pc = "limit", !.tenant = o.tenant]
    OBVIOUS
  <2>2. q \in ReqType /\ q.pc = "limit" /\ q.tenant = o.tenant /\ q.arrival = o.arrival /\ q.alive = o.alive
    BY <1>1, <1>3, <1>4, <2>1 DEF ReqType, Underway
  <2>3. Entitled(q)'
    BY <1>2, <1>4, <1>5, <1>7, <2>2 DEF Entitled, Lawful, Pending
  <2> QED BY <1>2, <1>7, <2>1, <2>2, <2>3, OneMoves DEF Resolved
<1> QED BY <1>3, <1>6, <1>7 DEF Claims

\* After the lookup a request keeps its credential and its tenant; it only moves on.
MovesOn(o, q) ==
  /\ q.arrival = o.arrival /\ q.tenant = o.tenant /\ q.alive = o.alive
  /\ \/ o.pc = "verify" /\ q.pc = "discover"
     \/ /\ o.pc \in {"limit", "record", "rate", "bump", "serve"}
        /\ q.pc \in {"record", "rate", "bump", "serve", "served"} \cup {"blocked", "limited", "unauthenticated"}
        /\ q.pc = "served" /\ q.arrival.class = "tenant" => q.tenant # NoTenant

LEMMA MovesOnEntitled ==
  ASSUME DirectoryOK, IdleInv, TenantsOK, EntitledInv, NEW r \in Requests, [Next]_vars, UNCHANGED <<now, directory>>,
         NEW q \in ReqType, MovesOn(reqs[r], q), reqs[r].pc # "idle", Set(r, q)
  PROVE  EntitledInv'
<1>1. Entitled(reqs[r]) /\ reqs[r] \in ReqType
  BY NotIdle DEF EntitledInv
<1>2. UNCHANGED <<now, tenants, keys>> /\ Calm
  BY DEF directory, Calm
<1>3. Entitled(q)
  BY <1>1 DEF Entitled, MovesOn, Lawful, Pending
<1>4. Entitled(q)'
  BY <1>3, EntitledStays, <1>2
<1> QED BY <1>2, <1>4, OneMoves

\* The steps after the lookup, each as a move of its request.
LEMMA StepMoves ==
  ASSUME RequestsOK, GateAssumption, now \in Nat, NEW r \in Requests,
         \/ verifier(r) /\ ~Claims(r)
         \/ FailureLimiter(r) \/ record(r) \/ RateLimit(r) \/ Bump(r) \/ Required(r)
  PROVE  /\ reqs[r].pc # "idle" /\ UNCHANGED <<now, directory>>
         /\ \E q \in ReqType : MovesOn(reqs[r], q) /\ Set(r, q)
<1>1. ASSUME NEW pc \in Underway \cup Answers, reqs[r].pc # "idle"
      PROVE  LET q == [reqs[r] EXCEPT !.pc = pc]
             IN /\ q \in ReqType /\ q.pc = pc /\ q.arrival = reqs[r].arrival
                /\ q.tenant = reqs[r].tenant /\ q.alive = reqs[r].alive
  <2>1. reqs[r] \in ReqType
    BY <1>1, NotIdle
  <2> QED BY <2>1 DEF ReqType
<1>2. ASSUME NEW pc \in Underway \cup Answers, reqs[r].pc # "idle", To(r, pc),
             \/ reqs[r].pc = "verify" /\ pc = "discover"
             \/ /\ reqs[r].pc \in {"limit", "record", "rate", "bump", "serve"}
                /\ pc \in {"record", "rate", "bump", "serve", "served"} \cup {"blocked", "limited", "unauthenticated"}
                /\ pc = "served" /\ reqs[r].arrival.class = "tenant" => reqs[r].tenant # NoTenant
      PROVE  \E q \in ReqType : MovesOn(reqs[r], q) /\ Set(r, q)
  BY <1>1, <1>2 DEF MovesOn, To
<1>3. CASE verifier(r) /\ ~Claims(r)
  BY <1>2, <1>3 DEF verifier, At, Underway
<1>4. CASE FailureLimiter(r)
  BY <1>2, <1>4 DEF FailureLimiter, At, Underway, Answers
<1>5. CASE record(r)
  BY <1>2, <1>5 DEF record, At, Underway
<1>6. CASE RateLimit(r)
  <2>1. CASE To(r, "serve")
    BY <1>2, <1>6, <2>1 DEF RateLimit, At, Underway
  <2>2. CASE Set(r, [reqs[r] EXCEPT !.pc = "bump", !.window = now - (now % Minute)])
    <3>1. reqs[r] \in ReqType /\ reqs[r].pc = "rate"
      BY <1>6, NotIdle DEF RateLimit, At
    <3>2. now - (now % Minute) \in Int
      BY GateAssumption
    <3>3. PICK w \in Int : w = now - (now % Minute)
      BY <3>2
    <3>4. PICK q : q = [reqs[r] EXCEPT !.pc = "bump", !.window = w]
      OBVIOUS
    <3>5. q \in ReqType /\ q.pc = "bump" /\ q.arrival = reqs[r].arrival
          /\ q.tenant = reqs[r].tenant /\ q.alive = reqs[r].alive
      BY <3>1, <3>4 DEF ReqType, Underway
    <3> QED BY <1>6, <2>2, <3>1, <3>3, <3>4, <3>5 DEF MovesOn, RateLimit
  <2> QED BY <1>6, <2>1, <2>2 DEF RateLimit
<1>7. CASE Bump(r)
  <2>1. To(r, "serve") \/ To(r, "limited")
    BY <1>7 DEF Bump
  <2> QED BY <1>2, <1>7, <2>1 DEF Bump, At, Underway, Answers
<1>8. CASE Required(r)
  BY <1>2, <1>8 DEF Required, At, Underway, Answers
<1> QED BY <1>3, <1>4, <1>5, <1>6, <1>7, <1>8


\* An administrator or the operator changes something: a credential that becomes good is
\* remembered by the requests that carry it.
LEMMA ChangesEntitled ==
  ASSUME DirectoryOK, IdleInv, TenantsOK, EntitledInv, [Next]_vars, StillAlive, UNCHANGED scene
  PROVE  EntitledInv'
<1>1. ASSUME NEW r \in Requests
      PROVE  \/ reqs[r] = Idle /\ reqs'[r] = Idle
             \/ /\ reqs[r] \in ReqType /\ reqs'[r] \in ReqType /\ reqs[r] # Idle /\ reqs'[r] # Idle
                /\ reqs'[r].pc = reqs[r].pc /\ reqs'[r].arrival = reqs[r].arrival
                /\ reqs'[r].tenant = reqs[r].tenant /\ reqs'[r].window = reqs[r].window
                /\ (reqs'[r].alive <=> reqs[r].alive \/ \E a \in {reqs[r].arrival} : Good(a)')
  <2>1. CASE reqs[r] = Idle
    BY <2>1 DEF StillAlive
  <2>2. CASE reqs[r] # Idle
    <3>1. reqs[r] \in ReqType
      BY <2>2 DEF EntitledInv, RequestsOK
    <3>2. PICK b \in BOOLEAN : b <=> reqs[r].alive \/ \E a \in {reqs[r].arrival} : Good(a)'
      OBVIOUS
    <3>3. reqs'[r] = [reqs[r] EXCEPT !.alive = b]
      BY <2>2, <3>1, <3>2 DEF StillAlive, ReqType
    <3>4. /\ reqs'[r] \in ReqType /\ reqs'[r].alive = b
          /\ reqs'[r].pc = reqs[r].pc /\ reqs'[r].arrival = reqs[r].arrival
          /\ reqs'[r].tenant = reqs[r].tenant /\ reqs'[r].window = reqs[r].window
      BY <3>1, <3>3 DEF ReqType
    <3>5. reqs'[r].pc # "idle"
      BY <3>4 DEF ReqType, Underway, Answers
    <3> QED BY <2>2, <3>1, <3>2, <3>4, <3>5 DEF Idle
  <2> QED BY <2>1, <2>2
<1>2. RequestsOK'
  <2>1. reqs' \in [Requests -> {Idle} \cup ReqType]
    BY <1>1 DEF StillAlive
  <2> QED BY <2>1 DEF EntitledInv, RequestsOK
<1>3. ASSUME NEW r \in Requests, reqs'[r] # Idle
      PROVE  Entitled(reqs[r])'
  <2>1. PICK o : o = reqs[r]
    OBVIOUS
  <2>2. PICK n : n = reqs'[r]
    OBVIOUS
  <2>3. /\ o \in ReqType /\ n \in ReqType /\ n.pc = o.pc /\ n.arrival = o.arrival /\ n.tenant = o.tenant
        /\ (n.alive <=> o.alive \/ Good(o.arrival)') /\ Entitled(o)
    BY <1>1, <1>3, <2>1, <2>2 DEF EntitledInv
  <2>4. Lawful(o) /\ o.tenant \in Tenants => Lawful(n)'
    BY <2>3, KeysStay, TenantsStep DEF Lawful
  <2>5. Pending(o) => Pending(n)'
    BY <2>3, TenantsStep DEF Pending
  <2>6. o.tenant # NoTenant => o.tenant \in Tenants
    BY <2>3 DEF ReqType
  <2>7. Entitled(n)'
    BY <2>3, <2>4, <2>5, <2>6 DEF Entitled
  <2> QED BY <2>2, <2>7 DEF Entitled, Good, Lawful, Pending
<1> QED BY <1>2, <1>3 DEF EntitledInv

\* A step that leaves every request where it was.
LEMMA NoneMoves ==
  ASSUME DirectoryOK, IdleInv, TenantsOK, EntitledInv, [Next]_vars, Calm, UNCHANGED <<reqs, scene>>
  PROVE  EntitledInv'
<1>1. ASSUME NEW r \in Requests, reqs'[r] # Idle
      PROVE  Entitled(reqs[r])'
  <2>1. PICK p : p = reqs[r]
    OBVIOUS
  <2>2. reqs'[r] = p /\ p \in ReqType /\ Entitled(p)
    BY <1>1, <2>1 DEF EntitledInv, RequestsOK
  <2>3. Entitled(p)'
    BY <2>2, EntitledStays
  <2> QED BY <2>2, <2>3 DEF Entitled, Good, Lawful, Pending
<1> QED BY <1>1 DEF EntitledInv, RequestsOK

LEMMA EntitledStep ==
  ASSUME DirectoryOK, IdleInv, TenantsOK, EntitledInv, [Next]_vars
  PROVE  EntitledInv'
<1>0. UNCHANGED scene
  BY DEF Next, vars
<1>1. ASSUME NEW r \in Requests, Step(r)
      PROVE  EntitledInv'
  <2>1. CASE Bearer(r)
    BY <2>1, BearerEntitles
  <2>2. CASE (verifier(r) /\ Claims(r)) \/ discover(r)
    <3>1. reqs[r].pc \in {"verify", "discover"} /\ UNCHANGED <<now, directory>>
      BY <2>2 DEF verifier, discover, At
    <3>2. Claims(r) \/ Failed(r, "unavailable")
      BY <2>2 DEF discover
    <3> QED BY <3>1, <3>2, ClaimsEntitle
  <2>3. CASE \/ verifier(r) /\ ~Claims(r)
             \/ FailureLimiter(r) \/ record(r) \/ RateLimit(r) \/ Bump(r) \/ Required(r)
    <3>1. RequestsOK /\ now \in Nat
      BY DEF EntitledInv, DirectoryOK
    <3>2. /\ reqs[r].pc # "idle" /\ UNCHANGED <<now, directory>>
          /\ \E q \in ReqType : MovesOn(reqs[r], q) /\ Set(r, q)
      BY <2>3, <3>1, StepMoves, GateAssumption
    <3> QED BY <3>2, MovesOnEntitled
  <2> QED BY <1>1, <2>1, <2>2, <2>3 DEF Step
<1>2. ASSUME NEW r \in scene.slots, NEW a \in scene.traffic, Arrive(r, a)
      PROVE  EntitledInv'
  <2>1. r \in Requests /\ a \in Arrival
    BY TrafficAssumption DEF EntitledInv, RequestsOK
  <2>2. UNCHANGED <<now, tenants, keys>> /\ Calm
    BY <1>2 DEF Arrive, directory, Calm
  <2>3. PICK q : q = [pc |-> IF InternalOnly(a) THEN "not-found" ELSE "bearer", arrival |-> a,
                      tenant |-> NoTenant, err |-> NoError, window |-> 0, alive |-> Good(a)]
    OBVIOUS
  <2>4. Good(a) \in BOOLEAN
    BY DEF Good
  <2>5. q \in ReqType
    <3>1. PICK pc \in {"not-found", "bearer"} : pc = IF InternalOnly(a) THEN "not-found" ELSE "bearer"
      OBVIOUS
    <3>2. PICK b \in BOOLEAN : b = Good(a)
      BY <2>4
    <3>3. q = [pc |-> pc, arrival |-> a, tenant |-> NoTenant, err |-> NoError, window |-> 0, alive |-> b]
      BY <2>3, <3>1, <3>2, Zenon
    <3> QED BY <2>1, <3>3 DEF ReqType, Underway, Answers
  <2>6. q.pc \in {"not-found", "bearer"} /\ q.arrival = a /\ q.tenant = NoTenant /\ q.alive = Good(a)
    BY <2>3
  <2>7. Entitled(q)
    BY <2>6 DEF Entitled
  <2>8. Entitled(q)'
    BY <2>2, <2>5, <2>7, EntitledStays
  <2>9. Set(r, q)
    BY <1>2, <2>3 DEF Arrive
  <2> QED BY <2>1, <2>2, <2>5, <2>8, <2>9, OneMoves
<1>3. CASE ChangeKeys \/ ChangeTenants
  BY <1>0, <1>3, ChangesEntitled DEF ChangeKeys, ChangeTenants
<1>4. CASE Background
  <2>1. CASE \E id \in KeyIds : FinishTouch(id) /\ UNCHANGED reqs
    BY <1>0, <2>1, NoneMoves DEF FinishTouch, Finishes, Calm
  <2>2. CASE Purge
    BY <1>0, <2>2, NoneMoves DEF Purge, directory, Calm
  <2> QED BY <1>4, <2>1, <2>2 DEF Background
<1>5. CASE Tick
  BY <1>0, <1>5, NoneMoves DEF Tick, directory, gateVars, Calm
<1>6. CASE Restart
  BY <1>0, <1>6 DEF Restart, EntitledInv, RequestsOK
<1>7. CASE Sessions
  BY <1>0, <1>7, NoneMoves DEF Sessions, directory, gateVars, Calm
<1>8. CASE UNCHANGED vars
  BY <1>0, <1>8, NoneMoves DEF vars, directory, gateVars, Calm
<1> QED BY <1>1, <1>2, <1>3, <1>4, <1>5, <1>6, <1>7, <1>8 DEF Next

\* Whatever is revoked, disabled, issued or enabled while requests wait, a tenant's
\* operation is served only on a credential that was good after the request arrived.
THEOREM OnlyTheEntitledAreServed == Spec => []ServedWasAlive
<1>1. EntitledInv => ServedWasAlive
  <2> SUFFICES ASSUME EntitledInv, NEW r \in Requests, reqs[r].pc = "served", reqs[r].arrival.class = "tenant"
               PROVE  LET a == reqs[r].arrival
                      IN /\ reqs[r].alive
                         /\ a.kind = "key" => \E k \in keys : k.id = a.key /\ k.tenant = reqs[r].tenant
                         /\ a.kind = "token" => tenants[reqs[r].tenant].issuer = a.issuer
    BY DEF ServedWasAlive
  <2>1. Entitled(reqs[r])
    BY NotIdle DEF EntitledInv
  <2> QED BY <2>1 DEF Entitled, Lawful
<1> QED BY <1>1, DirectoryStarts, DirectoryStep, TenantsStart, TenantsStep, EntitledStarts, EntitledStep,
           PTL DEF Spec


-----------------------------------------------------------------------------
(* The limiters *)

\* A request that does not move keeps its place, its arrival and its window.
Stays(r) ==
  /\ reqs'[r].pc = reqs[r].pc
  /\ reqs[r].pc # "idle" => reqs'[r].arrival = reqs[r].arrival /\ reqs'[r].window = reqs[r].window

OnlyMover(r) == \A s \in Requests \ {r} : Stays(s)

Quiet ==
  /\ \A r \in Requests : Stays(r)
  /\ UNCHANGED <<hits, admitted, uncounted>>
  /\ UNCHANGED now \/ Tick
  /\ UNCHANGED windows \/ (UNCHANGED now /\ PurgeTenantRateWindows)

Enters(r) ==
  /\ reqs[r].pc \notin Underway /\ reqs'[r].pc \in {"bearer", "not-found"} /\ OnlyMover(r)
  /\ UNCHANGED <<now, hits, windows, admitted, uncounted>>

\* A step that sets one request's record leaves the others where they are.
LEMMA SetMovesOne ==
  ASSUME RequestsOK, NEW r \in Requests, NEW q, Set(r, q)
  PROVE  OnlyMover(r) /\ reqs'[r] = q
BY DEF RequestsOK, Set, OnlyMover, Stays

LEMMA GateSteps ==
  ASSUME RequestsOK, [Next]_vars
  PROVE  \/ Quiet
         \/ \E r \in Requests : Step(r) /\ OnlyMover(r) /\ UNCHANGED now
         \/ \E r \in Requests : Enters(r)
         \/ Restart
<1>1. ASSUME NEW r \in Requests, Step(r)
      PROVE  OnlyMover(r) /\ UNCHANGED now
  <2>1. \E q : Set(r, q)
    BY <1>1 DEF Step, Bearer, verifier, discover, FailureLimiter, record, RateLimit, Bump, Required,
                Claims, Failed, Resolved, To
  <2>2. UNCHANGED now
    BY <1>1 DEF Step, Bearer, verifier, discover, FailureLimiter, record, RateLimit, Bump, Required
  <2> QED BY <2>1, <2>2, SetMovesOne
<1>2. ASSUME NEW r \in scene.slots, NEW a \in scene.traffic, Arrive(r, a)
      PROVE  r \in Requests /\ Enters(r)
  <2>1. r \in Requests
    BY TrafficAssumption DEF RequestsOK
  <2>2. PICK q : q = [pc |-> IF InternalOnly(a) THEN "not-found" ELSE "bearer", arrival |-> a,
                      tenant |-> NoTenant, err |-> NoError, window |-> 0, alive |-> Good(a)]
    OBVIOUS
  <2>3. q.pc \in {"bearer", "not-found"} /\ Set(r, q)
    BY <1>2, <2>2 DEF Arrive
  <2>4. OnlyMover(r) /\ reqs'[r] = q
    BY <2>1, <2>3, SetMovesOne
  <2>5. reqs[r].pc \notin Underway /\ UNCHANGED <<now, hits, windows, admitted, uncounted>>
    BY <1>2 DEF Arrive, Answers, Underway
  <2> QED BY <2>1, <2>3, <2>4, <2>5 DEF Enters
<1>3. ASSUME StillAlive
      PROVE  \A r \in Requests : Stays(r)
  <2> SUFFICES ASSUME NEW r \in Requests PROVE Stays(r)
    OBVIOUS
  <2>1. CASE reqs[r] = Idle
    BY <1>3, <2>1 DEF StillAlive, Stays, Idle
  <2>2. CASE reqs[r] # Idle
    <3>1. reqs[r] \in ReqType
      BY <2>2 DEF RequestsOK
    <3>2. \E b : reqs'[r] = [reqs[r] EXCEPT !.alive = b]
      BY <1>3, <2>2 DEF StillAlive
    <3> QED BY <3>1, <3>2 DEF Stays, ReqType
  <2> QED BY <2>1, <2>2
<1>4. ASSUME UNCHANGED reqs
      PROVE  \A r \in Requests : Stays(r)
  BY <1>4 DEF Stays
<1>5. CASE ChangeKeys
  <2>1. StillAlive /\ UNCHANGED <<now, hits, windows, admitted, uncounted>>
    BY <1>5 DEF ChangeKeys, Beside, Issue, Revoke, revokeByPrefix, KeyOps
  <2> QED BY <1>3, <2>1 DEF Quiet
<1>6. CASE ChangeTenants
  <2>1. StillAlive /\ UNCHANGED <<now, hits, windows, admitted, uncounted>>
    BY <1>6 DEF ChangeTenants, Beside, setDisabled
  <2> QED BY <1>3, <2>1 DEF Quiet
<1>7. CASE Background
  BY <1>4, <1>7 DEF Background, Beside, FinishTouch, Purge, Quiet
<1>8. CASE Tick
  BY <1>4, <1>8 DEF Tick, gateVars, Quiet
<1>9. CASE Sessions \/ UNCHANGED vars
  BY <1>4, <1>9 DEF Sessions, vars, gateVars, Quiet
<1> QED BY <1>1, <1>2, <1>5, <1>6, <1>7, <1>8, <1>9 DEF Next

\* Where each step takes its request, and that nothing else of it changes but the lookup's answer.
LEMMA StepTo ==
  ASSUME RequestsOK, NEW r \in Requests, Step(r), reqs[r].pc # "idle"
  PROVE  /\ reqs'[r].arrival = reqs[r].arrival
         /\ ~RateLimit(r) => reqs'[r].pc # "bump"
         /\ reqs'[r].pc = "record" => FailureLimiter(r) /\ ~blocked(reqs[r].arrival.peer)
<1>1. reqs[r] \in ReqType
  BY NotIdle
<1>2. ASSUME NEW q, Set(r, q) PROVE reqs'[r] = q
  BY <1>2, SetMovesOne
<1>3. ASSUME NEW pc, To(r, pc) PROVE reqs'[r].arrival = reqs[r].arrival /\ reqs'[r].pc = pc
  BY <1>1, <1>2, <1>3 DEF To, ReqType
<1>4. ASSUME NEW err, Failed(r, err) PROVE reqs'[r].arrival = reqs[r].arrival /\ reqs'[r].pc = "limit"
  BY <1>1, <1>2, <1>4 DEF Failed, ReqType
<1>5. ASSUME NEW t, Resolved(r, t) PROVE reqs'[r].arrival = reqs[r].arrival /\ reqs'[r].pc = "limit"
  BY <1>1, <1>2, <1>5 DEF Resolved, ReqType
<1>6. Claims(r) => reqs'[r].arrival = reqs[r].arrival /\ reqs'[r].pc = "limit"
  BY <1>4, <1>5 DEF Claims
<1>7. CASE Bearer(r)
  <2>1. ASSUME NEW t, Set(r, [reqs[r] EXCEPT !.pc = "verify", !.tenant = t])
        PROVE  reqs'[r].arrival = reqs[r].arrival /\ reqs'[r].pc = "verify"
    BY <1>1, <1>2, <2>1 DEF ReqType
  <2> QED BY <1>4, <1>5, <1>7, <2>1 DEF Bearer
<1>8. CASE verifier(r) \/ discover(r)
  BY <1>3, <1>4, <1>6, <1>8 DEF verifier, discover
<1>9. CASE FailureLimiter(r)
  BY <1>3, <1>9 DEF FailureLimiter
<1>10. CASE record(r) \/ Bump(r) \/ Required(r)
  <2>1. \E pc \in {"rate", "serve", "limited", "served", "unauthenticated"} : To(r, pc)
    BY <1>10 DEF record, Bump, Required
  <2> QED BY <1>3, <2>1
<1>11. CASE RateLimit(r)
  <2>1. CASE To(r, "serve")
    BY <1>3, <2>1
  <2>2. ASSUME NEW w, Set(r, [reqs[r] EXCEPT !.pc = "bump", !.window = w])
        PROVE  reqs'[r].arrival = reqs[r].arrival /\ reqs'[r].pc = "bump"
    BY <1>1, <1>2, <2>2 DEF ReqType
  <2> QED BY <1>11, <2>1, <2>2 DEF RateLimit
<1> QED BY <1>7, <1>8, <1>9, <1>10, <1>11 DEF Step

Rows == Tenants \X Spans

\* The counter of a window that may still be counted in is never behind what was let
\* through; a window that a request waits to count itself in is not yet purged.
BudgetInv ==
  /\ windows \in [Rows -> Nat] /\ admitted \in [Rows -> Nat] /\ uncounted \in [Rows -> Nat]
  /\ \A r \in Requests : At(r, "bump") => reqs[r].window >= now - Hour
  /\ \A x \in Rows :
       /\ admitted[x] =< RatePerMinute + uncounted[x]
       /\ x[2] >= now - Hour => admitted[x] =< windows[x] + uncounted[x]

\* Counting one up in a row.
LEMMA CountUp ==
  ASSUME NEW f \in [Rows -> Nat], NEW x, NEW g, g = [f EXCEPT ![x] = @ + 1]
  PROVE  /\ g \in [Rows -> Nat]
         /\ \A y \in Rows : f[y] \in Nat /\ g[y] = IF y = x THEN f[y] + 1 ELSE f[y]
<1>1. \A y \in Rows : f[y] \in Nat /\ g[y] = IF y = x THEN f[y] + 1 ELSE f[y]
  OBVIOUS
<1>2. \A y \in Rows : g[y] \in Nat
  BY <1>1
<1>3. g = [y \in Rows |-> g[y]]
  OBVIOUS
<1>4. g \in [Rows -> Nat]
  BY <1>2, <1>3
<1> QED BY <1>1, <1>4

LEMMA BudgetStarts == Init => BudgetInv
<1> SUFFICES ASSUME Init PROVE BudgetInv
  OBVIOUS
<1>1. /\ windows = [x \in Rows |-> 0] /\ admitted = windows /\ uncounted = windows
      /\ reqs = [r \in Requests |-> Idle]
  BY DEF Init, Rows
<1>2. \A r \in Requests : ~At(r, "bump")
  BY <1>1 DEF At, Idle
<1> QED BY <1>1, <1>2, GateAssumption DEF BudgetInv

LEMMA WindowIsNow ==
  ASSUME now \in Nat PROVE now - (now % Minute) \in Int /\ now - (now % Minute) >= now - Hour
<1>1. now % Minute \in 0 .. Minute - 1
  BY GateAssumption
<1> QED BY <1>1, GateAssumption

LEMMA BudgetStep ==
  ASSUME DirectoryOK, RequestsOK, BudgetInv, [Next]_vars
  PROVE  BudgetInv'
<1>0. /\ now \in Nat /\ Hour \in Nat /\ RatePerMinute \in Nat
      /\ \A x \in Rows : x[2] \in Int
  BY GateAssumption, TimesAssumption DEF DirectoryOK, Rows, Spans
<1>1. CASE Quiet
  <2>1. \A r \in Requests : At(r, "bump")' => At(r, "bump") /\ reqs'[r].window = reqs[r].window
    BY <1>1 DEF Quiet, Stays, At
  <2>2. CASE UNCHANGED <<now, windows>>
    BY <1>1, <2>1, <2>2 DEF Quiet, BudgetInv
  <2>3. CASE UNCHANGED now /\ PurgeTenantRateWindows
    <3>1. /\ windows' \in [Rows -> Nat]
          /\ \A x \in Rows : x[2] >= now - Hour => windows'[x] = windows[x]
      BY <1>0, <2>3 DEF PurgeTenantRateWindows, BudgetInv
    <3> QED BY <1>1, <2>1, <2>3, <3>1 DEF Quiet, BudgetInv
  <2>4. CASE Tick /\ UNCHANGED windows
    <3>1. now' = now + 1 /\ \A r \in Requests : At(r, "bump") => now' - Hour <= reqs[r].window
      BY <2>4 DEF Tick
    <3>2. \A x \in Rows : x[2] >= now' - Hour => x[2] >= now - Hour
      BY <1>0, <3>1
    <3>3. \A r \in Requests : At(r, "bump") => reqs[r].window \in Int
      BY NotIdle DEF At, ReqType
    <3>4. \A r \in Requests : At(r, "bump")' => reqs'[r].window >= now' - Hour
      BY <1>0, <2>1, <3>1, <3>3
    <3> QED BY <1>1, <2>4, <3>2, <3>4 DEF Quiet, BudgetInv
  <2>5. CASE Tick /\ UNCHANGED now
    BY <1>0, <2>5 DEF Tick
  <2> QED BY <1>1, <2>2, <2>3, <2>4, <2>5 DEF Quiet
<1>2. ASSUME NEW r \in Requests, Step(r), OnlyMover(r), UNCHANGED now
      PROVE  BudgetInv'
  <2>1. \A s \in Requests \ {r} : At(s, "bump")' => At(s, "bump") /\ reqs'[s].window = reqs[s].window
    BY <1>2 DEF OnlyMover, Stays, At
  <2>2. ASSUME reqs'[r].pc = "bump" => reqs'[r].window >= now - Hour, UNCHANGED <<windows, admitted, uncounted>>
        PROVE  BudgetInv'
    BY <1>2, <2>1, <2>2 DEF BudgetInv, At
  <2>3. CASE RateLimit(r)
    <3>1. PICK w : w = now - (now % Minute)
      OBVIOUS
    <3>2. reqs[r] \in ReqType
      BY <2>3, NotIdle DEF RateLimit, At
    <3>3. \/ reqs'[r].pc = "serve"
          \/ reqs'[r].window = w
      <4>1. CASE To(r, "serve")
        <5>1. reqs'[r] = [reqs[r] EXCEPT !.pc = "serve"]
          BY <4>1, SetMovesOne DEF To
        <5> QED BY <3>2, <5>1 DEF ReqType
      <4>2. CASE Set(r, [reqs[r] EXCEPT !.pc = "bump", !.window = w])
        <5>1. reqs'[r] = [reqs[r] EXCEPT !.pc = "bump", !.window = w]
          BY <4>2, SetMovesOne
        <5> QED BY <3>2, <5>1 DEF ReqType
      <4> QED BY <2>3, <3>1, <4>1, <4>2 DEF RateLimit
    <3> QED BY <1>0, <2>2, <2>3, <3>1, <3>3, WindowIsNow DEF RateLimit
  <2>4. CASE Bump(r)
    <3>1. PICK x : x = <<reqs[r].tenant, reqs[r].window>>
      OBVIOUS
    <3>2. reqs[r] \in ReqType /\ reqs[r].pc = "bump" /\ reqs[r].window >= now - Hour
      BY <2>4, NotIdle DEF Bump, At, BudgetInv
    <3>3. reqs'[r].pc # "bump"
      BY <2>4, <3>2 DEF Bump, To, Set, RequestsOK, ReqType
    <3>4. \A s \in Requests : At(s, "bump")' => reqs'[s].window >= now - Hour
      BY <2>1, <3>3 DEF At, BudgetInv
    <3>5. x \in Rows => x[2] >= now - Hour
      BY <3>1, <3>2 DEF Rows
    <3>6. CASE BumpTenantRateWindow(x) /\ windows'[x] <= RatePerMinute
               /\ admitted' = [admitted EXCEPT ![x] = @ + 1] /\ UNCHANGED uncounted
      <4>1. \A y \in Rows : y # x => windows'[y] = windows[y] /\ admitted'[y] = admitted[y]
        BY <3>6 DEF BudgetInv, BumpTenantRateWindow
      <4>2. x \in Rows => windows'[x] = windows[x] + 1 /\ admitted'[x] = admitted[x] + 1
        BY <3>6 DEF BudgetInv, BumpTenantRateWindow
      <4>3. windows' \in [Rows -> Nat] /\ admitted' \in [Rows -> Nat] /\ uncounted' \in [Rows -> Nat]
        BY <3>6, CountUp DEF BudgetInv, BumpTenantRateWindow
      <4>4. ASSUME NEW y \in Rows
            PROVE  /\ admitted'[y] =< RatePerMinute + uncounted'[y]
                   /\ y[2] >= now - Hour => admitted'[y] =< windows'[y] + uncounted'[y]
        <5>1. /\ admitted[y] \in Nat /\ uncounted[y] \in Nat /\ windows[y] \in Nat /\ uncounted'[y] = uncounted[y]
              /\ admitted[y] =< RatePerMinute + uncounted[y]
              /\ y[2] >= now - Hour => admitted[y] =< windows[y] + uncounted[y]
          BY <3>6 DEF BudgetInv
        <5>2. CASE y = x
          BY <1>0, <3>5, <3>6, <4>2, <5>1, <5>2
        <5>3. CASE y # x
          BY <4>1, <5>1, <5>3
        <5> QED BY <5>2, <5>3
      <4> QED BY <1>2, <3>4, <4>3, <4>4 DEF BudgetInv
    <3>7. CASE BumpTenantRateWindow(x) /\ UNCHANGED <<admitted, uncounted>>
      <4>0. /\ windows' \in [Rows -> Nat]
            /\ \A y \in Rows : windows[y] \in Nat /\ windows'[y] = IF y = x THEN windows[y] + 1 ELSE windows[y]
        BY <3>7, CountUp DEF BudgetInv, BumpTenantRateWindow
      <4>1. \A y \in Rows : windows[y] =< windows'[y] /\ windows[y] \in Nat /\ windows'[y] \in Nat
        BY <4>0
      <4>2. ASSUME NEW y \in Rows, y[2] >= now - Hour
            PROVE  admitted[y] =< windows'[y] + uncounted[y]
        <5>1. admitted[y] \in Nat /\ uncounted[y] \in Nat /\ admitted[y] =< windows[y] + uncounted[y]
          BY <4>2 DEF BudgetInv
        <5> QED BY <4>1, <5>1
      <4> QED BY <1>2, <3>4, <3>7, <4>0, <4>2 DEF BudgetInv
    <3>8. CASE /\ admitted' = [admitted EXCEPT ![x] = @ + 1] /\ uncounted' = [uncounted EXCEPT ![x] = @ + 1]
               /\ UNCHANGED windows
      <4>1. /\ admitted' \in [Rows -> Nat] /\ uncounted' \in [Rows -> Nat]
            /\ \A y \in Rows : \/ admitted'[y] = admitted[y] /\ uncounted'[y] = uncounted[y]
                               \/ admitted'[y] = admitted[y] + 1 /\ uncounted'[y] = uncounted[y] + 1
        <5>1. admitted' \in [Rows -> Nat] /\ \A y \in Rows : admitted'[y] = IF y = x THEN admitted[y] + 1 ELSE admitted[y]
          BY <3>8, CountUp DEF BudgetInv
        <5>2. uncounted' \in [Rows -> Nat] /\ \A y \in Rows : uncounted'[y] = IF y = x THEN uncounted[y] + 1 ELSE uncounted[y]
          BY <3>8, CountUp DEF BudgetInv
        <5> QED BY <5>1, <5>2
      <4>2. ASSUME NEW y \in Rows
            PROVE  /\ admitted'[y] =< RatePerMinute + uncounted'[y]
                   /\ y[2] >= now - Hour => admitted'[y] =< windows[y] + uncounted'[y]
        <5>1. /\ admitted[y] \in Nat /\ uncounted[y] \in Nat /\ windows[y] \in Nat
              /\ admitted[y] =< RatePerMinute + uncounted[y]
              /\ y[2] >= now - Hour => admitted[y] =< windows[y] + uncounted[y]
          BY DEF BudgetInv
        <5> QED BY <1>0, <4>1, <5>1
      <4> QED BY <1>2, <3>4, <3>8, <4>1, <4>2 DEF BudgetInv
    <3> QED BY <2>4, <3>1, <3>6, <3>7, <3>8 DEF Bump
  <2>5. CASE ~RateLimit(r) /\ ~Bump(r)
    <3>1. UNCHANGED <<windows, admitted, uncounted>>
      BY <1>2, <2>5 DEF Step, Bearer, verifier, discover, FailureLimiter, record, Required
    <3>2. reqs[r].pc # "idle"
      BY <1>2 DEF Step, Bearer, verifier, discover, FailureLimiter, record, RateLimit, Bump, Required, At
    <3>3. reqs[r] \in ReqType
      BY <3>2, NotIdle
    <3>4. reqs'[r].pc # "bump"
      BY <1>2, <2>5, <3>2, StepTo
    <3> QED BY <2>2, <3>1, <3>4
  <2> QED BY <2>3, <2>4, <2>5
<1>3. ASSUME NEW r \in Requests, Enters(r)
      PROVE  BudgetInv'
  <2>1. \A s \in Requests : At(s, "bump")' => At(s, "bump") /\ reqs'[s].window = reqs[s].window
    BY <1>3 DEF Enters, OnlyMover, Stays, At
  <2> QED BY <1>3, <2>1 DEF Enters, BudgetInv
<1>4. CASE Restart
  <2>1. \A s \in Requests : ~At(s, "bump")'
    BY <1>4 DEF Restart, At, Idle
  <2> QED BY <1>4, <2>1 DEF Restart, BudgetInv
<1> QED BY <1>1, <1>2, <1>3, <1>4, GateSteps

\* Whatever processes, restarts, late requests and purges there are, a tenant is never let
\* through more often in a window than its budget and the requests whose counting failed.
THEOREM BudgetIsHeld == Spec => []BudgetHeld
<1>1. BudgetInv => BudgetHeld
  BY DEF BudgetInv, BudgetHeld
<1>2. EntitledInv => RequestsOK
  BY DEF EntitledInv
<1> QED BY <1>1, <1>2, DirectoryStarts, DirectoryStep, TenantsStart, TenantsStep, EntitledStarts, EntitledStep,
           BudgetStarts, BudgetStep, PTL DEF Spec


\* A set of numbers that is not empty has a least member.
LEMMA LeastMember ==
  ASSUME NEW S \in SUBSET Nat, S # {}
  PROVE  \E m \in S : \A n \in S : m <= n
<1> DEFINE Below == {ss \in Nat \X Nat : ss[1] < ss[2]}
<1>1. IsWellFoundedOn(Below, Nat)
  BY NatLessThanWellFounded, Zenon DEF OpToRel
<1> HIDE DEF Below
<1>2. PICK x \in S : \A y \in S : <<y, x>> \notin Below
  BY <1>1, WFMin
<1>3. \A y \in S : ~(y < x)
  BY <1>2 DEF Below
<1> QED BY <1>3

\* recentLocked's walk with the cutoff as an argument, and how many it leaves.
Walk(h, cutoff) == CHOOSE i \in 0 .. Len(h) :
  /\ \A j \in 1 .. i : h[j] < cutoff
  /\ i < Len(h) => h[i + 1] >= cutoff
Left(h, cutoff) == Len(h) - Walk(h, cutoff)

LEMMA WalkStops ==
  ASSUME NEW h \in Seq(Nat), NEW c \in Int
  PROVE  /\ Walk(h, c) \in 0 .. Len(h)
         /\ \A j \in 1 .. Walk(h, c) : h[j] < c
         /\ Walk(h, c) < Len(h) => h[Walk(h, c) + 1] >= c
<1> DEFINE S == {i \in 0 .. Len(h) : i = Len(h) \/ h[i + 1] >= c}
<1>1. Len(h) \in Nat /\ \A j \in 1 .. Len(h) : h[j] \in Nat
  OBVIOUS
<1>2. S \in SUBSET Nat /\ S # {}
  <2>1. Len(h) \in S
    BY <1>1
  <2> QED BY <1>1, <2>1
<1> HIDE DEF S
<1>3. PICK m \in S : \A n \in S : m <= n
  BY <1>2, LeastMember
<1>4. m \in 0 .. Len(h) /\ (m < Len(h) => h[m + 1] >= c)
  BY <1>1, <1>3 DEF S
<1>5. ASSUME NEW j \in 1 .. m PROVE h[j] < c
  <2>1. j - 1 \in 0 .. Len(h) /\ j - 1 < m /\ j \in 1 .. Len(h) /\ (j - 1) + 1 = j /\ j - 1 # Len(h)
    BY <1>1, <1>4
  <2>2. j - 1 \notin S
    BY <1>2, <1>3, <2>1
  <2>3. ~(h[j] >= c)
    BY <2>1, <2>2 DEF S
  <2> QED BY <1>1, <2>1, <2>3
<1>6. \E i \in 0 .. Len(h) : (\A j \in 1 .. i : h[j] < c) /\ (i < Len(h) => h[i + 1] >= c)
  BY <1>4, <1>5
<1> QED BY <1>6 DEF Walk

\* A later cutoff leaves no more.
LEMMA WalkLater ==
  ASSUME NEW h \in Seq(Nat), NEW c \in Int, NEW d \in Int, c =< d
  PROVE  Left(h, d) =< Left(h, c)
<1>1. /\ Walk(h, c) \in 0 .. Len(h) /\ \A j \in 1 .. Walk(h, c) : h[j] < c
      /\ Walk(h, d) \in 0 .. Len(h) /\ (Walk(h, d) < Len(h) => h[Walk(h, d) + 1] >= d)
  BY WalkStops
<1>2. Len(h) \in Nat /\ \A j \in 1 .. Len(h) : h[j] \in Nat
  OBVIOUS
<1>3. ~(Walk(h, d) < Walk(h, c))
  <2> SUFFICES ASSUME Walk(h, d) < Walk(h, c) PROVE FALSE
    OBVIOUS
  <2>1. PICK i \in 1 .. Len(h) : i = Walk(h, d) + 1 /\ i \in 1 .. Walk(h, c) /\ Walk(h, d) < Len(h)
    BY <1>1, <1>2
  <2> QED BY <1>1, <1>2, <2>1
<1> QED BY <1>1, <1>2, <1>3 DEF Left

LEMMA RecentIs ==
  ASSUME NEW h \in Seq(Nat), now \in Nat
  PROVE  /\ recentLocked(h) = SubSeq(h, Walk(h, now - Minute) + 1, Len(h))
         /\ recentLocked(h) \in Seq(Nat) /\ Len(recentLocked(h)) = Left(h, now - Minute)
         /\ recentLocked(h) # <<>> => recentLocked(h)[1] >= now - Minute
<1>1. recentLocked(h) = SubSeq(h, Walk(h, now - Minute) + 1, Len(h))
  BY DEF recentLocked, Passed, Walk
<1>2. PICK w : w = Walk(h, now - Minute)
  OBVIOUS
<1>3. w \in 0 .. Len(h) /\ (w < Len(h) => h[w + 1] >= now - Minute)
  <2>1. now - Minute \in Int
    BY GateAssumption
  <2> QED BY <1>2, <2>1, WalkStops
<1>4. /\ SubSeq(h, w + 1, Len(h)) \in Seq(Nat) /\ Len(SubSeq(h, w + 1, Len(h))) = Len(h) - w
      /\ SubSeq(h, w + 1, Len(h)) # <<>> => w < Len(h) /\ SubSeq(h, w + 1, Len(h))[1] = h[w + 1]
  BY <1>3
<1> QED BY <1>1, <1>2, <1>3, <1>4 DEF Left

\* Recording a failure leaves one more than there were.
LEMMA OneMoreLeft ==
  ASSUME NEW h \in Seq(Nat), now \in Nat, NEW g, g = Append(recentLocked(h), now)
  PROVE  g \in Seq(Nat) /\ Left(g, now - Minute) = Left(h, now - Minute) + 1
<1>1. PICK s \in Seq(Nat) : /\ s = recentLocked(h) /\ Len(s) = Left(h, now - Minute)
                            /\ s # <<>> => s[1] >= now - Minute
  BY RecentIs
<1>2. g \in Seq(Nat) /\ Len(g) = Len(s) + 1 /\ g[1] >= now - Minute /\ Len(s) \in Nat /\ g[1] \in Nat
  <2>1. CASE s = <<>>
    BY <1>1, <2>1, GateAssumption
  <2>2. CASE s # <<>>
    BY <1>1, <2>2
  <2> QED BY <2>1, <2>2
<1>3. PICK w : w = Walk(g, now - Minute)
  OBVIOUS
<1>4. now - Minute \in Int /\ w \in 0 .. Len(g) /\ \A j \in 1 .. w : g[j] < now - Minute
  <2>1. now - Minute \in Int
    BY GateAssumption
  <2> QED BY <1>2, <1>3, <2>1, WalkStops
<1>5. w = 0
  <2> SUFFICES ASSUME w # 0 PROVE FALSE
    OBVIOUS
  <2>1. 1 \in 1 .. w
    BY <1>2, <1>4
  <2>2. g[1] < now - Minute
    BY <1>4, <2>1
  <2> QED BY <1>2, <1>4, <2>2
<1> QED BY <1>1, <1>2, <1>3, <1>5 DEF Left


\* The requests that were let past the limiter and have still to record their failure.
Recording(p) == {r \in Requests : reqs[r].pc = "record" /\ reqs[r].arrival.peer = p}

\* What a peer has on record and what is about to be recorded stay within the limit and
\* the other requests in flight.
FailuresInv ==
  /\ hits \in [Peers -> Seq(Nat)]
  /\ \A p \in Peers : Left(hits[p], now - Minute) + Cardinality(Recording(p)) <=
                        FailuresPerMinute + Cardinality(Requests) - 1

LEMMA RecordingFinite ==
  ASSUME NEW p
  PROVE  /\ IsFiniteSet(Recording(p)) /\ Cardinality(Recording(p)) \in Nat
         /\ Cardinality(Requests) \in Nat /\ Cardinality(Recording(p)) <= Cardinality(Requests)
<1>1. Recording(p) \subseteq Requests
  BY DEF Recording
<1> QED BY <1>1, GateAssumption, FS_Subset, FS_CardinalityType

LEMMA NothingLeft == ASSUME NEW c \in Int PROVE Left(<<>>, c) = 0
<1>1. <<>> \in Seq(Nat) /\ Len(<<>>) = 0
  OBVIOUS
<1>2. Walk(<<>>, c) \in 0 .. Len(<<>>)
  BY <1>1, WalkStops
<1> QED BY <1>1, <1>2 DEF Left

LEMMA FailuresStart == Init => FailuresInv
<1> SUFFICES ASSUME Init PROVE FailuresInv
  OBVIOUS
<1>1. now = 1 /\ hits = [p \in Peers |-> <<>>] /\ reqs = [r \in Requests |-> Idle]
  BY DEF Init, DirectoryInit
<1>2. ASSUME NEW p \in Peers
      PROVE  Left(hits[p], now - Minute) + Cardinality(Recording(p)) <=
               FailuresPerMinute + Cardinality(Requests) - 1
  <2>1. Recording(p) = {}
    BY <1>1 DEF Recording, Idle
  <2>2. Cardinality(Recording(p)) = 0
    BY <2>1, FS_EmptySet
  <2>3. hits[p] = <<>> /\ now - Minute \in Int
    BY <1>1, GateAssumption
  <2>4. Left(hits[p], now - Minute) = 0
    BY <2>3, NothingLeft
  <2> QED BY <2>2, <2>4, RecordingFinite, GateAssumption
<1> QED BY <1>1, <1>2 DEF FailuresInv

LEMMA FailuresStep ==
  ASSUME DirectoryOK, RequestsOK, FailuresInv, [Next]_vars
  PROVE  FailuresInv'
<1>0. /\ now \in Nat /\ now - Minute \in Int /\ Minute \in Nat
      /\ FailuresPerMinute \in Nat /\ FailuresPerMinute >= 1
  BY GateAssumption DEF DirectoryOK
<1>1. PICK limit : limit = FailuresPerMinute + Cardinality(Requests) - 1
  OBVIOUS
<1>2. /\ limit \in Nat
      /\ \A p \in Peers : hits[p] \in Seq(Nat) /\ Left(hits[p], now - Minute) \in Nat
                          /\ Left(hits[p], now - Minute) + Cardinality(Recording(p)) <= limit
  <2>1. Cardinality(Requests) \in Nat
    BY GateAssumption, FS_CardinalityType
  <2>2. \A p \in Peers : hits[p] \in Seq(Nat)
    BY DEF FailuresInv
  <2>3. ASSUME NEW p \in Peers PROVE Left(hits[p], now - Minute) \in Nat
    <3>1. Walk(hits[p], now - Minute) \in 0 .. Len(hits[p])
      BY <1>0, <2>2, WalkStops
    <3> QED BY <2>2, <3>1 DEF Left
  <2> QED BY <1>0, <1>1, <2>1, <2>2, <2>3 DEF FailuresInv
<1>3. ASSUME hits' \in [Peers -> Seq(Nat)],
             \A p \in Peers : Left(hits'[p], now' - Minute) + Cardinality(Recording(p)') <= limit
      PROVE  FailuresInv'
  BY <1>1, <1>3 DEF FailuresInv
<1>4. ASSUME UNCHANGED <<now, hits>>, \A p \in Peers : Recording(p)' = Recording(p)
      PROVE  FailuresInv'
  BY <1>2, <1>3, <1>4 DEF FailuresInv
<1>5. ASSUME NEW r \in Requests, OnlyMover(r), NEW p \in Peers
      PROVE  /\ Recording(p)' \ {r} = Recording(p) \ {r}
             /\ r \in Recording(p)' <=> reqs'[r].pc = "record" /\ reqs'[r].arrival.peer = p
  BY <1>5 DEF OnlyMover, Stays, Recording
<1>6. CASE Quiet
  <2>1. \A p \in Peers : Recording(p)' = Recording(p)
    BY <1>6 DEF Quiet, Stays, Recording
  <2>2. UNCHANGED hits /\ (now' = now \/ now' = now + 1)
    BY <1>6 DEF Quiet, Tick
  <2>3. ASSUME now' = now + 1 PROVE FailuresInv'
    <3>1. ASSUME NEW p \in Peers
          PROVE  Left(hits'[p], now' - Minute) + Cardinality(Recording(p)') <= limit
      <4>1. now' - Minute \in Int /\ now - Minute =< now' - Minute
        BY <1>0, <2>3
      <4>2. Left(hits[p], now' - Minute) =< Left(hits[p], now - Minute)
        BY <1>0, <1>2, <4>1, WalkLater
      <4>3. Walk(hits[p], now' - Minute) \in 0 .. Len(hits[p])
        BY <1>2, <4>1, WalkStops
      <4>4. Left(hits[p], now' - Minute) \in Nat
        BY <1>2, <4>3 DEF Left
      <4> QED BY <1>2, <2>1, <2>2, <4>2, <4>4, RecordingFinite
    <3> QED BY <1>3, <2>2, <3>1 DEF FailuresInv
  <2> QED BY <1>4, <2>1, <2>2, <2>3
<1>7. ASSUME NEW r \in Requests, Enters(r) PROVE FailuresInv'
  <2>1. reqs[r].pc # "record" /\ reqs'[r].pc # "record" /\ OnlyMover(r) /\ UNCHANGED <<now, hits>>
    BY <1>7 DEF Enters, Underway
  <2>2. \A p \in Peers : Recording(p)' = Recording(p)
    BY <2>1 DEF OnlyMover, Stays, Recording
  <2> QED BY <1>4, <2>1, <2>2
<1>8. CASE Restart
  <2>1. /\ hits' = [p \in Peers |-> <<>>] /\ UNCHANGED now
        /\ \A p \in Peers : Recording(p)' = {}
    BY <1>8 DEF Restart, Recording, Idle
  <2>2. \A p \in Peers : Left(hits'[p], now' - Minute) = 0
    BY <1>0, <2>1, NothingLeft
  <2>3. \A p \in Peers : Cardinality(Recording(p)') = 0
    BY <2>1, FS_EmptySet
  <2>4. hits' \in [Peers -> Seq(Nat)]
    BY <2>1
  <2> QED BY <1>2, <1>3, <2>2, <2>3, <2>4
<1>9. ASSUME NEW r \in Requests, FailureLimiter(r), Step(r), OnlyMover(r), UNCHANGED now
      PROVE  FailuresInv'
  <2>1. reqs[r].pc = "limit" /\ reqs[r] \in ReqType /\ reqs[r].arrival.peer \in Peers
    BY <1>9, NotIdle DEF FailureLimiter, At, ReqType, Arrival
  <2>2. hits' \in [Peers -> Seq(Nat)] /\ \A p \in Peers : Left(hits'[p], now - Minute) =< Left(hits[p], now - Minute)
                                         /\ Left(hits'[p], now - Minute) \in Nat
    <3>1. CASE UNCHANGED hits
      BY <1>2, <3>1 DEF FailuresInv
    <3>2. CASE hits' = [p \in Peers |-> IF recentLocked(hits[p]) = <<>> THEN <<>> ELSE hits[p]]
      <4>1. \A p \in Peers : hits'[p] = <<>> \/ hits'[p] = hits[p]
        BY <3>2
      <4>2. Left(<<>>, now - Minute) = 0
        BY <1>0, NothingLeft
      <4>3. hits' \in [Peers -> Seq(Nat)]
        BY <1>2, <3>2
      <4> QED BY <1>2, <4>1, <4>2, <4>3
    <3> QED BY <1>9, <3>1, <3>2 DEF FailureLimiter, sweepLocked
  <2>3. ASSUME NEW p \in Peers
        PROVE  Left(hits'[p], now' - Minute) + Cardinality(Recording(p)') <= limit
    <3>1. CASE reqs'[r].pc = "record" /\ reqs'[r].arrival.peer = p
      <4>1. ~blocked(p)
        BY <1>9, <2>1, <3>1, StepTo
      <4>2. Left(hits[p], now - Minute) < FailuresPerMinute
        <5>1. Len(recentLocked(hits[p])) = Left(hits[p], now - Minute)
          BY <1>0, <1>2, RecentIs
        <5> QED BY <1>0, <1>2, <4>1, <5>1 DEF blocked
      <4>3. Recording(p)' \subseteq Requests
        BY DEF Recording
      <4>4. Cardinality(Recording(p)') \in Nat /\ Cardinality(Recording(p)') <= Cardinality(Requests)
            /\ Cardinality(Requests) \in Nat
        BY <4>3, GateAssumption, FS_Subset, FS_CardinalityType
      <4> QED BY <1>0, <1>1, <1>2, <1>9, <2>2, <4>2, <4>4
    <3>2. CASE ~(reqs'[r].pc = "record" /\ reqs'[r].arrival.peer = p)
      <4>1. r \notin Recording(p) /\ r \notin Recording(p)'
        BY <1>5, <1>9, <2>1, <3>2 DEF Recording
      <4>2. Recording(p)' = Recording(p)
        BY <1>5, <1>9, <4>1
      <4> QED BY <1>2, <1>9, <2>2, <4>2, RecordingFinite
    <3> QED BY <3>1, <3>2
  <2> QED BY <1>3, <2>2, <2>3
<1>10. ASSUME NEW r \in Requests, record(r), Step(r), OnlyMover(r), UNCHANGED now
       PROVE  FailuresInv'
  <2>1. PICK o : o = reqs[r].arrival.peer
    OBVIOUS
  <2>2. reqs[r].pc = "record" /\ reqs[r] \in ReqType /\ o \in Peers
    BY <1>10, <2>1, NotIdle DEF record, At, ReqType, Arrival
  <2>3. reqs'[r].pc # "record"
    BY <1>10, <2>2, StepTo DEF record, FailureLimiter, At
  <2>4. PICK g : g = Append(recentLocked(hits[o]), now)
    OBVIOUS
  <2>5. hits' = [hits EXCEPT ![o] = g]
    BY <1>10, <2>1, <2>4 DEF record
  <2>6. g \in Seq(Nat) /\ Left(g, now - Minute) = Left(hits[o], now - Minute) + 1
    BY <1>0, <1>2, <2>2, <2>4, OneMoreLeft
  <2>7. hits' \in [Peers -> Seq(Nat)]
    BY <2>5, <2>6 DEF FailuresInv
  <2>8. ASSUME NEW p \in Peers
        PROVE  Left(hits'[p], now' - Minute) + Cardinality(Recording(p)') <= limit
    <3>1. CASE p = o
      <4>1. r \in Recording(p) /\ r \notin Recording(p)'
        BY <1>5, <1>10, <2>1, <2>2, <2>3, <3>1 DEF Recording
      <4>2. Recording(p)' = Recording(p) \ {r}
        BY <1>5, <1>10, <4>1
      <4>3. Cardinality(Recording(p)') = Cardinality(Recording(p)) - 1
        BY <4>1, <4>2, RecordingFinite, FS_RemoveElement
      <4>4. hits'[p] = g
        BY <2>2, <2>5, <3>1 DEF FailuresInv
      <4> QED BY <1>2, <1>10, <2>6, <3>1, <4>3, <4>4, RecordingFinite
    <3>2. CASE p # o
      <4>1. r \notin Recording(p) /\ r \notin Recording(p)'
        BY <1>5, <1>10, <2>1, <2>3, <3>2 DEF Recording
      <4>2. Recording(p)' = Recording(p)
        BY <1>5, <1>10, <4>1
      <4>3. hits'[p] = hits[p]
        BY <2>5, <3>2 DEF FailuresInv
      <4> QED BY <1>2, <1>10, <4>2, <4>3
    <3> QED BY <3>1, <3>2
  <2> QED BY <1>3, <2>7, <2>8
<1>11. ASSUME NEW r \in Requests, ~FailureLimiter(r), ~record(r), Step(r), OnlyMover(r), UNCHANGED now
       PROVE  FailuresInv'
  <2>1. UNCHANGED hits /\ reqs[r].pc # "record" /\ reqs[r].pc # "idle"
    BY <1>11 DEF Step, Bearer, verifier, discover, RateLimit, Bump, Required, At
  <2>2. reqs'[r].pc # "record"
    BY <1>11, <2>1, StepTo
  <2>3. \A p \in Peers : Recording(p)' = Recording(p)
    BY <1>11, <2>1, <2>2 DEF OnlyMover, Stays, Recording
  <2> QED BY <1>4, <1>11, <2>1, <2>3
<1> QED BY <1>6, <1>7, <1>8, <1>9, <1>10, <1>11, GateSteps

\* Check and record are two critical sections, so the limit may be passed; yet a peer never
\* has more recent failures on record than the limit and the other requests in flight.
THEOREM FailuresStayBounded == Spec => []FailuresBounded
<1>1. DirectoryOK /\ FailuresInv => FailuresBounded
  <2> SUFFICES ASSUME DirectoryOK, FailuresInv, NEW p \in Peers
               PROVE  Len(recentLocked(hits[p])) <= FailuresPerMinute + Cardinality(Requests) - 1
    BY DEF FailuresBounded
  <2>1. hits[p] \in Seq(Nat) /\ now \in Nat /\ now - Minute \in Int
    BY GateAssumption DEF DirectoryOK, FailuresInv
  <2>2. Len(recentLocked(hits[p])) = Left(hits[p], now - Minute) /\ Left(hits[p], now - Minute) \in Nat
    BY <2>1, RecentIs
  <2> QED BY <2>2, RecordingFinite, GateAssumption DEF FailuresInv
<1>2. EntitledInv => RequestsOK
  BY DEF EntitledInv
<1> QED BY <1>1, <1>2, DirectoryStarts, DirectoryStep, TenantsStart, TenantsStep, EntitledStarts, EntitledStep,
           FailuresStart, FailuresStep, PTL DEF Spec

=============================================================================
