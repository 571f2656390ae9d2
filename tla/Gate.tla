------------------------------- MODULE Gate -------------------------------
(***************************************************************************)
(* What a request passes before a handler runs, in the order cmd/api puts  *)
(* it together: the internal network, the credential, the limit on failed  *)
(* credentials, the service key, the tenant's budget, and what the         *)
(* operation requires.  Requests interleave at every access to the         *)
(* database, the identity provider or a lock; meanwhile keys and tenants   *)
(* open and close, time passes and the process may restart.  Browser       *)
(* sessions run beside them.                                               *)
(*                                                                         *)
(* A scene says which requests arrive and what else happens in a           *)
(* behaviour, so that one question's state space is not multiplied by      *)
(* another's.                                                              *)
(***************************************************************************)
EXTENDS WebSessions, Sequences

CONSTANTS
  Requests,        \* requests in flight at once
  Peers, Inside,   \* peer addresses, and the ones on the internal network
  Scenes,          \* [traffic, also: what else happens, slots: requests, most: arrivals, until: time]
  Minute, Hour,    \* in ticks of the clock
  FailuresPerMinute, RatePerMinute

ASSUME GateAssumption ==
  /\ Minute \in Nat \ {0} /\ Hour \in Nat /\ Hour >= Minute
  /\ FailuresPerMinute \in Nat \ {0} /\ RatePerMinute \in Nat \ {0}
  /\ IsFiniteSet(Requests)

VARIABLES
  scene,
  reqs,       \* requests in flight, and their answers
  arrivals,
  verifiers,  \* issuers whose keys the process has fetched
  mutex,      \* the request that holds the verifiers' lock
  hits,       \* per peer when its failures were recorded, in memory
  lastSweep,
  windows,    \* rows of tenant_rate_windows
  admitted,   \* history: requests let through per tenant and window
  uncounted   \* history: the ones among them whose count failed

Free == "free"
NoTenant == "nobody"
NoError == "none"
Spans == {w \in 0 .. MaxTime : w % Minute = 0}

gateVars == <<reqs, arrivals, verifiers, mutex, hits, lastSweep, windows, admitted, uncounted>>
vars == <<now, directory, sessionVars, scene, gateVars>>

\* A credential: none, an Authorization header that is no bearer token, a key, or a token
\* with its issuer, whether its signature, expiry and audience are good, the tenant it
\* claims and whether it names a subject.
Arrival == [peer : Peers, class : {"public", "internal", "tenant"}, service : BOOLEAN,
            kind : {"none", "other", "key", "token"}, key : KeyIds, issuer : Issuers,
            good : BOOLEAN, claims : Tenants \cup {NoTenant}, names : BOOLEAN]

ASSUME TrafficAssumption ==
  \A s \in Scenes : s.traffic \subseteq Arrival /\ s.slots \subseteq Requests

\* arrival \in scene.traffic; err is NoError or what Bearer recorded; alive is a history: whether
\* the credential was good at some moment since the request arrived.
Idle == [pc |-> "idle"]
Answers == {"served", "not-found", "unauthenticated", "blocked", "limited"}

Init ==
  /\ DirectoryInit /\ SessionsInit
  /\ scene \in Scenes
  /\ reqs = [r \in Requests |-> Idle] /\ arrivals = 0
  /\ verifiers = {} /\ mutex = Free
  /\ hits = [p \in Peers |-> <<>>] /\ lastSweep = 1
  /\ windows = [x \in Tenants \X Spans |-> 0]
  /\ admitted = windows /\ uncounted = windows

-----------------------------------------------------------------------------
(* Credentials *)

\* What an administrator sees of a credential: the reference for what the lookups accept.
Good(a) ==
  \/ a.kind = "key" /\ \E k \in keys : k.id = a.key /\ Status(k) = "live" /\ ~tenants[k.tenant].disabled
  \/ /\ a.kind = "token" /\ a.good /\ a.names
     /\ \E t \in Tenants : tenants[t].issuer = a.issuer /\ ~tenants[t].disabled /\ a.claims \in {t, NoTenant}

At(r, pc) == reqs[r].pc = pc
Set(r, new) == reqs' = [reqs EXCEPT ![r] = new]
To(r, pc) == Set(r, [reqs[r] EXCEPT !.pc = pc])

\* InternalOnly: the internal surface is not there for peers outside.
InternalOnly(a) == a.class = "internal" /\ a.peer \notin Inside

Arrive(r, a) ==
  /\ reqs[r].pc \in Answers \cup {"idle"}
  /\ arrivals < scene.most /\ arrivals' = arrivals + 1
  /\ Set(r, [pc |-> IF InternalOnly(a) THEN "not-found" ELSE "bearer", arrival |-> a,
             tenant |-> NoTenant, err |-> NoError, window |-> 0, alive |-> Good(a)])
  /\ UNCHANGED <<now, directory, sessionVars, verifiers, mutex, hits, lastSweep, windows, admitted, uncounted>>

Failed(r, err) == Set(r, [reqs[r] EXCEPT !.pc = "limit", !.err = err, !.tenant = NoTenant])
Resolved(r, t) == Set(r, [reqs[r] EXCEPT !.pc = "limit", !.tenant = t])

\* Bearer up to its first answer from the database.
Bearer(r) ==
  LET a == reqs[r].arrival
      found == GetTenantByTenantKeyHash(a.key)
      realm == GetTenantByIssuer(a.issuer)
  IN /\ At(r, "bearer")
     /\ \/ a.kind \in {"none", "other"} /\ Failed(r, "unauthenticated") /\ UNCHANGED directory
        \/ a.kind \in {"key", "token"} /\ Failed(r, "unavailable") /\ UNCHANGED directory \* the lookup failed
        \/ a.kind = "key" /\ found = {} /\ Failed(r, "unauthenticated") /\ UNCHANGED directory
        \/ a.kind = "key" /\ \E k \in found : KeyForHash(k) /\ Resolved(r, k.tenant)
        \/ a.kind = "token" /\ realm = {} /\ Failed(r, "unauthenticated") /\ UNCHANGED directory
        \/ /\ a.kind = "token" /\ \E t \in realm : Set(r, [reqs[r] EXCEPT !.pc = "verify", !.tenant = t])
           /\ UNCHANGED directory
     /\ UNCHANGED <<now, sessionVars, arrivals, verifiers, mutex, hits, lastSweep, windows, admitted, uncounted>>

\* The token itself, and the claims that must not disagree with the issuer's tenant.
Claims(r) ==
  LET a == reqs[r].arrival
  IN IF a.good /\ a.claims \in {reqs[r].tenant, NoTenant} /\ a.names
     THEN Resolved(r, reqs[r].tenant) ELSE Failed(r, "unauthenticated")

\* verifier: under the lock, from memory or from the identity provider.
verifier(r) ==
  /\ At(r, "verify") /\ mutex = Free
  /\ \/ reqs[r].arrival.issuer \in verifiers /\ Claims(r) /\ UNCHANGED mutex
     \/ reqs[r].arrival.issuer \notin verifiers /\ To(r, "discover") /\ mutex' = r
  /\ UNCHANGED <<now, directory, sessionVars, arrivals, verifiers, hits, lastSweep, windows, admitted, uncounted>>

discover_Fault(r) ==
  /\ At(r, "discover")
  /\ \/ Claims(r) /\ verifiers' = verifiers \cup {reqs[r].arrival.issuer} /\ mutex' = Free
     \/ Failed(r, "unavailable") /\ UNCHANGED <<verifiers, mutex>>
  /\ UNCHANGED <<now, directory, sessionVars, arrivals, hits, lastSweep, windows, admitted, uncounted>>
discover(r) ==
  /\ At(r, "discover") /\ mutex' = Free
  /\ \/ Claims(r) /\ verifiers' = verifiers \cup {reqs[r].arrival.issuer}
     \/ Failed(r, "unavailable") /\ UNCHANGED verifiers
  /\ UNCHANGED <<now, directory, sessionVars, arrivals, hits, lastSweep, windows, admitted, uncounted>>

-----------------------------------------------------------------------------
(* The limit on failures *)

\* recentLocked walks past the failures of more than a minute ago, and stops at the first
\* that is not.
Passed(h) == CHOOSE i \in 0 .. Len(h) :
  /\ \A j \in 1 .. i : h[j] < now - Minute
  /\ i < Len(h) => h[i + 1] >= now - Minute
recentLocked(h) == SubSeq(h, Passed(h) + 1, Len(h))

\* sweepLocked: once a minute, peers without a recent failure are dropped.
sweepLocked ==
  IF now - lastSweep < Minute THEN UNCHANGED <<hits, lastSweep>>
  ELSE /\ lastSweep' = now
       /\ hits' = [p \in Peers |-> IF recentLocked(hits[p]) = <<>> THEN <<>> ELSE hits[p]]

blocked_Fault(p) == Len(recentLocked(hits[p])) > FailuresPerMinute
blocked(p) == Len(recentLocked(hits[p])) >= FailuresPerMinute

\* Requests without an Authorization header are neither counted nor refused.
FailureLimiter(r) ==
  LET a == reqs[r].arrival
  IN /\ At(r, "limit")
     /\ \/ a.kind = "none" /\ To(r, "rate") /\ UNCHANGED <<hits, lastSweep>>
        \/ /\ a.kind # "none" /\ sweepLocked
           /\ To(r, IF blocked(a.peer) THEN "blocked" ELSE IF reqs[r].err # NoError THEN "record" ELSE "rate")
     /\ UNCHANGED <<now, directory, sessionVars, arrivals, verifiers, mutex, windows, admitted, uncounted>>

record(r) ==
  LET p == reqs[r].arrival.peer
  IN /\ At(r, "record") /\ To(r, "rate")
     /\ hits' = [hits EXCEPT ![p] = Append(recentLocked(@), now)]
     /\ UNCHANGED <<now, directory, sessionVars, arrivals, verifiers, mutex, lastSweep, windows, admitted, uncounted>>

-----------------------------------------------------------------------------
(* The tenant's budget *)

\* The window is taken from the clock, then counted in the database.
RateLimit(r) ==
  /\ At(r, "rate")
  /\ \/ reqs[r].tenant = NoTenant /\ To(r, "serve")
     \/ reqs[r].tenant # NoTenant /\ Set(r, [reqs[r] EXCEPT !.pc = "bump", !.window = now - (now % Minute)])
  /\ UNCHANGED <<now, directory, sessionVars, arrivals, verifiers, mutex, hits, lastSweep, windows, admitted, uncounted>>

BumpTenantRateWindow(x) == windows' = [windows EXCEPT ![x] = @ + 1]

Bump(r) ==
  LET x == <<reqs[r].tenant, reqs[r].window>>
      let == admitted' = [admitted EXCEPT ![x] = @ + 1] /\ To(r, "serve")
  IN /\ At(r, "bump")
     /\ \/ BumpTenantRateWindow(x) /\ windows'[x] <= RatePerMinute /\ let /\ UNCHANGED uncounted
        \/ BumpTenantRateWindow(x) /\ windows'[x] > RatePerMinute /\ To(r, "limited") /\ UNCHANGED <<admitted, uncounted>>
        \/ let /\ uncounted' = [uncounted EXCEPT ![x] = @ + 1] /\ UNCHANGED windows \* the counter failed
     /\ UNCHANGED <<now, directory, sessionVars, arrivals, verifiers, mutex, hits, lastSweep>>

PurgeTenantRateWindows_Fault == windows' = [x \in DOMAIN windows |-> IF x[2] < now THEN 0 ELSE windows[x]]
PurgeTenantRateWindows == windows' = [x \in DOMAIN windows |-> IF x[2] < now - Hour THEN 0 ELSE windows[x]]

Purge ==
  /\ PurgeTenantRateWindows /\ windows' # windows
  /\ UNCHANGED <<now, directory, sessionVars, reqs, arrivals, verifiers, mutex, hits, lastSweep, admitted, uncounted>>

-----------------------------------------------------------------------------
(* The operation *)

\* Required, and what Mount makes of a refusal: always "unauthenticated".
Required(r) ==
  LET a == reqs[r].arrival
      allowed == \/ a.class = "public"
                 \/ a.class = "internal" /\ a.service
                 \/ a.class = "tenant" /\ reqs[r].tenant # NoTenant
  IN /\ At(r, "serve")
     /\ To(r, IF allowed THEN "served" ELSE "unauthenticated")
     /\ UNCHANGED <<now, directory, sessionVars, arrivals, verifiers, mutex, hits, lastSweep, windows, admitted, uncounted>>

-----------------------------------------------------------------------------
(* What else happens *)

\* While a request waits, its credential may become good again; alive remembers that.
StillAlive == reqs' = [r \in Requests |->
  IF reqs[r] = Idle THEN Idle ELSE [reqs[r] EXCEPT !.alive = @ \/ \E a \in {reqs[r].arrival} : Good(a)']]

Beside == UNCHANGED <<sessionVars, arrivals, verifiers, mutex, hits, lastSweep, windows, admitted, uncounted>>

ChangeKeys ==
  /\ "keys" \in scene.also
  /\ \/ \E id \in KeyIds, t \in Tenants, p \in Prefixes, e \in {NoTime, now + 1} : Issue(id, t, p, e)
     \/ \E id \in KeyIds, t \in Tenants : Revoke(t, id)
     \/ \E p \in Prefixes : revokeByPrefix(p)
  /\ StillAlive /\ Beside

ChangeTenants ==
  /\ "tenants" \in scene.also
  /\ \E t \in Tenants, disabled \in BOOLEAN : setDisabled(t, disabled)
  /\ StillAlive /\ Beside

Background ==
  \/ "touches" \in scene.also /\ (\E id \in KeyIds : FinishTouch(id)) /\ UNCHANGED reqs /\ Beside
  \/ "purge" \in scene.also /\ Purge

\* No request takes an hour to count itself: its context ends long before.
Tick ==
  /\ now < scene.until /\ now' = now + 1
  /\ \A r \in Requests : At(r, "bump") => now' - Hour <= reqs[r].window
  /\ UNCHANGED <<directory, sessionVars, gateVars>>

\* The process starts again: what it kept in memory, and its requests, are gone.
Restart ==
  /\ "restart" \in scene.also
  /\ reqs' = [r \in Requests |-> Idle]
  /\ verifiers' = {} /\ mutex' = Free
  /\ hits' = [p \in Peers |-> <<>>] /\ lastSweep' = now
  /\ touched' = [k \in KeyIds |-> NoTime] /\ writes' = {} /\ lost' = lost \cup writes
  /\ UNCHANGED <<now, tenants, keys, lastUse, sessionVars, arrivals, windows, admitted, uncounted>>

Sessions ==
  /\ "sessions" \in scene.also
  /\ SessionStep
  /\ UNCHANGED <<now, directory, gateVars>>

Step(r) ==
  \/ Bearer(r) \/ verifier(r) \/ discover(r)
  \/ FailureLimiter(r) \/ record(r) \/ RateLimit(r) \/ Bump(r) \/ Required(r)

Next ==
  /\ \/ \E r \in Requests : Step(r)
     \/ \E r \in scene.slots, a \in scene.traffic : Arrive(r, a)
     \/ ChangeKeys \/ ChangeTenants \/ Background \/ Tick \/ Restart \/ Sessions
  /\ UNCHANGED scene

\* A request's goroutine runs on; a Go mutex goes to those who wait longest; a call to the
\* identity provider ends, with an answer or with its caller's connection.
Fairness == \A r \in Requests :
  /\ WF_vars(Step(r) /\ UNCHANGED scene)
  /\ SF_vars(verifier(r) /\ UNCHANGED scene)

Spec == Init /\ [][Next]_vars /\ Fairness

-----------------------------------------------------------------------------
(* Properties *)

\* docs/operations.md: a disabled tenant's keys and tokens stop "resolving on the next
\* request"; a key shown as revoked or expired (KeyRecord.Status) is dead.  A tenant's
\* operation is served only on a credential that was good at some moment after the request
\* arrived, as that tenant, although tokens are verified with keys kept in memory.
ServedWasAlive ==
  \A r \in Requests : reqs[r].pc = "served" /\ reqs[r].arrival.class = "tenant" =>
    LET a == reqs[r].arrival
    IN /\ reqs[r].alive
       /\ a.kind = "key" => \E k \in keys : k.id = a.key /\ k.tenant = reqs[r].tenant
       /\ a.kind = "token" => tenants[reqs[r].tenant].issuer = a.issuer

\* FailureLimiter: check and record are two critical sections, so a peer may be recorded
\* more often than the limit, but within a minute never by more than the other requests
\* in flight.
FailuresBounded ==
  \A p \in Peers : Len(recentLocked(hits[p])) <= FailuresPerMinute + Cardinality(Requests) - 1

\* ratelimit.Middleware: in a window a tenant gets its budget and no more, save the requests
\* whose counting failed, whichever processes, restarts and purges there are.
BudgetHeld == \A x \in DOMAIN admitted : admitted[x] <= RatePerMinute + uncounted[x]

\* The verifiers' lock is held across the call to the identity provider and every token
\* waits for it; still every request is answered, or gone with its process.
EveryRequestAnswered == \A r \in Requests : (reqs[r].pc = "bearer") ~> (reqs[r].pc \in Answers \cup {"idle"})
=============================================================================
