-------------------------- MODULE TenantDirectory --------------------------
(***************************************************************************)
(* Tenants and their keys: what the sign-in directory, the credential      *)
(* lookups and the key store read, and the ways a key or a tenant is       *)
(* opened and closed: the tenant's own administrator through the API, the  *)
(* operator through the tenantkey and tenant commands.                     *)
(*                                                                         *)
(* A key's secret, hash and id are one value here: the hash is unique.     *)
(* Its prefix is not.  A tenant's issuer is its identity provider's realm. *)
(***************************************************************************)
EXTENDS Integers, FiniteSets

CONSTANTS Tenants, KeyIds, Prefixes,
  Realm,         \* each tenant's issuer; the column is unique
  SeedKeys,      \* the keys at the start
  TouchEvery,    \* least time between two writes of a key's last use
  IdleLimit,     \* audit: unused for longer than this
  MaxTime

NoTime == 0 \* an empty timestamp; the clock starts at one

Issuers == {Realm[t] : t \in Tenants}

VARIABLES
  now,
  tenants,  \* per tenant its issuer and whether it is disabled
  keys,     \* rows of tenant_keys
  touched,  \* per key the last recorded use, in the process's memory
  writes,   \* keys whose last-use write is on its way
  lastUse,  \* history: when each key was last accepted
  lost      \* history: keys for which a last-use write was lost

directory == <<tenants, keys, touched, writes, lastUse, lost>>

KeyRow == [id : KeyIds, tenant : Tenants, prefix : Prefixes, created : Nat, expires : Nat,
           revoked : BOOLEAN, used : Nat]

ASSUME SeedAssumption ==
  /\ SeedKeys \subseteq KeyRow
  /\ \A a, b \in SeedKeys : a.id = b.id => a = b
ASSUME TimesAssumption == MaxTime \in Nat /\ TouchEvery \in Nat /\ IdleLimit \in Nat

DirectoryInit ==
  /\ now = 1
  /\ tenants = [t \in Tenants |-> [issuer |-> Realm[t], disabled |-> FALSE]]
  /\ keys = SeedKeys
  /\ touched = [k \in KeyIds |-> NoTime] /\ lastUse = [k \in KeyIds |-> NoTime]
  /\ writes = {} /\ lost = {}

-----------------------------------------------------------------------------
(* The statements *)

Update(rows, new(_)) == keys' = (keys \ rows) \cup {new(r) : r \in rows}

GetTenantByTenantKeyHash_Fault(id) ==
  {k \in keys : k.id = id /\ ~k.revoked /\ ~tenants[k.tenant].disabled}
GetTenantByTenantKeyHash(id) ==
  {k \in keys : /\ k.id = id /\ ~k.revoked /\ (k.expires = NoTime \/ k.expires > now)
                /\ ~tenants[k.tenant].disabled}

GetTenantByIssuer(issuer) == {t \in Tenants : tenants[t].issuer = issuer /\ ~tenants[t].disabled}

ListTenantsForDiscovery == {t \in Tenants : ~tenants[t].disabled}

FindTenantKeysByPrefix(prefix) == {k \in keys : k.prefix = prefix}

GetTenantKeyForTenant(id, t) == {k \in keys : k.id = id /\ k.tenant = t}

InsertTenantKey(id, t, prefix, expires) ==
  keys' = keys \cup {[id |-> id, tenant |-> t, prefix |-> prefix, created |-> now,
                      expires |-> expires, revoked |-> FALSE, used |-> NoTime]}

RevokeTenantKey(id) ==
  Update({k \in keys : k.id = id /\ ~k.revoked}, LAMBDA k : [k EXCEPT !.revoked = TRUE])

RevokeTenantKeyForTenant(id, t) ==
  Update({k \in keys : k.id = id /\ k.tenant = t /\ ~k.revoked}, LAMBDA k : [k EXCEPT !.revoked = TRUE])

TouchTenantKey(id) == Update({k \in keys : k.id = id}, LAMBDA k : [k EXCEPT !.used = now])

SetTenantDisabled(t, disabled) == tenants' = [tenants EXCEPT ![t].disabled = disabled]

-----------------------------------------------------------------------------
(* Keys in use *)

\* touch: at most one write per key and interval, off the request path.
touch_Fault(id) ==
  /\ touched' = [touched EXCEPT ![id] = now]
  /\ writes' = IF touched[id] # NoTime /\ now - touched[id] < TouchEvery THEN writes ELSE writes \cup {id}
touch(id) ==
  IF touched[id] # NoTime /\ now - touched[id] < TouchEvery THEN UNCHANGED <<touched, writes>>
  ELSE /\ touched' = [touched EXCEPT ![id] = now]
       /\ writes' = writes \cup {id}

\* An accepted lookup: the key's tenant is the caller's, and its use is recorded.
KeyForHash(k) ==
  /\ touch(k.id)
  /\ lastUse' = [lastUse EXCEPT ![k.id] = now]
  /\ lost' = lost \ (writes' \ writes)
  /\ UNCHANGED <<tenants, keys>>

\* The background write, which nobody waits for: it lands or it does not.
FinishTouch(id) ==
  /\ id \in writes
  /\ writes' = writes \ {id}
  /\ \/ TouchTenantKey(id) /\ UNCHANGED lost
     \/ lost' = lost \cup {id} /\ UNCHANGED keys
  /\ UNCHANGED <<now, tenants, touched, lastUse>>

Status(k) ==
  IF k.revoked THEN "revoked"
  ELSE IF k.expires # NoTime /\ k.expires <= now THEN "expired"
  ELSE "live"

\* audit: the live keys unused for longer than the limit.
auditIdle == {k \in keys : Status(k) = "live" /\ now - (IF k.used = NoTime THEN k.created ELSE k.used) > IdleLimit}

-----------------------------------------------------------------------------
(* Keys and tenants opened and closed *)

KeyOps == UNCHANGED <<now, tenants, touched, writes, lastUse, lost>>

FreshKey(id) == \A k \in keys : k.id # id

\* CreateTenantKey by the tenant's administrator and `tenantkey create` by the operator
\* ask the same of the expiry and write the same row.
Issue(id, t, prefix, expires) ==
  /\ FreshKey(id)
  /\ expires = NoTime \/ expires > now
  /\ InsertTenantKey(id, t, prefix, expires)
  /\ KeyOps

\* RevokeTenantKey by the administrator of t; another tenant's key is not found.
Revoke(t, id) ==
  /\ GetTenantKeyForTenant(id, t) # {}
  /\ RevokeTenantKeyForTenant(id, t)
  /\ KeyOps

\* `tenantkey revoke --prefix`: only where it names one unrevoked key.
revokeByPrefix(prefix) ==
  LET live == {k \in FindTenantKeysByPrefix(prefix) : ~k.revoked}
  IN /\ Cardinality(live) = 1
     /\ \E k \in live : RevokeTenantKey(k.id)
     /\ KeyOps

setDisabled(t, disabled) ==
  /\ SetTenantDisabled(t, disabled)
  /\ UNCHANGED <<now, keys, touched, writes, lastUse, lost>>

-----------------------------------------------------------------------------
(* Property *)

\* A key the audit calls unused was last accepted more than the limit ago, give or take
\* the interval in which uses are not written, whatever the order of requests, background
\* writes and restarts; unless a background write was lost or is still on its way.
IdleKeysAreIdle ==
  \A k \in auditIdle :
    k.id \notin writes \cup lost => now - lastUse[k.id] > IdleLimit - TouchEvery
=============================================================================
