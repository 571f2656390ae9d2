------------------------------- MODULE MCGate -------------------------------
(* Two tenants with a realm and a key each, one spare key id; seven scenes *)
EXTENDS Gate

MCKey(id, t, expires) ==
  [id |-> id, tenant |-> t, prefix |-> "tk", created |-> 1, expires |-> expires, revoked |-> FALSE, used |-> 0]
MCKeys == {MCKey("k1", "A", 0), MCKey("k2", "B", 3)}

MCRealm == [t \in {"A", "B"} |-> IF t = "A" THEN "iA" ELSE "iB"]

MCUsers == {[tenant |-> "A", subject |-> "ann", sid |-> "s1"]}

MCBlank == [peer |-> "out", class |-> "tenant", service |-> FALSE, kind |-> "none", key |-> "k1",
            issuer |-> "iA", good |-> TRUE, claims |-> "nobody", names |-> TRUE]
MCWithKey(k) == [MCBlank EXCEPT !.kind = "key", !.key = k]
MCToken(i) == [MCBlank EXCEPT !.kind = "token", !.issuer = i]
MCInternal == [MCBlank EXCEPT !.class = "internal", !.service = TRUE]

MCScene(traffic, also, slots, most, until) ==
  [traffic |-> traffic, also |-> also, slots |-> slots, most |-> most, until |-> until]

MCSessionScene == {MCScene({}, {"sessions"}, {}, 0, 3)}

MCScenes == MCSessionScene \cup                                              \* browser sessions
  {MCScene({MCWithKey("k1"), MCWithKey("k2")}, {"keys"}, {"r1"}, 1, 3),      \* revoked, expired
   MCScene({MCWithKey("k1")}, {"touches", "restart"}, {"r1"}, 3, 5),         \* last use
   MCScene({MCToken("iA"), MCToken("iB"), [MCToken("iB") EXCEPT !.claims = "A"],
            [MCToken("iB") EXCEPT !.good = FALSE], [MCToken("iB") EXCEPT !.names = FALSE]},
           {"tenants", "restart"}, Requests, 2, 1),                          \* tokens and the lock
   MCScene({MCWithKey("k3"), [MCBlank EXCEPT !.kind = "other"], MCWithKey("k1")}, {},
           Requests, 3, 3),                                                  \* guessing
   MCScene({MCBlank, MCInternal, [MCInternal EXCEPT !.peer = "in"], [MCBlank EXCEPT !.class = "public"],
            [MCInternal EXCEPT !.peer = "in", !.service = FALSE]}, {}, Requests, 2, 1), \* doors
   MCScene({MCWithKey("k1")}, {"purge"}, Requests, 3, 4)}                    \* budget
=============================================================================
