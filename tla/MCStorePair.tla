---------------------------- MODULE MCStorePair ----------------------------
(* Two tenants, two teams; a key, an analyst of one team, the other tenant's key. *)
EXTENDS StorePair

MCRow(id, t, team, opened) ==
  [id |-> id, tenant |-> t, team |-> team, state |-> "INITIATED", version |-> 1, account |-> t, opened |-> opened]

MCSeeds == {MCRow(1, "A", "x", 1), MCRow(2, "A", "y", 1), MCRow(3, "B", "x", 2)}
MCClocks == {[dispute |-> 2, kind |-> "RESOLUTION", cycle |-> 0, due |-> 1, end |-> "open"]}

MCSessions ==
  {[tenant |-> "A", kind |-> "key", subject |-> "k", teams |-> {}],
   [tenant |-> "A", kind |-> "analyst", subject |-> "ann", teams |-> {"x"}],
   [tenant |-> "B", kind |-> "key", subject |-> "k", teams |-> {}]}

(* Time passes where it is looked at; while someone pages through a list, one key writes. *)
MCQuiet ==
  /\ focus \in {"disputes", "books", "risk", "letters", "tenant"} => now = 2
  /\ focus = "listing" /\ tx.open => tx.s.kind = "key" /\ tx.s.tenant = "A" /\ tx.calls <= 2
=============================================================================
