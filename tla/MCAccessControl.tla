-------------------------- MODULE MCAccessControl --------------------------
(* A small tenant: two analysts and a key, two teams, two sets of rows.    *)
EXTENDS AccessControl, TLC

MCRegime == rules["US_REG_E"]

Row(t, role, action, limit) == [team |-> t, role |-> role, action |-> action, limit |-> limit]
Member(t, who, role) == [team |-> t, who |-> who, role |-> role]

MCActions == {"create", "OPEN_INVESTIGATION", "ISSUE_REFUND", "FILE_CHARGEBACK",
              "ACKNOWLEDGE_CHARGEBACK", "WIN_CHARGEBACK", "ISSUE_FINAL_CREDIT",
              "CLOSE", "APPEAL", "reassign", "compose-email", "manage-keys"}

\* Ann leads general and is a junior of fraud, Bob is a junior of general; the
\* second fixture makes Bob the lead of fraud, puts ceilings on the final credit and
\* on creation, routes to fraud and grants, in vain, administration of the tenant.
MCFixtures ==
  {[default |-> "general",
    members |-> {Member("general", "ann", "lead"), Member("fraud", "ann", "junior"),
                 Member("general", "bob", "junior")},
    grants  |-> {Row(t, "junior", a, NoLimit) : t \in {"general", "fraud"},
                   a \in {"create", "OPEN_INVESTIGATION", "ISSUE_FINAL_CREDIT", "compose-email"}}
                \cup {Row(t, "lead", "reassign", NoLimit) : t \in {"general", "fraud"}},
    routing |-> <<>>],
   [default |-> "general",
    members |-> {Member("fraud", "bob", "lead")},
    grants  |-> {Row("fraud", "junior", a, NoLimit) : a \in {"OPEN_INVESTIGATION", "reassign"}}
                \cup {Row("fraud", "junior", "ISSUE_FINAL_CREDIT", 50),
                      Row("fraud", "lead", "ISSUE_FINAL_CREDIT", 500),
                      Row("fraud", "lead", "manage-keys", NoLimit),
                      Row("fraud", "junior", "create", NoLimit),
                      Row("fraud", "lead", "create", 100)},
    routing |-> <<[rail |-> "CARD", reason |-> Unset, min |-> 100, team |-> "fraud"]>>]}

MCTransactions == {[rail |-> "CARD", reason |-> "FRAUD", amount |-> 100]}

\* Memberships move among these rows.
MCMembers == UNION {f.members : f \in MCFixtures} \cup {Member("general", "ann", "junior")}

\* The questions are about these requests, on a dispute in one of these states.
\* The others take the dispute from one question to the next, or leave it alone,
\* and have the service for themselves.
Contended == {"OPEN_INVESTIGATION", "ISSUE_FINAL_CREDIT", "reassign"}
Questions == {"INITIATED", "CHARGEBACK_WON"}

InFlight == {q \in Requests : req[q] # Idle}

Contention == Contended \cup {"create", "compose-email", "manage-keys"}

MCAsks ==
  LET ask(p, action) == {[p |-> p, action |-> action, to |-> to] :
        to \in IF action = "reassign" THEN {"general", "fraud"} ELSE {"NONE"}}
  IN UNION {ask(p, action) : p \in {"ann", "bob"}, action \in Contention}
       \cup UNION {ask("key", action) : action \in MCActions \ (Contention \ {"create", "ISSUE_FINAL_CREDIT"})}

Asked(r) ==
  IF r.action \in Contention THEN dispute.state \in Questions \cup {"NONE"}
  ELSE /\ Apply(Regime, dispute.state, dispute.appeals, r.action) # {}
       /\ r.action = "CLOSE" => dispute.state = "FINAL_CREDIT_ISSUED"

MCQuiet ==
  /\ access.members \subseteq MCMembers
  /\ changes = 0 => Cardinality(access.members) = 3
  /\ changes > 0 => dispute.state \in Questions \cup {"NONE", "INVESTIGATING", "FINAL_CREDIT_ISSUED"}
  /\ \A q \in InFlight : Asked(req[q])
  /\ Cardinality(InFlight) + changes + dispute.appeals =< 3
  /\ Cardinality(InFlight) > 1 =>
       dispute.state \in Questions /\ \A q \in InFlight : req[q].action \in Contended

MCSymmetry == Permutations(Requests)
=============================================================================
