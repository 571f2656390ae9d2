-------------------------- MODULE MCDisputeService --------------------------
(***************************************************************************)
(* DisputeService with the program's rules table and small sets of         *)
(* requests, each set chosen for one question.                             *)
(***************************************************************************)
EXTENDS DisputeService

MCRegE == [r \in {"US_REG_E"} |-> rules[r]]
MCSepa == [r \in {"EU_SEPA_DIRECT_DEBIT"} |-> rules[r]]
MCCard == [r \in {"EU_PSD2_CARD"} |-> rules[r]]

Request(key, event) ==
  [key |-> key, event |-> event, team |-> "", liability |-> 0, settlement |-> "",
   answered |-> TRUE, override |-> FALSE]

Move(team) == [Request("", "REASSIGNED") EXCEPT !.team = team]

\* A credit races the questionnaire whose answers may raise the risk to HIGH.
MCHold == {Request("k1", "OPEN_INVESTIGATION"), Request("k2", "SEND_QUESTIONNAIRE"),
           Request("k3", "RECEIVE_QUESTIONNAIRE"), Request("k4", "ISSUE_REFUND")}

\* A close is repeated, first with a body that is refused, while an appeal reopens the dispute.
MCRepeat == {Request("k1", "OPEN_INVESTIGATION"), Request("k2", "CLOSE"),
             [Request("k2", "CLOSE") EXCEPT !.settlement = "REFUNDED"],
             Request("k3", "APPEAL")}

\* A credit is repeated while the dispute changes team.
MCPay == {Request("k1", "ISSUE_REFUND"), Request("k2", "CLOSE"), Move("fraud")}

\* The three questions in one run, each on a regime of its own: a request is sent only
\* to a dispute of its regime, the dispute starts with the team "cards", and only the
\* first question is about a risk that is not LOW.
MCRequests == MCHold \cup MCRepeat \cup MCPay
MCScenarios == [r \in DOMAIN MCRegE \cup DOMAIN MCSepa \cup DOMAIN MCCard |-> rules[r]]
MCScenario == [r \in DOMAIN MCScenarios |->
  CASE r = "US_REG_E"     -> MCHold
    [] r = "EU_PSD2_CARD" -> MCRepeat
    [] OTHER              -> MCPay]
MCOneQuestion ==
  db.state # "NONE" =>
    /\ \A q \in Requests : tries[q] > 0 => q \in MCScenario[db.regime]
    /\ db.version = 1 => db.team = "cards"
    /\ db.risk # "LOW" => db.regime = "US_REG_E"

MCFullAddress == {{"EMAIL", "LETTER"}}
=============================================================================
