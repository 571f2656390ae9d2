------------------------- MODULE MCDisputeLifecycle -------------------------
(***************************************************************************)
(* DisputeLifecycle with the program's own rules table.  The disputed      *)
(* amount sits one cent above the PSD2 and Regulation E cap and at the cap *)
(* itself, and the liabilities around both bounds CreditAmount checks.     *)
(***************************************************************************)
EXTENDS DisputeLifecycle

MCAmounts == {5000, 5001}
MCLiabilities == {0, 5000, 5001}
MCSettlements == {"", "RECOVERED", "REFUNDED"}
MCRegE == [r \in {"US_REG_E"} |-> rules[r]]
MCAddressBooks == {{}, {"EMAIL", "LETTER"}}
MCFullAddress == {{"EMAIL", "LETTER"}}

\* A dispute starts with the team "cards"; its one change of team, anywhere on its path,
\* is explored for Regulation E, the longest of the lifecycles.
MCMoves ==
  /\ version = 1 => team = "cards"
  /\ Reassigned # {} => regime = "US_REG_E" /\ disputed = 5000 /\ addresses # {}
=============================================================================
