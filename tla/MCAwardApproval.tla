-------------------------- MODULE MCAwardApproval ---------------------------
(***************************************************************************)
(* AwardApproval for one trade RFQ that sells: price 1 is within the       *)
(* threshold, price 2 needs an approval and outbids it.                    *)
(***************************************************************************)
EXTENDS AwardApproval

CONSTANTS t1, c1, c2, s1

MCTrades == {t1}
MCSpreads == {}
MCLeg == [sp \in {} |-> t1]
MCDirection == [r \in {t1} |-> "SELL"]
MCCps == {c1, c2}
MCOneSession == {s1}
=============================================================================
