----------------------------- MODULE MCRfqTrade -----------------------------
(***************************************************************************)
(* RfqSessions for one trade RFQ, two counterparties, two prices and two   *)
(* sessions.                                                               *)
(***************************************************************************)
EXTENDS RfqSessions

CONSTANTS t1, c1, c2, s1, s2

MCTrades == {t1}
MCSpreads == {}
MCLeg == [sp \in {} |-> t1]
MCDirection == [r \in {t1} |-> "BUY"]
MCCps == {c1, c2}
MCTwoSessions == {s1, s2}
=============================================================================
