--------------------------- MODULE MCAwardSpread ----------------------------
(***************************************************************************)
(* AwardApproval for a spread and its two legs, quoted at price 1: a leg   *)
(* is awarded directly, the spread (notional 2) needs an approval.         *)
(***************************************************************************)
EXTENDS AwardApproval, FiniteSets, TLC

CONSTANTS tb, ts, sp1, c1, s1, s2

MCTrades == {tb, ts}
MCSpreads == {sp1}
MCBuyLeg == [sp \in {sp1} |-> tb]
MCSellLeg == [sp \in {sp1} |-> ts]
MCDirection == [r \in {tb, ts, sp1} |-> IF r = tb THEN "BUY" ELSE "SELL"]
MCSessionSymmetry == Permutations({s1, s2})

(* Archiving, KYC withdrawals, rejections beyond the first and quotes      *)
(* rolled back after their insert are explored on one trade RFQ; here      *)
(* they would only multiply the states of the legs.                        *)
MCBound ==
  /\ archived = {}
  /\ kyc = Cps
  /\ Cardinality(rejected) <= 1
  /\ nextQuote = 1 + Cardinality(quotes \cup UNION {tx[s].row : s \in Sessions})
=============================================================================
