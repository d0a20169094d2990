----------------------------- MODULE RfqQuotes -----------------------------
(***************************************************************************)
(* What the rankers of backend/app/services/rfq_service.py mean, said      *)
(* without an algorithm.  A quote is a record with at least the fields     *)
(*   id        the row (ids grow in the order rows are inserted, and stand *)
(*             for the (created_at, id) tail of the code's sort key)       *)
(*   rfq, cp   the RFQ quoted and the counterparty quoting                 *)
(*   price     fixed_price_value, in the one canonical unit                *)
(*   received  received_at, as the payload states it                       *)
(* Callers pass quotes that are already filtered to state = active.        *)
(* RfqRanking translates the sort-and-scan code and is checked against     *)
(* these definitions.                                                      *)
(***************************************************************************)
EXTENDS Integers

(* The order (received_at, created_at, id) in which a quote supersedes     *)
(* another of the same counterparty.                                       *)
Newer(p, q) == \/ p.received > q.received
               \/ p.received = q.received /\ p.id > q.id

(* The latest quote of each counterparty that has one. *)
LatestQuotes(Q) == {q \in Q : \A p \in Q \ {q} : p.cp = q.cp => Newer(q, p)}

(* A buyer prefers the lower price (or spread), a seller the higher. *)
Better(direction, a, b) == IF direction = "BUY" THEN a < b ELSE a > b

(* Mutation: superseded quotes are still ranked. *)
TradeWinnerSuperseded(direction, Q) ==
  {q \in Q : \A p \in Q \ {q} : Better(direction, q.price, p.price)}

(***************************************************************************)
(* The winner of a trade RFQ: the empty set when the ranking fails (no     *)
(* quote, or two latest quotes at one price), else one quote.              *)
(***************************************************************************)
TradeWinner(direction, Q) ==
  LET L == LatestQuotes(Q)
      Tie == \E p, q \in L : p # q /\ p.price = q.price
  IN  IF Tie THEN {}
      ELSE {q \in L : \A p \in L \ {q} : Better(direction, q.price, p.price)}

(***************************************************************************)
(* The winners of a spread RFQ, one quote per leg and both of the same     *)
(* counterparty: empty when some counterparty quotes one leg only, when    *)
(* nobody quotes, or when two counterparties offer the same spread.        *)
(***************************************************************************)
SpreadWinner(direction, BuyQ, SellQ) ==
  LET B == LatestQuotes(BuyQ)
      S == LatestQuotes(SellQ)
      Complete == {b.cp : b \in B} = {s.cp : s \in S}
      Pairs == {w \in B \X S : w[1].cp = w[2].cp}
      Value(w) == w[2].price - w[1].price
      Tie == \E v, w \in Pairs : v # w /\ Value(v) = Value(w)
  IN  IF ~Complete \/ Tie THEN {}
      ELSE UNION {{w[1], w[2]} : w \in {w \in Pairs :
                     \A v \in Pairs \ {w} : Better(direction, Value(w), Value(v))}}

(* Some counterparty has a live quote on both legs. *)
CommonCounterparty(BuyQ, SellQ) == \E b \in BuyQ, s \in SellQ : b.cp = s.cp
=============================================================================
