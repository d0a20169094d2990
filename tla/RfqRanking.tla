----------------------------- MODULE RfqRanking -----------------------------
(***************************************************************************)
(* The ranking algorithms of backend/app/services/rfq_service.py as they   *)
(* are written: sort, scan, test for ties, take the head.  RfqQuotes says  *)
(* what they are meant to compute; here the two are compared on every      *)
(* table of quotes that a few submissions and rejections can produce.      *)
(*                                                                         *)
(* submit_quote admits one canonical price unit only, so the unit checks   *)
(* of the rankers cannot fail and are left out.                            *)
(***************************************************************************)
EXTENDS RfqQuotes, SequencesExt

CONSTANTS
  Cps,        \* counterparties, numbered in the order of str(counterparty_id)
  Prices,
  Stamps,
  MaxQuotes   \* bound on submissions

ASSUME RankingConstants ==
  Cps \subseteq Nat /\ Prices \subseteq Nat /\ Stamps \subseteq Nat /\ MaxQuotes \in Nat

Trades == {"buy", "sell"}   \* the two legs of one spread

VARIABLES table, nextId     \* active quotes; next row id

On(t) == {q \in table : q.rfq = t}

-----------------------------------------------------------------------------
(* select_latest_quotes_by_counterparty: one pass over the quotes sorted   *)
(* by counterparty and recency, which files the best quote of a            *)
(* counterparty when the next counterparty begins.                         *)

CpThenRecency(p, q) == p.cp < q.cp \/ (p.cp = q.cp /\ Newer(q, p))

ScanLatest(acc, q) ==
  IF acc.best = {} THEN [acc EXCEPT !.best = {q}]
  ELSE IF \E b \in acc.best : b.cp # q.cp
       THEN [latest |-> acc.latest \cup acc.best, best |-> {q}]
  ELSE IF \E b \in acc.best : Newer(q, b) THEN [acc EXCEPT !.best = {q}]
  ELSE acc

(* sorted(...): the elements in an order in which none precedes a smaller one. *)
Sorted(S, Before(_, _)) ==
  CHOOSE s \in SetToSeqs(S) : \A i, j \in DOMAIN s : i < j => ~Before(s[j], s[i])

(* Mutation: the best quote of the last counterparty is never filed. *)
SelectLatestDropsTail(Q) ==
  FoldLeft(ScanLatest, [latest |-> {}, best |-> {}],
           Sorted(Q, CpThenRecency)).latest

SelectLatest(Q) ==
  LET end == FoldLeft(ScanLatest, [latest |-> {}, best |-> {}],
                      Sorted(Q, CpThenRecency))
  IN  end.latest \cup end.best

(* Mutation: the order is the same for buyers and sellers. *)
RankedAscending(direction, entries) ==
  Sorted(entries, LAMBDA x, y : x.value < y.value)

(* sorted(..., reverse = direction is SELL) on the value of an entry. *)
Ranked(direction, entries) ==
  Sorted(entries, LAMBDA x, y : IF direction = "SELL" THEN x.value > y.value
                                      ELSE x.value < y.value)

Values(entries) == {e.value : e \in entries}

Failure(code) == [status |-> code, ranking |-> << >>]
Success(ranking) == [status |-> "SUCCESS", ranking |-> ranking]

(* compute_trade_ranking *)
TradeRanking(direction, Q) ==
  LET entries == {[value |-> q.price, quotes |-> {q}] : q \in SelectLatest(Q)}
  IN  IF entries = {} THEN Failure("no_eligible_quotes")
      ELSE IF Cardinality(Values(entries)) # Cardinality(entries) THEN Failure("tie")
      ELSE Success(Ranked(direction, entries))

(* compute_spread_ranking *)
SpreadRanking(direction, BuyQ, SellQ) ==
  LET buy == SelectLatest(BuyQ)
      sell == SelectLatest(SellQ)
      keys(L) == {q.cp : q \in L}
      of(L, c) == CHOOSE q \in L : q.cp = c
      entries == {[value |-> of(sell, c).price - of(buy, c).price,
                   quotes |-> {of(buy, c), of(sell, c)}] : c \in keys(buy) \cap keys(sell)}
  IN  IF keys(buy) # keys(sell) THEN Failure("incomplete_quotes")
      ELSE IF entries = {} THEN Failure("no_eligible_quotes")
      ELSE IF Cardinality(Values(entries)) # Cardinality(entries) THEN Failure("tie")
      ELSE Success(Ranked(direction, entries))

(* What resolve_awarded_quote takes from a ranking. *)
Awarded(r) == IF r.status # "SUCCESS" THEN {} ELSE Head(r.ranking).quotes

-----------------------------------------------------------------------------
(* The tables of quotes: submissions in any order and with any stamps, and *)
(* rejections in between.                                                  *)

Init == table = {} /\ nextId = 1

Submit(t, c, p, at) ==
  /\ nextId <= MaxQuotes
  /\ table' = table \cup {[id |-> nextId, rfq |-> t, cp |-> c, price |-> p, received |-> at]}
  /\ nextId' = nextId + 1

Reject(q) == table' = table \ {q} /\ UNCHANGED nextId

Next ==
  \/ \E t \in Trades, c \in Cps, p \in Prices, at \in Stamps : Submit(t, c, p, at)
  \/ \E q \in table : Reject(q)

Spec == Init /\ [][Next]_<<table, nextId>>

-----------------------------------------------------------------------------
(* The scan files exactly the newest active quote of each counterparty.    *)
ScanFindsLatest == \A t \in Trades : SelectLatest(On(t)) = LatestQuotes(On(t))

(* A ranking lists each element of a population once, best first. *)
BestFirst(direction, ranking) ==
  \A i, j \in DOMAIN ranking :
    i < j => Better(direction, ranking[i].value, ranking[j].value)

(* The trade ranking awards the winner of RfqQuotes, is a strict order of  *)
(* all the latest quotes, and fails exactly when there is no winner.       *)
TradeRankingSound ==
  \A t \in Trades, d \in {"BUY", "SELL"} :
    LET r == TradeRanking(d, On(t)) IN
    /\ Awarded(r) = TradeWinner(d, On(t))
    /\ BestFirst(d, r.ranking)
    /\ r.status = "SUCCESS" =>
         UNION {r.ranking[i].quotes : i \in DOMAIN r.ranking} = LatestQuotes(On(t))

(* The spread ranking awards the pair RfqQuotes calls the winner, and      *)
(* fails exactly when there is none.                                       *)
SpreadRankingSound ==
  \A d \in {"BUY", "SELL"} :
    LET r == SpreadRanking(d, On("buy"), On("sell")) IN
    /\ Awarded(r) = SpreadWinner(d, On("buy"), On("sell"))
    /\ BestFirst(d, r.ranking)
=============================================================================
