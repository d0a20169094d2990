------------------------ MODULE AwardApproval_proofs ------------------------
(***************************************************************************)
(* Proofs about the life of an RFQ (RfqSessions) and about the gate in     *)
(* front of its award (AwardApproval), for any set of RFQs, spreads,       *)
(* counterparties, prices, approvals and concurrent sessions.              *)
(*                                                                         *)
(* The gate adds no step to the life of an RFQ and spends an approval      *)
(* once.  While no session commits a decision that another commit has      *)
(* overtaken, an RFQ is booked once, on its best offer, and what is booked *)
(* is what was approved.                                                   *)
(***************************************************************************)
EXTENDS AwardApproval, TLAPS


(* A ranking awards quotes it was given, whatever the direction. *)
LEMMA TradeWinnerGiven ==
  ASSUME NEW d, NEW Q PROVE TradeWinner(d, Q) \subseteq Q
  BY DEF TradeWinner, LatestQuotes

(* The winning pair of a spread consists of quotes of its two legs. *)
LEMMA SpreadWinnerGiven ==
  ASSUME NEW d, NEW B, NEW S PROVE SpreadWinner(d, B, S) \subseteq B \cup S
<1>1. LatestQuotes(B) \subseteq B /\ LatestQuotes(S) \subseteq S
  BY DEF LatestQuotes
<1>2. ASSUME NEW P \in SUBSET (LatestQuotes(B) \X LatestQuotes(S))
      PROVE  UNION {{w[1], w[2]} : w \in P} \subseteq B \cup S
  BY <1>1, <1>2
<1> QED
  BY <1>2 DEF SpreadWinner

(* The quotes an award of r would book are active quotes of r itself, or   *)
(* of the legs of the spread r.                                            *)
LEMMA WinnersGiven ==
  ASSUME NEW r \in Rfqs
  PROVE  /\ Winners(r) \subseteq quotes
         /\ r \notin Spreads => \A q \in Winners(r) : q.rfq = r
         /\ r \in Spreads => \A q \in Winners(r) : q.rfq \in Legs(r)
<1>1. CASE r \in Spreads
  <2>1. Winners(r) \subseteq Active(BuyLeg[r]) \cup Active(SellLeg[r])
    BY <1>1, SpreadWinnerGiven DEF Winners
  <2> QED
    BY <1>1, <2>1 DEF Active, Legs
<1>2. CASE r \notin Spreads
  <2>1. Winners(r) \subseteq Active(r)
    BY <1>2, TradeWinnerGiven DEF Winners
  <2> QED
    BY <1>2, <2>1 DEF Active
<1> QED
  BY <1>1, <1>2

(* The empty session is well typed. *)
LEMMA NoTxnTyped == NoTxn \in Txn /\ NoTxn.pc = "idle"
<1>1. (CHOOSE r \in Rfqs : TRUE) \in Rfqs
  BY ConstantsAssumption DEF Rfqs
<1> QED
  BY <1>1 DEF NoTxn, Txn, Steps, States

-----------------------------------------------------------------------------
(* Type correctness, one step per operation. *)
LEMMA TypeStep == TypeOK /\ [Next]_vars => TypeOK'
<1> SUFFICES ASSUME TypeOK, [Next]_vars PROVE TypeOK'
  OBVIOUS
<1> USE NoTxnTyped
<1> USE DEF States, RFQState
<1>0. \A s \in Sessions : tx[s] \in Txn /\ tx[s].rfq \in Rfqs
  BY DEF TypeOK, Txn
<1>1. ASSUME NEW s \in Sessions, NEW r \in Rfqs, Create(s, r) PROVE TypeOK'
  <2>1. [NoTxn EXCEPT !.pc = "dispatching", !.rfq = r, !.seen = "CREATED"] \in Txn
    BY DEF Txn, Steps
  <2>2. tx' \in [Sessions -> Txn]
    BY <1>1, <2>1 DEF TypeOK, Create, Begin
  <2>3. state' \in [Rfqs -> States] /\ trail' \in [Rfqs -> States \cup {"BROKEN"}]
    BY <1>1 DEF TypeOK, Create
  <2> QED
    BY <1>1, <2>2, <2>3 DEF TypeOK, Create
<1>2. ASSUME NEW s \in Sessions, CreateSent(s) PROVE TypeOK'
  BY <1>2, <1>0 DEF TypeOK, tables, CreateSent, Commit, Replay
<1>3. ASSUME NEW s \in Sessions, CreateUnsent(s) PROVE TypeOK'
  BY <1>3, <1>0 DEF TypeOK, tables, CreateUnsent, Commit
<1>4. ASSUME NEW s \in Sessions, NEW r \in Trades, NEW c \in Cps, NEW p \in Prices,
             NEW at \in Stamps, QuoteLoad(s, r, c, p, at) PROVE TypeOK'
  <2> DEFINE q == [id |-> nextQuote, rfq |-> r, cp |-> c, price |-> p, received |-> at]
  <2>1. q \in Quote
    BY DEF TypeOK, Quote
  <2>2. r \in Rfqs /\ state[r] \in States
    BY <1>4 DEF TypeOK, Rfqs
  <2> HIDE DEF q
  <2>3. [NoTxn EXCEPT !.pc = "quoteLoaded", !.rfq = r, !.seen = state[r], !.row = {q}] \in Txn
    BY <2>1, <2>2 DEF Txn, Steps
  <2>4. tx' \in [Sessions -> Txn]
    BY <1>4, <2>3 DEF TypeOK, QuoteLoad, Begin, q
  <2> QED
    BY <1>4, <2>4 DEF TypeOK, QuoteLoad, tables
<1>5. ASSUME NEW s \in Sessions, QuoteFlush(s) PROVE TypeOK'
  <2>1. Promotable(s, tx[s].rfq) \in SUBSET Rfqs
    BY DEF Promotable, Rfqs
  <2>2. [tx[s] EXCEPT !.pc = "quoteFlushed", !.also = Promotable(s, tx[s].rfq)] \in Txn
    BY <1>0, <2>1 DEF Txn, Steps
  <2>3. tx' \in [Sessions -> Txn]
    BY <1>5, <2>2 DEF TypeOK, QuoteFlush
  <2> QED
    BY <1>5, <2>3 DEF TypeOK, QuoteFlush, tables
<1>6. ASSUME NEW s \in Sessions, QuoteCommit(s) PROVE TypeOK'
  BY <1>6, <1>0 DEF TypeOK, tables, QuoteCommit, Commit, Replay, Txn
<1>7. ASSUME NEW s \in Sessions, NEW r \in Rfqs, RejectLoad(s, r) PROVE TypeOK'
  <2>1. [NoTxn EXCEPT !.pc = "closing", !.rfq = r, !.seen = state[r]] \in Txn
    BY DEF TypeOK, Txn, Steps
  <2>2. tx' \in [Sessions -> Txn]
    BY <1>7, <2>1 DEF TypeOK, RejectLoad, Begin
  <2> QED
    BY <1>7, <2>2 DEF TypeOK, RejectLoad, tables
<1>8. ASSUME NEW s \in Sessions, NEW r \in Rfqs, CancelLoad(s, r) PROVE TypeOK'
  <2>1. [NoTxn EXCEPT !.pc = "closing", !.rfq = r, !.seen = state[r]] \in Txn
    BY DEF TypeOK, Txn, Steps
  <2>2. tx' \in [Sessions -> Txn]
    BY <1>8, <2>1 DEF TypeOK, CancelLoad, Begin
  <2> QED
    BY <1>8, <2>2 DEF TypeOK, CancelLoad, tables
<1>9. ASSUME NEW s \in Sessions, CloseCommit(s) PROVE TypeOK'
  BY <1>9, <1>0 DEF TypeOK, tables, CloseCommit, Commit, Replay
<1>10. ASSUME NEW s \in Sessions, NEW r \in Rfqs, NEW q \in quotes, RejectQuoteLoad(s, r, q) PROVE TypeOK'
  <2>1. q \in Quote /\ state[r] \in States
    BY <1>10 DEF TypeOK
  <2>2. [NoTxn EXCEPT !.pc = "rejectLoaded", !.rfq = r, !.seen = state[r], !.row = {q}] \in Txn
    BY <2>1 DEF Txn, Steps
  <2>3. tx' \in [Sessions -> Txn]
    BY <1>10, <2>2 DEF TypeOK, RejectQuoteLoad, Begin
  <2> QED
    BY <1>10, <2>3 DEF TypeOK, RejectQuoteLoad, tables
<1>11. ASSUME NEW s \in Sessions, RejectQuoteCount(s) PROVE TypeOK'
  <2>1. ASSUME NEW A \in SUBSET Rfqs
        PROVE  [tx[s] EXCEPT !.pc = "rejectCounted", !.also = A] \in Txn
    BY <1>0 DEF Txn, Steps
  <2>2. tx' \in [Sessions -> Txn]
    BY <1>0, <1>11, <2>1 DEF TypeOK, RejectQuoteCount
  <2> QED
    BY <1>11, <2>2 DEF TypeOK, RejectQuoteCount, tables
<1>12. ASSUME NEW s \in Sessions, RejectQuoteCommit(s) PROVE TypeOK'
  <2>1. {q.id : q \in tx[s].row} \in SUBSET Nat
    BY <1>0 DEF Txn, Quote
  <2>2. rejected' \in SUBSET Nat /\ tx' \in [Sessions -> Txn]
    BY <1>12, <2>1 DEF TypeOK, RejectQuoteCommit, Commit
  <2>3. state' \in [Rfqs -> States] /\ trail' \in [Rfqs -> States \cup {"BROKEN"}]
    BY <1>12 DEF TypeOK, RejectQuoteCommit, Replay
  <2> QED
    BY <1>12, <2>2, <2>3 DEF TypeOK, RejectQuoteCommit
<1>13. ASSUME NEW s \in Sessions, NEW r \in Rfqs, ArchiveLoad(s, r) PROVE TypeOK'
  <2>1. [NoTxn EXCEPT !.pc = "archiving", !.rfq = r, !.seen = state[r]] \in Txn
    BY DEF TypeOK, Txn, Steps
  <2>2. tx' \in [Sessions -> Txn]
    BY <1>13, <2>1 DEF TypeOK, ArchiveLoad, Begin
  <2> QED
    BY <1>13, <2>2 DEF TypeOK, ArchiveLoad, tables
<1>14. ASSUME NEW s \in Sessions, ArchiveCommit(s) PROVE TypeOK'
  BY <1>14, <1>0 DEF TypeOK, tables, ArchiveCommit, Commit, Replay, Txn
<1>15. ASSUME NEW s \in Sessions, NEW r \in Rfqs, AwardLoad(s, r) PROVE TypeOK'
  BY <1>15, <1>0, WinnersGiven, ZenonT(40) DEF TypeOK, tables, AwardLoad, Begin, Txn, Steps
<1>16. ASSUME NEW s \in Sessions, AwardLock(s) PROVE TypeOK'
  <2>1. Winners(tx[s].rfq) \in SUBSET Quote
    BY <1>0, WinnersGiven DEF TypeOK
  <2>2. [tx[s] EXCEPT !.pc = "awardLocked", !.win = Winners(tx[s].rfq)] \in Txn
    BY <1>0, <2>1 DEF Txn, Steps
  <2>3. tx' \in [Sessions -> Txn]
    BY <1>16, <2>2 DEF TypeOK, AwardLock
  <2> QED
    BY <1>16, <2>3 DEF TypeOK, AwardLock, tables
<1>17. ASSUME NEW s \in Sessions, AwardCommit(s) PROVE TypeOK'
  <2>1. tx[s].win \in SUBSET Quote
    BY <1>0 DEF Txn
  <2>2. Booked(tx[s].win) \in SUBSET Contract
    BY <2>1 DEF TypeOK, Booked, Contract, Quote
  <2>3. contracts' \in SUBSET Contract /\ nextContract' \in Nat
    BY <1>17, <2>2 DEF TypeOK, AwardCommit
  <2>4. state' \in [Rfqs -> States] /\ trail' \in [Rfqs -> States \cup {"BROKEN"}]
    BY <1>17 DEF TypeOK, AwardCommit, Replay
  <2> QED
    BY <1>17, <2>3, <2>4 DEF TypeOK, AwardCommit, Commit
<1>18. ASSUME NEW s \in Sessions, Abort(s) PROVE TypeOK'
  BY <1>18, <1>0 DEF TypeOK, tables, Abort, Commit
<1>19. ASSUME NEW c \in Cps, SetKyc(c) PROVE TypeOK'
  BY <1>19, <1>0 DEF TypeOK, tables, SetKyc
<1>20. CASE UNCHANGED vars
  BY <1>20 DEF TypeOK, vars, tables
<1> QED
  BY <1>1, <1>2, <1>3, <1>4, <1>5, <1>6, <1>7, <1>8, <1>9, <1>10, <1>11, <1>12, <1>13, <1>14, <1>15, <1>16, <1>17, <1>18, <1>19, <1>20 DEF Next, StepBesidesAward

(* The RFQ tables and the sessions' caches stay well typed. *)
THEOREM TypeCorrect == Spec => []TypeOK
<1>1. Init => TypeOK
  BY NoTxnTyped DEF Init, TypeOK, States
<1> QED
  BY <1>1, TypeStep, PTL DEF Spec

-----------------------------------------------------------------------------
(* Locks.  What a session caches that later steps rely on: the quote it    *)
(* inserts is one of its own RFQ, and the quotes it will book are rows of  *)
(* the RFQ it locked, or of the legs of the spread it locked.              *)

OwnRow(s) ==
  tx[s].pc \in {"quoteLoaded", "quoteFlushed"} => \A q \in tx[s].row : q.rfq = tx[s].rfq

OwnWinners(s) ==
  tx[s].pc = "awardLocked" =>
    /\ tx[s].win \subseteq quotes
    /\ tx[s].rfq \notin Spreads => \A q \in tx[s].win : q.rfq = tx[s].rfq
    /\ tx[s].rfq \in Spreads => \A q \in tx[s].win : q.rfq \in Legs(tx[s].rfq)

CitesQuote == \A c \in contracts : c.quote \in quotes /\ c.quote.rfq = c.rfq

Inv ==
  /\ TypeOK
  /\ LocksExclude
  /\ \A s \in Sessions : OwnRow(s)
  /\ \A s \in Sessions : OwnWinners(s)
  /\ CitesQuote

(* How one step changes the cache of one session. *)
LEMMA TxStep ==
  ASSUME TypeOK, [Next]_vars, NEW t \in Sessions
  PROVE  \/ tx'[t] = tx[t]
         \/ QuoteFlush(t)
         \/ AwardLock(t)
         \/ tx'[t].pc = "quoteLoaded" /\ \A q \in tx'[t].row : q.rfq = tx'[t].rfq
         \/ tx'[t].pc \notin {"quoteLoaded", "quoteFlushed", "awardLocked"}
<1> USE NoTxnTyped
<1>0. tx \in [Sessions -> Txn]
  BY DEF TypeOK
<1>2. ASSUME NEW s \in Sessions, Commit(s)
      PROVE  tx'[t] = tx[t] \/ tx'[t].pc = "idle"
  BY <1>0, <1>2 DEF Commit
<1>4. ASSUME NEW s \in Sessions, NEW r \in Rfqs, Create(s, r)
      PROVE  tx'[t] = tx[t] \/ tx'[t].pc = "dispatching"
  BY <1>0, <1>4 DEF Create, Begin, Txn
<1>5. ASSUME NEW s \in Sessions, NEW r \in Trades, NEW c \in Cps, NEW p \in Prices,
             NEW at \in Stamps, QuoteLoad(s, r, c, p, at)
      PROVE  \/ tx'[t] = tx[t]
             \/ tx'[t].pc = "quoteLoaded" /\ \A q \in tx'[t].row : q.rfq = tx'[t].rfq
  BY <1>0, <1>5 DEF QuoteLoad, Begin, Txn
<1>6. ASSUME NEW s \in Sessions, NEW r \in Rfqs, RejectLoad(s, r) \/ CancelLoad(s, r)
      PROVE  tx'[t] = tx[t] \/ tx'[t].pc = "closing"
  BY <1>0, <1>6 DEF RejectLoad, CancelLoad, Begin, Txn
<1>7. ASSUME NEW s \in Sessions, NEW r \in Rfqs, NEW q \in quotes, RejectQuoteLoad(s, r, q)
      PROVE  tx'[t] = tx[t] \/ tx'[t].pc = "rejectLoaded"
  BY <1>0, <1>7 DEF RejectQuoteLoad, Begin, Txn
<1>8. ASSUME NEW s \in Sessions, RejectQuoteCount(s)
      PROVE  tx'[t] = tx[t] \/ tx'[t].pc = "rejectCounted"
  BY <1>0, <1>8 DEF RejectQuoteCount, Txn
<1>9. ASSUME NEW s \in Sessions, NEW r \in Rfqs, ArchiveLoad(s, r)
      PROVE  tx'[t] = tx[t] \/ tx'[t].pc = "archiving"
  BY <1>0, <1>9 DEF ArchiveLoad, Begin, Txn
<1>10. ASSUME NEW s \in Sessions, NEW r \in Rfqs, AwardLoad(s, r)
      PROVE  tx'[t] = tx[t] \/ tx'[t].pc = "awardLoaded"
  BY <1>0, <1>10 DEF AwardLoad, Begin, Txn
<1>11. ASSUME NEW s \in Sessions, QuoteFlush(s) \/ AwardLock(s)
      PROVE  tx'[t] = tx[t] \/ QuoteFlush(t) \/ AwardLock(t)
  BY <1>0, <1>11 DEF QuoteFlush, AwardLock
<1>12. ASSUME NEW c \in Cps, SetKyc(c) PROVE tx'[t] = tx[t]
  BY <1>12 DEF SetKyc
<1>13. CASE UNCHANGED vars
  BY <1>13 DEF vars
<1>14. ASSUME NEW s \in Sessions,
              \/ CreateSent(s) \/ CreateUnsent(s) \/ QuoteCommit(s) \/ CloseCommit(s)
              \/ RejectQuoteCommit(s) \/ ArchiveCommit(s) \/ AwardCommit(s) \/ Abort(s)
       PROVE  Commit(s)
  BY <1>14 DEF CreateSent, CreateUnsent, QuoteCommit, CloseCommit, RejectQuoteCommit,
     ArchiveCommit, AwardCommit, Abort
<1> QED
  BY <1>2, <1>4, <1>5, <1>6, <1>7, <1>8, <1>9, <1>10, <1>11, <1>12, <1>13, <1>14
  DEF Next, StepBesidesAward

(* How one step changes the quotes, the rejections and the contracts. *)
LEMMA TableStep ==
  ASSUME TypeOK, [Next]_vars
  PROVE  /\ \/ quotes' = quotes
            \/ \E s \in Sessions : QuoteCommit(s)
         /\ rejected \subseteq rejected'
         /\ \/ contracts' = contracts
            \/ \E s \in Sessions : AwardCommit(s)
<1>1. ASSUME NEW s \in Sessions, StepBesidesAward(s)
      PROVE  /\ quotes' = quotes \/ QuoteCommit(s)
             /\ rejected \subseteq rejected'
             /\ contracts' = contracts \/ AwardCommit(s)
  BY <1>1 DEF StepBesidesAward, Create, CreateSent, CreateUnsent, QuoteLoad, QuoteFlush,
     QuoteCommit, RejectLoad, CancelLoad, CloseCommit, RejectQuoteLoad, RejectQuoteCount,
     RejectQuoteCommit, ArchiveLoad, ArchiveCommit, AwardLock, AwardCommit, Abort, tables
<1>2. ASSUME NEW s \in Sessions, NEW r \in Rfqs, AwardLoad(s, r)
      PROVE  UNCHANGED <<quotes, rejected, contracts>>
  BY <1>2 DEF AwardLoad, tables
<1>3. ASSUME NEW c \in Cps, SetKyc(c) PROVE UNCHANGED <<quotes, rejected, contracts>>
  BY <1>3 DEF SetKyc
<1>4. CASE UNCHANGED vars
  BY <1>4 DEF vars, tables
<1> QED
  BY <1>1, <1>2, <1>3, <1>4 DEF Next

(* Every step keeps the committed quotes, rejections and contracts, and a  *)
(* new contract cites a committed quote.                                   *)
LEMMA EvidenceStep ==
  ASSUME Inv, [Next]_vars
  PROVE  /\ quotes \subseteq quotes' /\ rejected \subseteq rejected'
         /\ contracts \subseteq contracts' /\ CitesQuote'
<1>0. TypeOK
  BY DEF Inv
<1>1. quotes \subseteq quotes' /\ rejected \subseteq rejected'
  BY <1>0, TableStep DEF QuoteCommit
<1>2. CASE contracts' = contracts
  BY <1>1, <1>2 DEF Inv, CitesQuote
<1>3. ASSUME NEW s \in Sessions, AwardCommit(s)
      PROVE  contracts \subseteq contracts' /\ CitesQuote'
  <2>1. contracts' = contracts \cup Booked(tx[s].win) /\ quotes' = quotes
    BY <1>3 DEF AwardCommit
  <2>2. \A c \in Booked(tx[s].win) : c.quote \in tx[s].win /\ c.quote.rfq = c.rfq
    BY DEF Booked
  <2>3. tx[s].win \subseteq quotes
    BY <1>3 DEF Inv, OwnWinners, AwardCommit
  <2> QED
    BY <2>1, <2>2, <2>3 DEF Inv, CitesQuote
<1> QED
  BY <1>0, <1>1, <1>2, <1>3, TableStep

(* The inductive invariant is preserved by every step. *)
LEMMA InvStep == Inv /\ [Next]_vars => Inv'
<1> SUFFICES ASSUME Inv, [Next]_vars PROVE Inv'
  OBVIOUS
<1>0. TypeOK /\ TypeOK' /\ tx \in [Sessions -> Txn]
  BY TypeStep DEF Inv, TypeOK
<1>1. ASSUME NEW s \in Sessions, QuoteFlush(s)
      PROVE  /\ tx'[s].pc = "quoteFlushed" /\ tx'[s].rfq = tx[s].rfq /\ tx'[s].row = tx[s].row
             /\ \A t \in Sessions \ {s} : tx'[t] = tx[t]
  BY <1>0, <1>1 DEF QuoteFlush, Txn
<1>2. ASSUME NEW s \in Sessions, AwardLock(s)
      PROVE  /\ tx'[s].pc = "awardLocked" /\ tx'[s].rfq = tx[s].rfq
             /\ tx'[s].win = Winners(tx[s].rfq) /\ quotes' = quotes
             /\ \A t \in Sessions \ {s} : tx'[t] = tx[t]
  BY <1>0, <1>2 DEF AwardLock, Txn, tables
<1>3. LocksExclude'
  <2> SUFFICES ASSUME NEW s \in Sessions, NEW t \in Sessions, tx'[s].pc = "awardLocked", s # t,
                      tx'[t].pc \in {"awardLocked", "quoteFlushed"}
               PROVE  tx'[s].rfq # tx'[t].rfq
    BY DEF LocksExclude
  <2>1. CASE AwardLock(s)
    <3>1. tx'[s].rfq = tx[s].rfq /\ tx'[t] = tx[t]
      BY <1>2, <2>1
    <3>2. Lockable(s, tx[s].rfq)
      BY <2>1 DEF AwardLock
    <3> QED
      BY <3>1, <3>2 DEF Lockable, Writable
  <2>2. CASE AwardLock(t)
    <3>1. tx'[t].rfq = tx[t].rfq /\ tx'[s] = tx[s]
      BY <1>2, <2>2
    <3>2. Writable(t, tx[t].rfq)
      BY <2>2 DEF AwardLock, Lockable
    <3> QED
      BY <3>1, <3>2 DEF Writable
  <2>3. CASE QuoteFlush(t)
    <3>1. tx'[t].rfq = tx[t].rfq /\ tx'[s] = tx[s]
      BY <1>1, <2>3
    <3>2. Writable(t, tx[t].rfq)
      BY <2>3 DEF QuoteFlush
    <3> QED
      BY <3>1, <3>2 DEF Writable
  <2>4. CASE tx'[s] = tx[s] /\ tx'[t] = tx[t]
    BY <2>4 DEF Inv, LocksExclude
  <2>5. ~QuoteFlush(s)
    BY <1>1
  <2> QED
    BY <1>0, <2>1, <2>2, <2>3, <2>4, <2>5, TxStep
<1>4. ASSUME NEW s \in Sessions PROVE OwnRow(s)'
  <2>1. CASE QuoteFlush(s)
    BY <1>1, <2>1 DEF Inv, OwnRow, QuoteFlush
  <2>2. CASE AwardLock(s)
    BY <1>2, <2>2 DEF OwnRow
  <2> QED
    BY <1>0, <2>1, <2>2, TxStep DEF Inv, OwnRow
<1>5. ASSUME NEW s \in Sessions PROVE OwnWinners(s)'
  <2>1. quotes \subseteq quotes'
    BY EvidenceStep
  <2>2. CASE AwardLock(s)
    <3>1. tx[s].rfq \in Rfqs
      BY <1>0 DEF Txn
    <3> QED
      BY <1>2, <2>2, <3>1, WinnersGiven DEF OwnWinners
  <2>3. CASE QuoteFlush(s)
    BY <1>1, <2>3 DEF OwnWinners
  <2>4. CASE tx'[s] = tx[s]
    BY <2>1, <2>4 DEF Inv, OwnWinners
  <2> QED
    BY <1>0, <2>2, <2>3, <2>4, TxStep DEF OwnWinners
<1> QED
  BY <1>0, <1>3, <1>4, <1>5, EvidenceStep DEF Inv

(* Hence it holds in every reachable state. *)
LEMMA Invariance == Spec => []Inv
<1>1. Init => Inv
  <2> SUFFICES ASSUME Init PROVE Inv
    OBVIOUS
  <2>1. TypeOK
    BY NoTxnTyped DEF Init, TypeOK, States
  <2>2. \A s \in Sessions : tx[s].pc = "idle"
    BY NoTxnTyped DEF Init
  <2> QED
    BY <2>1, <2>2 DEF Init, Inv, LocksExclude, OwnRow, OwnWinners, CitesQuote
<1> QED
  BY <1>1, InvStep, PTL DEF Spec

(* Two awards of one RFQ, and an award and an uncommitted quote of it,     *)
(* exclude each other whatever the number of sessions.                     *)
THEOREM LocksExcludeHolds == Spec => []LocksExclude
<1>1. Inv => LocksExclude
  BY DEF Inv
<1> QED
  BY <1>1, Invariance, PTL

(* Quotes, rejections and contracts are never taken back, and a contract   *)
(* cites a committed quote of the trade it books.                          *)
THEOREM EvidenceKeptHolds == Spec => EvidenceKept
<1>1. ASSUME Inv, [Next]_vars
      PROVE  [/\ quotes \subseteq quotes'
              /\ rejected \subseteq rejected'
              /\ contracts \subseteq contracts'
              /\ \A c \in contracts' : c.quote \in quotes' /\ c.quote.rfq = c.rfq]_vars
  BY <1>1, EvidenceStep DEF CitesQuote
<1> QED
  BY <1>1, Invariance, PTL DEF Spec, EvidenceKept

(* While the award of a trade holds the row lock no quote slips into the   *)
(* ranking it is about to book; only a rejection can change it.            *)
THEOREM RankingStableHolds == Spec => RankingStableUnderLock
<1>1. ASSUME Inv, [Next]_vars, NEW s \in Sessions, NEW r \in Trades,
             tx[s].pc = "awardLocked", tx[s].rfq = r, rejected' = rejected
      PROVE  Winners(r)' = Winners(r)
  <2>0. TypeOK
    BY <1>1 DEF Inv
  <2>1. ASSUME NEW t \in Sessions, QuoteCommit(t)
        PROVE  {q \in quotes' : q.rfq = r} = {q \in quotes : q.rfq = r}
    <3>1. tx[t].pc = "quoteFlushed" /\ quotes' = quotes \cup tx[t].row
      BY <2>1 DEF QuoteCommit
    <3>2. tx[t].rfq # r
      BY <1>1, <3>1 DEF Inv, LocksExclude
    <3>3. \A q \in tx[t].row : q.rfq # r
      BY <1>1, <3>1, <3>2 DEF Inv, OwnRow
    <3> QED
      BY <3>1, <3>3
  <2>2. {q \in quotes' : q.rfq = r} = {q \in quotes : q.rfq = r}
    BY <1>1, <2>0, <2>1, TableStep
  <2>3. {q \in quotes' : q.rfq = r /\ q.id \notin rejected'}
          = {q \in quotes : q.rfq = r /\ q.id \notin rejected}
    BY <1>1, <2>2
  <2>4. r \notin Spreads
    BY <1>1, ConstantsAssumption
  <2> QED
    BY <2>3, <2>4 DEF Winners, Active
<1>2. ASSUME Inv, [Next]_vars
      PROVE  \A s \in Sessions, r \in Trades :
               tx[s].pc = "awardLocked" /\ tx[s].rfq = r /\ rejected' = rejected
               => Winners(r)' = Winners(r)
  BY <1>1, <1>2
<1> QED
  BY <1>2, Invariance, PTL DEF Spec, RankingStableUnderLock

(* An award of a spread books no leg that is closed when it commits: the   *)
(* leg locks and the re-read of the legs precede the insert.               *)
THEOREM SpreadBooksOpenLegsHolds == Spec => SpreadBooksOpenLegs
<1>1. ASSUME Inv, [Next]_vars, NEW s \in Sessions, NEW c \in contracts' \ contracts,
             tx[s].pc = "awardLocked", tx'[s].pc = "idle", tx[s].rfq \in Spreads
      PROVE  state[c.rfq] # "CLOSED"
  <2>0. TypeOK /\ tx[s].rfq \in Rfqs
    BY <1>1 DEF Inv, TypeOK, Txn
  <2>1. PICK t \in Sessions : AwardCommit(t)
    BY <1>1, <2>0, TableStep
  <2>2. t = s
    <3>1. SUFFICES ASSUME t # s PROVE FALSE
      OBVIOUS
    <3>2. tx'[s] = tx[s]
      BY <2>1, <3>1, <2>0 DEF AwardCommit, Commit, TypeOK
    <3> QED
      BY <1>1, <3>2
  <2>3. c \in Booked(tx[s].win) /\ LegsOpen(s, tx[s].rfq)
    BY <1>1, <2>1, <2>2 DEF AwardCommit
  <2>4. c.rfq \in Legs(tx[s].rfq)
    BY <1>1, <2>0, <2>3 DEF Booked, Inv, OwnWinners, Legs
  <2> QED
    BY <1>1, <2>3, <2>4 DEF LegsOpen
<1>2. ASSUME Inv, [Next]_vars
      PROVE  \A s \in Sessions : \A c \in contracts' \ contracts :
               tx[s].pc = "awardLocked" /\ tx'[s].pc = "idle" /\ tx[s].rfq \in Spreads
               => state[c.rfq] # "CLOSED"
  BY <1>1, <1>2
<1> QED
  BY <1>2, Invariance, PTL DEF Spec, SpreadBooksOpenLegs

-----------------------------------------------------------------------------
(* Commits of decisions that still stand.  SELECT FOR UPDATE does not      *)
(* refresh what a session has loaded, so the properties that follow need   *)
(* CommitsFresh: sessions may overlap in any way, but none commits what    *)
(* another has overtaken.                                                  *)

Quoting(x) == x.pc \in {"quoteLoaded", "quoteFlushed"}

(* What an open session knows of its own work, whatever others commit. *)
Loaded(x) ==
  /\ x.pc = "dispatching" => x.seen = "CREATED"
  /\ Quoting(x) => /\ x.rfq \in Trades /\ x.seen \in {"SENT", "QUOTED"}
                   /\ \E q \in x.row : q.rfq = x.rfq
                   /\ \A q \in x.row : q.id < nextQuote
                   /\ \A q \in x.row, p \in x.row : p = q
  /\ x.pc = "closing" => x.seen # "CLOSED"
  /\ x.pc = "archiving" => x.seen = "CLOSED"
  /\ x.pc \in {"rejectLoaded", "rejectCounted"} =>
       x.seen \in {"SENT", "QUOTED"} /\ \E q : x.row = {q}
  /\ x.pc = "awardLocked" => x.seen = "QUOTED"

(* No two quotes, inserted or about to be, share an id. *)
IdsApart ==
  \A s \in Sessions : Quoting(tx[s]) => \A q \in tx[s].row :
    /\ \A p \in quotes : p.id # q.id
    /\ \A t \in Sessions \ {s} : Quoting(tx[t]) => \A p \in tx[t].row : p.id # q.id

(* What a session about to commit has loaded is still so, and what it      *)
(* decided on it is still right.                                           *)
View(x) ==
  /\ x.seen = state[x.rfq]
  /\ x.pc = "dispatching" => x.seen = "CREATED"
  /\ x.pc = "quoteFlushed" =>
       /\ x.rfq \in Trades /\ x.seen \in {"SENT", "QUOTED"}
       /\ \E q \in x.row : q.rfq = x.rfq /\ q.id < nextQuote
       /\ \A q \in x.row, p \in x.row : p = q
       /\ \A q \in x.row : \A p \in quotes : p.id # q.id
       /\ x.also \subseteq {sp \in Spreads : state[sp] = "SENT"}
  /\ x.pc = "closing" => x.seen # "CLOSED"
  /\ x.pc = "archiving" => x.seen = "CLOSED"
  /\ x.pc = "rejectCounted" =>
       /\ x.seen \in {"SENT", "QUOTED"}
       /\ \E q \in Active(x.rfq) : x.row = {q}
       /\ x.also = IF Active(x.rfq) \subseteq x.row /\ x.seen = "QUOTED" THEN {x.rfq} ELSE {}
  /\ x.pc = "awardLocked" => x.seen = "QUOTED" /\ x.win = Winners(x.rfq)

(* Quote ids are taken from a sequence, and only quotes are rejected. *)
IdsUnique ==
  /\ \A p, q \in quotes : p.id = q.id => p = q
  /\ \A q \in quotes : q.id < nextQuote
  /\ rejected \subseteq {q.id : q \in quotes}

BookedIsClosed == \A c \in contracts : state[c.rfq] = "CLOSED"

TablesSound ==
  /\ IdsUnique
  /\ TrailConnected
  /\ QuotedHasActiveQuote
  /\ BookedIsClosed
  /\ OneContractPerTrade

SoundInv ==
  /\ Inv
  /\ \A s \in Sessions : Loaded(tx[s])
  /\ IdsApart
  /\ TablesSound

(* What each step keeps beside what its own session knows. *)
ClosedStays == \A r \in Rfqs : state[r] = "CLOSED" => state'[r] = "CLOSED"

(* Reading changes no table. *)
LEMMA ReadStep ==
  ASSUME TypeOK, TablesSound, UNCHANGED tables, nextQuote' \in {nextQuote, nextQuote + 1}
  PROVE  TablesSound' /\ ClosedStays
<1>1. UNCHANGED <<state, trail, quotes, rejected, contracts>>
  BY DEF tables
<1>2. IdsUnique'
  <2>1. quotes \subseteq Quote /\ nextQuote \in Nat /\ \A q \in Quote : q.id \in Nat
    BY DEF TypeOK, Quote
  <2>2. \A q \in quotes : q.id < nextQuote'
    BY <2>1 DEF TablesSound, IdsUnique
  <2> QED
    BY <1>1, <2>2 DEF TablesSound, IdsUnique
<1> QED
  BY <1>1, <1>2 DEF TablesSound, TrailConnected, QuotedHasActiveQuote, BookedIsClosed,
                    OneContractPerTrade, ClosedStays, Active

(* A session that has ended has nothing to be wrong about. *)
LEMMA EndedLoaded ==
  ASSUME TypeOK, NEW s \in Sessions, Commit(s)
  PROVE  Loaded(tx[s])'
<1>1. tx'[s] = NoTxn
  BY DEF TypeOK, Commit
<1>2. tx'[s].pc = "idle"
  BY <1>1, NoTxnTyped
<1> QED
  BY <1>2 DEF Loaded, Quoting

(* A fresh commit sees the tables as they are. *)
LEMMA FreshView ==
  ASSUME SoundInv, NEW s \in Sessions, Commits(s), Fresh(s)
  PROVE  View(tx[s])
<1>1. Loaded(tx[s]) /\ IdsApart
  BY DEF SoundInv
<1>2. tx[s].pc \in {"dispatching", "quoteFlushed", "closing", "rejectCounted", "archiving", "awardLocked"}
  BY DEF Commits, CreateSent, QuoteCommit, CloseCommit, RejectQuoteCommit, ArchiveCommit, AwardCommit
<1>3. CASE tx[s].pc = "quoteFlushed"
  <2>1. /\ tx[s].rfq \in Trades /\ tx[s].seen \in {"SENT", "QUOTED"}
        /\ \E q \in tx[s].row : q.rfq = tx[s].rfq /\ q.id < nextQuote
        /\ \A q \in tx[s].row, p \in tx[s].row : p = q
    BY <1>1, <1>3 DEF Loaded, Quoting
  <2>2. \A q \in tx[s].row : \A p \in quotes : p.id # q.id
    BY <1>1, <1>3 DEF IdsApart, Quoting
  <2> QED
    BY <1>3, <2>1, <2>2 DEF View, Fresh
<1>4. CASE tx[s].pc = "rejectCounted"
  <2>1. PICK q : tx[s].row = {q}
    BY <1>1, <1>4 DEF Loaded
  <2>2. q \in Active(tx[s].rfq)
    BY <1>4, <2>1 DEF Fresh
  <2> QED
    BY <1>1, <1>4, <2>1, <2>2 DEF Loaded, View, Fresh
<1>5. CASE tx[s].pc \in {"dispatching", "closing", "archiving", "awardLocked"}
  BY <1>1, <1>5 DEF Loaded, View, Fresh
<1> QED
  BY <1>2, <1>3, <1>4, <1>5

(* A new RFQ starts in CREATED, with an event that says so. *)
LEMMA CreateSound ==
  ASSUME SoundInv, NEW s \in Sessions, NEW r \in Rfqs, Create(s, r)
  PROVE  Loaded(tx[s])' /\ TablesSound' /\ ClosedStays
<1>1. /\ tx[s].pc = "idle" /\ state[r] = "NONE"
      /\ state' = [state EXCEPT ![r] = "CREATED"]
      /\ trail' = [trail EXCEPT ![r] = "CREATED"]
      /\ UNCHANGED <<quotes, rejected, contracts, nextQuote>>
  BY DEF Create
<1>2. TypeOK /\ TablesSound
  BY DEF SoundInv, Inv
<1>3. /\ state \in [Rfqs -> States] /\ trail = state /\ state'[r] = "CREATED"
      /\ \A x \in Rfqs : x # r => state'[x] = state[x]
  BY <1>1, <1>2 DEF TypeOK, TablesSound, TrailConnected
<1>4. Loaded(tx[s])'
  <2>1. CASE UNCHANGED tx
    BY <1>1, <2>1 DEF Loaded, Quoting
  <2>2. CASE tx' = [tx EXCEPT ![s] = [NoTxn EXCEPT !.pc = "dispatching", !.rfq = r, !.seen = "CREATED"]]
    <3>1. tx'[s] = [NoTxn EXCEPT !.pc = "dispatching", !.rfq = r, !.seen = "CREATED"]
      BY <1>2, <2>2 DEF TypeOK
    <3>2. tx'[s].pc = "dispatching" /\ tx'[s].rfq = r /\ tx'[s].seen = "CREATED"
      BY <3>1, NoTxnTyped DEF Txn
    <3> QED
      BY <1>3, <3>2 DEF Loaded, Quoting
  <2> QED
    BY <2>1, <2>2 DEF Create, Begin
<1>5. TablesSound'
  <2>1. IdsUnique' /\ OneContractPerTrade'
    BY <1>1, <1>2 DEF TablesSound, IdsUnique, OneContractPerTrade
  <2>2. TrailConnected'
    BY <1>1, <1>3 DEF TrailConnected
  <2>3. QuotedHasActiveQuote'
    BY <1>1, <1>2, <1>3 DEF TablesSound, QuotedHasActiveQuote, Active, Rfqs
  <2>4. BookedIsClosed'
    <3>1. \A c \in contracts : c.rfq \in Rfqs /\ state[c.rfq] = "CLOSED"
      BY <1>2 DEF TypeOK, TablesSound, BookedIsClosed, Contract, Rfqs
    <3> QED
      BY <3>1, <1>1, <1>3 DEF BookedIsClosed
  <2> QED
    BY <2>1, <2>2, <2>3, <2>4 DEF TablesSound
<1>6. ClosedStays
  BY <1>1, <1>3 DEF ClosedStays
<1> QED
  BY <1>4, <1>5, <1>6

(* A commit that moves x, which is not closed, from the state its event    *)
(* names to another that is not QUOTED.                                    *)
LEMMA MoveCommit ==
  ASSUME SoundInv, NEW x \in Rfqs, NEW to \in States \ {"QUOTED"},
         state[x] # "CLOSED" \/ to = "CLOSED",
         state' = [state EXCEPT ![x] = to], trail' = state',
         UNCHANGED <<quotes, rejected, contracts, nextQuote>>
  PROVE  TablesSound' /\ ClosedStays
<1>1. /\ state \in [Rfqs -> States] /\ state'[x] = to
      /\ \A y \in Rfqs : y # x => state'[y] = state[y]
  BY DEF SoundInv, Inv, TypeOK
<1>2. IdsUnique' /\ OneContractPerTrade' /\ TrailConnected'
  BY DEF SoundInv, TablesSound, IdsUnique, OneContractPerTrade, TrailConnected
<1>3. QuotedHasActiveQuote'
  BY <1>1 DEF SoundInv, TablesSound, QuotedHasActiveQuote, Active, Rfqs
<1>4. BookedIsClosed'
  <2>1. \A c \in contracts : c.rfq \in Rfqs /\ state[c.rfq] = "CLOSED"
    BY DEF SoundInv, Inv, TypeOK, TablesSound, BookedIsClosed, Contract, Rfqs
  <2> QED
    BY <2>1, <1>1 DEF BookedIsClosed
<1>5. ClosedStays
  BY <1>1 DEF ClosedStays
<1> QED
  BY <1>2, <1>3, <1>4, <1>5 DEF TablesSound

(* The first invitation sent moves it to SENT. *)
LEMMA CreateSentSound ==
  ASSUME SoundInv, NEW s \in Sessions, CreateSent(s), View(tx[s])
  PROVE  TablesSound' /\ ClosedStays
<1> DEFINE r == tx[s].rfq
<1>1. TypeOK /\ View(tx[s]) /\ trail = state /\ r \in Rfqs
  BY DEF SoundInv, Inv, TypeOK, Txn, TablesSound, TrailConnected
<1>2. state[r] = "CREATED"
  BY <1>1 DEF View, CreateSent
<1>3. /\ state' = [state EXCEPT ![r] = "SENT"]
      /\ trail' = [trail EXCEPT ![r] = Replay(trail[r], "CREATED", "SENT")]
      /\ UNCHANGED <<quotes, rejected, contracts, nextQuote>>
      /\ Commit(s)
  BY DEF CreateSent
<1>4. trail' = state'
  BY <1>1, <1>2, <1>3 DEF Replay
<1> HIDE DEF r
<1>5. TablesSound' /\ ClosedStays
  BY <1>1, <1>2, <1>3, <1>4, MoveCommit DEF States, RFQState
<1> QED
  BY <1>5

(* A rejected or cancelled RFQ closes from the state its session saw. *)
LEMMA CloseSound ==
  ASSUME SoundInv, NEW s \in Sessions, CloseCommit(s), View(tx[s])
  PROVE  TablesSound' /\ ClosedStays
<1> DEFINE r == tx[s].rfq
<1>1. TypeOK /\ View(tx[s]) /\ trail = state /\ r \in Rfqs
  BY DEF SoundInv, Inv, TypeOK, Txn, TablesSound, TrailConnected
<1>2. state[r] = tx[s].seen
  BY <1>1 DEF View, CloseCommit
<1>3. /\ state' = [state EXCEPT ![r] = "CLOSED"]
      /\ trail' = [trail EXCEPT ![r] = Replay(trail[r], tx[s].seen, "CLOSED")]
      /\ UNCHANGED <<quotes, rejected, contracts, nextQuote>>
      /\ Commit(s)
  BY DEF CloseCommit
<1>4. trail' = state'
  BY <1>1, <1>2, <1>3 DEF Replay
<1> HIDE DEF r
<1>5. TablesSound' /\ ClosedStays
  BY <1>1, <1>3, <1>4, MoveCommit DEF States, RFQState
<1> QED
  BY <1>5

(* Archiving repeats the state of a closed RFQ. *)
LEMMA ArchiveSound ==
  ASSUME SoundInv, NEW s \in Sessions, ArchiveCommit(s), View(tx[s])
  PROVE  TablesSound' /\ ClosedStays
<1> DEFINE r == tx[s].rfq
<1>1. TypeOK /\ View(tx[s]) /\ trail = state /\ r \in Rfqs /\ state \in [Rfqs -> States]
  BY DEF SoundInv, Inv, TypeOK, Txn, TablesSound, TrailConnected
<1>2. state[r] = "CLOSED" /\ tx[s].seen = "CLOSED"
  BY <1>1 DEF View, ArchiveCommit
<1>3. /\ state' = state
      /\ trail' = [trail EXCEPT ![r] = Replay(trail[r], tx[s].seen, tx[s].seen)]
      /\ UNCHANGED <<quotes, rejected, contracts, nextQuote>>
      /\ Commit(s)
  BY DEF ArchiveCommit
<1>4. trail' = state' /\ state' = [state EXCEPT ![r] = "CLOSED"]
  BY <1>1, <1>2, <1>3 DEF Replay
<1> HIDE DEF r
<1>5. TablesSound' /\ ClosedStays
  BY <1>1, <1>3, <1>4, MoveCommit DEF States, RFQState
<1> QED
  BY <1>5

-----------------------------------------------------------------------------
(* Rankings are strict: the head of a trade ranking is one quote ... *)
LEMMA TradeWinnerOne ==
  ASSUME NEW d, NEW Q, \A q \in Q : q.price \in Int,
         NEW p \in TradeWinner(d, Q), NEW q \in TradeWinner(d, Q)
  PROVE  p = q
<1> SUFFICES ASSUME p # q PROVE FALSE
  OBVIOUS
<1>1. p \in Q /\ q \in Q
  BY TradeWinnerGiven
<1>2. Better(d, p.price, q.price) /\ Better(d, q.price, p.price)
  BY DEF TradeWinner
<1>3. p.price \in Int /\ q.price \in Int
  BY <1>1
<1> QED
  BY <1>2, <1>3 DEF Better

(* ... and the head of a spread ranking one pair: the latest quotes of one *)
(* counterparty on the two legs, better than those of any other.           *)
LEMMA SpreadWinnerOne ==
  ASSUME NEW d, NEW B, NEW S, \A q \in B \cup S : q.price \in Int,
         NEW p \in SpreadWinner(d, B, S), NEW q \in SpreadWinner(d, B, S)
  PROVE  \E b \in LatestQuotes(B), s \in LatestQuotes(S) :
           /\ p \in {b, s} /\ q \in {b, s}
           /\ \A x \in LatestQuotes(B), y \in LatestQuotes(S) :
                x.cp = y.cp /\ x.cp # b.cp => Better(d, s.price - b.price, y.price - x.price)
<1> DEFINE LB == LatestQuotes(B)
           LS == LatestQuotes(S)
           Pairs == {w \in LB \X LS : w[1].cp = w[2].cp}
           Value(w) == w[2].price - w[1].price
           Best == {w \in Pairs : \A v \in Pairs \ {w} : Better(d, Value(w), Value(v))}
<1>1. p \in UNION {{w[1], w[2]} : w \in Best} /\ q \in UNION {{w[1], w[2]} : w \in Best}
  BY DEF SpreadWinner
<1>2. LB \subseteq B /\ LS \subseteq S
  BY DEF LatestQuotes
<1> HIDE DEF LB, LS
<1>3. \A w \in Pairs : w[1] \in LB /\ w[2] \in LS /\ w[1].cp = w[2].cp /\ Value(w) \in Int
  BY <1>2
<1>4. ASSUME NEW v \in Best, NEW w \in Best PROVE v = w
  <2> SUFFICES ASSUME v # w PROVE FALSE
    OBVIOUS
  <2>1. v \in Pairs /\ w \in Pairs
    OBVIOUS
  <2>2. Better(d, Value(v), Value(w)) /\ Better(d, Value(w), Value(v))
    BY <2>1
  <2>3. Value(v) \in Int /\ Value(w) \in Int
    BY <1>3, <2>1
  <2> HIDE DEF Value
  <2> QED
    BY <2>2, <2>3 DEF Better
<1>5. ASSUME NEW w \in Best, NEW x \in LB, NEW y \in LS, x.cp = y.cp, x.cp # w[1].cp
      PROVE  Better(d, w[2].price - w[1].price, y.price - x.price)
  <2>1. <<x, y>> \in Pairs /\ <<x, y>>[1] = x /\ <<x, y>>[2] = y
    BY <1>5
  <2>2. <<x, y>> # w
    BY <1>5, <2>1
  <2>3. Better(d, Value(w), Value(<<x, y>>))
    BY <2>1, <2>2
  <2> QED
    BY <2>1, <2>3
<1> HIDE DEF Pairs
<1>6. PICK v \in Best : p \in {v[1], v[2]}
  BY <1>1
<1>7. PICK w \in Best : q \in {w[1], w[2]}
  BY <1>1
<1>8. v = w
  BY <1>4
<1>9. v[1] \in LB /\ v[2] \in LS
  BY <1>3
<1>10. \A x \in LB, y \in LS : x.cp = y.cp /\ x.cp # v[1].cp
          => Better(d, v[2].price - v[1].price, y.price - x.price)
  BY <1>5
<1> QED
  BY <1>6, <1>7, <1>8, <1>9, <1>10 DEF LB, LS

(* A quote of x is priced in whole steps of the canonical unit. *)
LEMMA ActivePriced ==
  ASSUME TypeOK, NEW x, NEW y \in Active(x)
  PROVE  y.price \in Int /\ y.rfq = x
<1>1. y \in Quote /\ y.rfq = x
  BY DEF TypeOK, Active
<1>2. y.price \in Prices
  BY <1>1 DEF Quote
<1>3. \A p \in Prices : p \in Nat
  <2>1. Prices \subseteq Nat \ {0}
    BY ConstantsAssumption
  <2> QED
    BY <2>1
<1> QED
  BY <1>1, <1>2, <1>3

(* So an award books at most one quote of a trade. *)
LEMMA WinnersUnique ==
  ASSUME TypeOK, NEW r \in Rfqs, NEW p \in Winners(r), NEW q \in Winners(r), p.rfq = q.rfq
  PROVE  p = q
<1>1. \A x \in Rfqs : \A y \in Active(x) : y.price \in Int /\ y.rfq = x
  BY ActivePriced
<1>2. CASE r \in Spreads
  <2>1. BuyLeg[r] \in Rfqs /\ SellLeg[r] \in Rfqs /\ BuyLeg[r] # SellLeg[r]
    BY <1>2, ConstantsAssumption DEF Rfqs
  <2>2. /\ p \in SpreadWinner(Direction[r], Active(BuyLeg[r]), Active(SellLeg[r]))
        /\ q \in SpreadWinner(Direction[r], Active(BuyLeg[r]), Active(SellLeg[r]))
    BY <1>2 DEF Winners
  <2>3. PICK b \in LatestQuotes(Active(BuyLeg[r])), s \in LatestQuotes(Active(SellLeg[r])) :
          p \in {b, s} /\ q \in {b, s}
    BY <1>1, <2>1, <2>2, SpreadWinnerOne
  <2>4. b \in Active(BuyLeg[r]) /\ s \in Active(SellLeg[r])
    BY DEF LatestQuotes
  <2> QED
    BY <1>1, <2>1, <2>3, <2>4
<1>3. CASE r \notin Spreads
  <2>1. p \in TradeWinner(Direction[r], Active(r)) /\ q \in TradeWinner(Direction[r], Active(r))
    BY <1>3 DEF Winners
  <2> QED
    BY <1>1, <2>1, TradeWinnerOne
<1> QED
  BY <1>2, <1>3

-----------------------------------------------------------------------------
(* The commits that write quotes, rejections and contracts. *)

(* A quote commits with a new id, and moves its RFQ and the spreads it     *)
(* completes from SENT to QUOTED.                                          *)
LEMMA QuoteSound ==
  ASSUME SoundInv, NEW s \in Sessions, QuoteCommit(s), View(tx[s])
  PROVE  TablesSound' /\ ClosedStays
<1> DEFINE r == tx[s].rfq
           quoted == (IF tx[s].seen = "SENT" THEN {r} ELSE {}) \cup tx[s].also
<1>1. /\ TypeOK /\ TablesSound /\ trail = state /\ state \in [Rfqs -> States]
      /\ quotes \subseteq Quote /\ nextQuote \in Nat
  BY DEF SoundInv, Inv, TypeOK, TablesSound, TrailConnected
<1>2. /\ quotes' = quotes \cup tx[s].row
      /\ state' = [x \in Rfqs |-> IF x \in quoted THEN "QUOTED" ELSE state[x]]
      /\ trail' = [x \in Rfqs |-> IF x \in quoted THEN Replay(trail[x], "SENT", "QUOTED") ELSE trail[x]]
      /\ UNCHANGED <<rejected, contracts, nextQuote>>
      /\ Commit(s)
      /\ tx[s].pc = "quoteFlushed"
  BY DEF QuoteCommit
<1>3. /\ r \in Trades /\ tx[s].seen = state[r] /\ tx[s].seen \in {"SENT", "QUOTED"}
      /\ \A x \in tx[s].also : x \in Spreads /\ state[x] = "SENT"
      /\ \A q \in tx[s].row, p \in tx[s].row : p = q
      /\ \A q \in tx[s].row : \A p \in quotes : p.id # q.id
  BY <1>2 DEF View
<1>4. PICK q \in tx[s].row : q.rfq = r /\ q.id < nextQuote
  BY <1>2 DEF View
<1>5. tx[s].row = {q} /\ quotes' = quotes \cup {q} /\ \A p \in quotes : p.id # q.id
  BY <1>2, <1>3, <1>4
<1>6. \A x \in quoted : state[x] = "SENT"
  BY <1>3
<1> HIDE DEF quoted
<1>7. TrailConnected' /\ ClosedStays
  <2>1. trail' = state'
    BY <1>1, <1>2, <1>6 DEF Replay
  <2>2. \A x \in Rfqs : state[x] = "CLOSED" => x \notin quoted
    BY <1>6
  <2> QED
    BY <1>2, <2>1, <2>2 DEF TrailConnected, ClosedStays
<1>8. IdsUnique'
  BY <1>1, <1>2, <1>4, <1>5 DEF TablesSound, IdsUnique
<1>9. QuotedHasActiveQuote'
  <2> SUFFICES ASSUME NEW x \in Trades, state'[x] = "QUOTED" PROVE Active(x)' # {}
    BY DEF QuotedHasActiveQuote
  <2>1. CASE x = r
    <3>1. q.id \notin rejected
      BY <1>1, <1>5 DEF TablesSound, IdsUnique
    <3> QED
      BY <1>2, <1>4, <1>5, <2>1, <3>1 DEF Active
  <2>2. CASE x # r
    <3>1. x \notin quoted /\ x \in Rfqs
      BY <1>3, <2>2, ConstantsAssumption DEF quoted, Rfqs
    <3>2. Active(x) # {}
      BY <1>1, <1>2, <3>1 DEF TablesSound, QuotedHasActiveQuote
    <3>3. Active(x) \subseteq Active(x)'
      BY <1>2, <1>5 DEF Active
    <3> QED
      BY <3>2, <3>3
  <2> QED
    BY <2>1, <2>2
<1>10. BookedIsClosed'
  <2>1. \A c \in contracts : c.rfq \in Rfqs /\ state[c.rfq] = "CLOSED"
    BY <1>1 DEF TypeOK, TablesSound, BookedIsClosed, Contract, Rfqs
  <2> QED
    BY <2>1, <1>2, <1>7 DEF BookedIsClosed, ClosedStays
<1>11. OneContractPerTrade'
  BY <1>1, <1>2 DEF TablesSound, OneContractPerTrade
<1> QED
  BY <1>1, <1>2, <1>7, <1>8, <1>9, <1>10, <1>11 DEF TablesSound

(* A rejection hides one quote, and reverts its RFQ when it was the last. *)
LEMMA RejectQuoteSound ==
  ASSUME SoundInv, NEW s \in Sessions, RejectQuoteCommit(s), View(tx[s])
  PROVE  TablesSound' /\ ClosedStays
<1> DEFINE r == tx[s].rfq
<1>1. /\ TypeOK /\ TablesSound /\ trail = state /\ state \in [Rfqs -> States]
      /\ r \in Rfqs
  BY DEF SoundInv, Inv, TypeOK, TablesSound, TrailConnected, Txn
<1>2. /\ rejected' = rejected \cup {q.id : q \in tx[s].row}
      /\ state' = [x \in Rfqs |-> IF x \in tx[s].also THEN "SENT" ELSE state[x]]
      /\ trail' = [x \in Rfqs |-> IF x \in tx[s].also THEN Replay(trail[x], "QUOTED", "SENT") ELSE trail[x]]
      /\ UNCHANGED <<quotes, contracts, nextQuote>>
      /\ Commit(s)
      /\ tx[s].pc = "rejectCounted"
  BY DEF RejectQuoteCommit
<1>3. /\ tx[s].seen = state[r]
      /\ tx[s].also = IF Active(r) \subseteq tx[s].row /\ tx[s].seen = "QUOTED" THEN {r} ELSE {}
  BY <1>2 DEF View
<1>4. PICK q \in Active(r) : tx[s].row = {q}
  BY <1>2 DEF View
<1>5. rejected' = rejected \cup {q.id} /\ q \in quotes /\ q.rfq = r
  BY <1>2, <1>4 DEF Active
<1>6. \A x \in tx[s].also : state[x] = "QUOTED" /\ x = r
  BY <1>3
<1>7. TrailConnected' /\ ClosedStays
  <2>1. trail' = state'
    BY <1>1, <1>2, <1>6 DEF Replay
  <2>2. \A x \in Rfqs : state[x] = "CLOSED" => x \notin tx[s].also
    BY <1>6
  <2> QED
    BY <1>2, <2>1, <2>2 DEF TrailConnected, ClosedStays
<1>8. IdsUnique'
  BY <1>1, <1>2, <1>5 DEF TablesSound, IdsUnique
<1>9. QuotedHasActiveQuote'
  <2> SUFFICES ASSUME NEW x \in Trades, state'[x] = "QUOTED" PROVE Active(x)' # {}
    BY DEF QuotedHasActiveQuote
  <2>0. x \in Rfqs /\ x \notin tx[s].also /\ state[x] = "QUOTED"
    BY <1>2 DEF Rfqs
  <2>1. Active(x) # {}
    BY <1>1, <2>0 DEF TablesSound, QuotedHasActiveQuote
  <2>2. CASE x = r
    <3>1. ~(Active(x) \subseteq {q})
      BY <1>3, <1>4, <2>0, <2>2
    <3>2. PICK p \in Active(x) : p # q
      BY <3>1
    <3>3. p.id # q.id /\ p \in quotes /\ p.rfq = x /\ p.id \notin rejected
      BY <1>1, <1>5, <3>2 DEF TablesSound, IdsUnique, Active
    <3> QED
      BY <1>2, <1>5, <3>3 DEF Active
  <2>3. CASE x # r
    <3>1. PICK p \in Active(x) : TRUE
      BY <2>1
    <3>2. p.id # q.id /\ p \in quotes /\ p.rfq = x /\ p.id \notin rejected
      BY <1>1, <1>5, <2>3, <3>1 DEF TablesSound, IdsUnique, Active
    <3> QED
      BY <1>2, <1>5, <3>2 DEF Active
  <2> QED
    BY <2>2, <2>3
<1>10. BookedIsClosed'
  <2>1. \A c \in contracts : c.rfq \in Rfqs /\ state[c.rfq] = "CLOSED"
    BY <1>1 DEF TypeOK, TablesSound, BookedIsClosed, Contract, Rfqs
  <2> QED
    BY <2>1, <1>2, <1>7 DEF BookedIsClosed, ClosedStays
<1>11. OneContractPerTrade'
  BY <1>1, <1>2 DEF TablesSound, OneContractPerTrade
<1> QED
  BY <1>1, <1>2, <1>7, <1>8, <1>9, <1>10, <1>11 DEF TablesSound

(* An award books one quote of each open trade and closes them all. *)
LEMMA AwardSound ==
  ASSUME SoundInv, NEW s \in Sessions, AwardCommit(s), View(tx[s])
  PROVE  TablesSound' /\ ClosedStays
<1> DEFINE r == tx[s].rfq
           legs == IF r \in Spreads THEN Legs(r) ELSE {}
           W == tx[s].win
<1>1. /\ TypeOK /\ TablesSound /\ trail = state /\ state \in [Rfqs -> States]
      /\ r \in Rfqs
  BY DEF SoundInv, Inv, TypeOK, TablesSound, TrailConnected, Txn
<1>2. /\ contracts' = contracts \cup Booked(W)
      /\ state' = [x \in Rfqs |-> IF x \in legs \cup {r} THEN "CLOSED" ELSE state[x]]
      /\ trail' = [x \in Rfqs |-> IF x = r THEN Replay(trail[x], "QUOTED", "CLOSED")
                                  ELSE IF x \in legs THEN Replay(trail[x], state[x], "CLOSED")
                                  ELSE trail[x]]
      /\ UNCHANGED <<quotes, rejected, nextQuote>>
      /\ Commit(s)
      /\ tx[s].pc = "awardLocked"
      /\ LegsOpen(s, r)
  BY DEF AwardCommit
<1>3. tx[s].seen = state[r] /\ state[r] = "QUOTED" /\ W = Winners(r)
  BY <1>2 DEF View
<1>4. \A q \in W : /\ q.rfq \in legs \cup {r} /\ q.rfq \in Rfqs
                   /\ state[q.rfq] # "CLOSED"
  <2>1. CASE r \in Spreads
    <3>1. \A q \in W : q.rfq \in Legs(r)
      BY <1>1, <1>3, <2>1, WinnersGiven
    <3>2. \A x \in Legs(r) : x \in Rfqs /\ state[x] # "CLOSED"
      BY <1>2, <2>1, ConstantsAssumption DEF LegsOpen, Legs, Rfqs
    <3> QED
      BY <2>1, <3>1, <3>2
  <2>2. CASE r \notin Spreads
    <3>1. \A q \in W : q.rfq = r
      BY <1>1, <1>3, <2>2, WinnersGiven
    <3> QED
      BY <1>1, <1>3, <3>1
  <2> QED
    BY <2>1, <2>2
<1>5. \A p, q \in W : p.rfq = q.rfq => p = q
  BY <1>1, <1>3, WinnersUnique
<1> HIDE DEF legs, W
<1>6. TrailConnected' /\ ClosedStays
  BY <1>1, <1>2, <1>3 DEF Replay, TrailConnected, ClosedStays
<1>7. IdsUnique'
  BY <1>1, <1>2 DEF TablesSound, IdsUnique
<1>8. QuotedHasActiveQuote'
  BY <1>1, <1>2 DEF TablesSound, QuotedHasActiveQuote, Active, Rfqs
<1>9. \A c \in Booked(W) : \E q \in W : c.rfq = q.rfq /\ c.quote = q
  BY DEF Booked
<1>10. \A c \in contracts : c.rfq \in Rfqs /\ state[c.rfq] = "CLOSED"
  BY <1>1 DEF TypeOK, TablesSound, BookedIsClosed, Contract, Rfqs
<1>11. BookedIsClosed'
  <2>1. ASSUME NEW c \in contracts PROVE state'[c.rfq] = "CLOSED"
    BY <1>6, <1>10 DEF ClosedStays
  <2>2. ASSUME NEW c \in Booked(W) PROVE state'[c.rfq] = "CLOSED"
    BY <1>2, <1>4, <1>9
  <2> QED
    BY <1>2, <2>1, <2>2 DEF BookedIsClosed
<1>12. OneContractPerTrade'
  <2>1. \A c, d \in contracts : c.rfq = d.rfq => c = d
    BY <1>1 DEF TablesSound, OneContractPerTrade
  <2>2. \A c \in contracts, d \in Booked(W) : c.rfq # d.rfq
    BY <1>4, <1>9, <1>10
  <2>3. ASSUME NEW c \in Booked(W), NEW d \in Booked(W), c.rfq = d.rfq PROVE c = d
    <3> DEFINE C(q) == [id |-> nextContract + (IF \E p \in W : p.rfq # q.rfq /\ p.id < q.id THEN 1 ELSE 0),
                        rfq |-> q.rfq, quote |-> q]
    <3>1. Booked(W) = {C(q) : q \in W} /\ \A q \in W : C(q).rfq = q.rfq
      BY DEF Booked
    <3> HIDE DEF C
    <3>2. PICK p \in W : c = C(p)
      BY <3>1
    <3>3. PICK q \in W : d = C(q)
      BY <3>1
    <3>4. p = q
      BY <1>5, <2>3, <3>1, <3>2, <3>3
    <3> QED
      BY <3>2, <3>3, <3>4
  <2> QED
    BY <1>2, <2>1, <2>2, <2>3 DEF OneContractPerTrade
<1> QED
  BY <1>1, <1>2, <1>6, <1>7, <1>8, <1>11, <1>12 DEF TablesSound

-----------------------------------------------------------------------------
(* The steps that only read. *)

(* The loads of reject, cancel, archive and award. *)
LEMMA SimpleLoad ==
  ASSUME SoundInv, NEW s \in Sessions, NEW r \in Rfqs,
         NEW x, Begin(s, x), x.pc \in {"closing", "archiving", "awardLoaded"},
         x.rfq = r, x.seen = state[r],
         x.pc = "closing" => state[r] # "CLOSED", x.pc = "archiving" => state[r] = "CLOSED",
         UNCHANGED tables, nextQuote' = nextQuote
  PROVE  Loaded(tx[s])' /\ TablesSound' /\ ClosedStays
<1>1. tx'[s] = x /\ state' = state
  BY DEF Begin, SoundInv, Inv, TypeOK, tables
<1>2. Loaded(tx[s])'
  BY <1>1 DEF Loaded, Quoting
<1>3. TablesSound' /\ ClosedStays
  BY ReadStep DEF SoundInv, Inv
<1> QED
  BY <1>2, <1>3

(* The loads of reject, cancel, archive and award as the code has them. *)
LEMMA LoadSound ==
  ASSUME SoundInv, NEW s \in Sessions, NEW r \in Rfqs,
         RejectLoad(s, r) \/ CancelLoad(s, r) \/ ArchiveLoad(s, r) \/ AwardLoad(s, r)
  PROVE  Loaded(tx[s])' /\ TablesSound' /\ ClosedStays
<1>1. CASE RejectLoad(s, r) \/ CancelLoad(s, r)
  <2> DEFINE x == [NoTxn EXCEPT !.pc = "closing", !.rfq = r, !.seen = state[r]]
  <2>1. x.pc = "closing" /\ x.rfq = r /\ x.seen = state[r]
    BY NoTxnTyped DEF Txn
  <2>2. Begin(s, x) /\ UNCHANGED <<tables, nextQuote>> /\ state[r] # "CLOSED"
    BY <1>1 DEF RejectLoad, CancelLoad
  <2> HIDE DEF x
  <2> QED
    BY <2>1, <2>2, SimpleLoad
<1>2. CASE ArchiveLoad(s, r)
  <2> DEFINE x == [NoTxn EXCEPT !.pc = "archiving", !.rfq = r, !.seen = state[r]]
  <2>1. x.pc = "archiving" /\ x.rfq = r /\ x.seen = state[r]
    BY NoTxnTyped DEF Txn
  <2>2. Begin(s, x) /\ UNCHANGED <<tables, nextQuote>> /\ state[r] = "CLOSED"
    BY <1>2 DEF ArchiveLoad
  <2> HIDE DEF x
  <2> QED
    BY <2>1, <2>2, SimpleLoad
<1>3. CASE AwardLoad(s, r)
  <2> DEFINE w == Winners(r)
             x == [NoTxn EXCEPT !.pc = "awardLoaded", !.rfq = r, !.seen = state[r], !.basis = w]
  <2>2. Begin(s, x) /\ UNCHANGED <<tables, nextQuote>>
    BY <1>3 DEF AwardLoad
  <2> HIDE DEF w
  <2>1. x.pc = "awardLoaded" /\ x.rfq = r /\ x.seen = state[r]
    BY NoTxnTyped DEF Txn
  <2> HIDE DEF x
  <2> QED
    BY <2>1, <2>2, SimpleLoad
<1> QED
  BY <1>1, <1>2, <1>3

(* A quote to be inserted takes the next id. *)
LEMMA QuoteLoadSound ==
  ASSUME SoundInv, NEW s \in Sessions, NEW r \in Trades, NEW c \in Cps, NEW p \in Prices,
         NEW at \in Stamps, QuoteLoad(s, r, c, p, at)
  PROVE  Loaded(tx[s])' /\ TablesSound' /\ ClosedStays
<1> DEFINE q == [id |-> nextQuote, rfq |-> r, cp |-> c, price |-> p, received |-> at]
           x == [NoTxn EXCEPT !.pc = "quoteLoaded", !.rfq = r, !.seen = state[r], !.row = {q}]
<1>1. /\ tx' = [tx EXCEPT ![s] = x] /\ state[r] \in {"SENT", "QUOTED"}
      /\ UNCHANGED tables /\ nextQuote' = nextQuote + 1
  BY DEF QuoteLoad, Begin
<1>2. q.id = nextQuote /\ q.rfq = r
  OBVIOUS
<1> HIDE DEF q
<1>3. x.pc = "quoteLoaded" /\ x.rfq = r /\ x.seen = state[r] /\ x.row = {q}
  BY NoTxnTyped DEF Txn
<1> HIDE DEF x
<1>4. TypeOK /\ TablesSound /\ tx'[s] = x /\ nextQuote \in Nat /\ quotes \subseteq Quote
  BY <1>1 DEF SoundInv, Inv, TypeOK
<1>5. TablesSound' /\ ClosedStays
  BY <1>1, <1>4, ReadStep
<1>6. q.id < nextQuote'
  BY <1>1, <1>2, <1>4
<1>7. Loaded(tx[s])'
  BY <1>1, <1>2, <1>3, <1>4, <1>6 DEF Loaded, Quoting
<1> QED
  BY <1>5, <1>7

(* The flush leaves the quote as it was loaded. *)
LEMMA QuoteFlushSound ==
  ASSUME SoundInv, NEW s \in Sessions, QuoteFlush(s)
  PROVE  Loaded(tx[s])' /\ TablesSound' /\ ClosedStays
<1> DEFINE P == Promotable(s, tx[s].rfq)
<1>1. /\ tx[s].pc = "quoteLoaded"
      /\ tx' = [tx EXCEPT ![s] = [tx[s] EXCEPT !.pc = "quoteFlushed", !.also = P]]
      /\ UNCHANGED <<tables, nextQuote>>
  BY DEF QuoteFlush
<1> HIDE DEF P
<1>3. TypeOK /\ TablesSound /\ tx[s] \in Txn /\ Loaded(tx[s])
  BY DEF SoundInv, Inv, TypeOK
<1>4. tx'[s] = [tx[s] EXCEPT !.pc = "quoteFlushed", !.also = P]
  BY <1>1, <1>3 DEF TypeOK
<1>5. /\ tx'[s].pc = "quoteFlushed" /\ tx'[s].also = P /\ tx'[s].rfq = tx[s].rfq
      /\ tx'[s].seen = tx[s].seen /\ tx'[s].row = tx[s].row
  BY <1>3, <1>4 DEF Txn
<1>7. Loaded(tx[s])'
  BY <1>1, <1>3, <1>5 DEF Loaded, Quoting
<1>8. TablesSound' /\ ClosedStays
  BY <1>1, <1>3, ReadStep
<1> QED
  BY <1>7, <1>8

(* The quote to be rejected is an active one of the RFQ. *)
LEMMA RejectQuoteLoadSound ==
  ASSUME SoundInv, NEW s \in Sessions, NEW r \in Rfqs, NEW q \in quotes, RejectQuoteLoad(s, r, q)
  PROVE  Loaded(tx[s])' /\ TablesSound' /\ ClosedStays
<1> DEFINE x == [NoTxn EXCEPT !.pc = "rejectLoaded", !.rfq = r, !.seen = state[r], !.row = {q}]
<1>1. /\ tx' = [tx EXCEPT ![s] = x] /\ state[r] \in {"SENT", "QUOTED"} /\ q \in Active(r)
      /\ UNCHANGED <<tables, nextQuote>>
  BY DEF RejectQuoteLoad, Begin
<1>2. x.pc = "rejectLoaded" /\ x.rfq = r /\ x.seen = state[r] /\ x.row = {q}
  BY NoTxnTyped DEF Txn
<1> HIDE DEF x
<1>3. TypeOK /\ TablesSound /\ tx'[s] = x
  BY <1>1 DEF SoundInv, Inv, TypeOK
<1>5. Loaded(tx[s])'
  BY <1>1, <1>2, <1>3 DEF Loaded, Quoting
<1>6. TablesSound' /\ ClosedStays
  BY <1>1, <1>3, ReadStep
<1> QED
  BY <1>5, <1>6

(* The count leaves the rejection as it was loaded. *)
LEMMA RejectQuoteCountSound ==
  ASSUME SoundInv, NEW s \in Sessions, RejectQuoteCount(s)
  PROVE  Loaded(tx[s])' /\ TablesSound' /\ ClosedStays
<1> DEFINE r == tx[s].rfq
           A == IF Active(r) \subseteq tx[s].row /\ tx[s].seen = "QUOTED" THEN {r} ELSE {}
<1>1. /\ tx[s].pc = "rejectLoaded"
      /\ tx' = [tx EXCEPT ![s] = [tx[s] EXCEPT !.pc = "rejectCounted", !.also = A]]
      /\ UNCHANGED <<tables, nextQuote>>
  BY DEF RejectQuoteCount
<1>3. TypeOK /\ TablesSound /\ tx[s] \in Txn /\ Loaded(tx[s])
  BY DEF SoundInv, Inv, TypeOK
<1> HIDE DEF A
<1>4. tx'[s] = [tx[s] EXCEPT !.pc = "rejectCounted", !.also = A]
  BY <1>1, <1>3 DEF TypeOK
<1>5. /\ tx'[s].pc = "rejectCounted" /\ tx'[s].also = A /\ tx'[s].rfq = tx[s].rfq
      /\ tx'[s].seen = tx[s].seen /\ tx'[s].row = tx[s].row
  BY <1>3, <1>4 DEF Txn
<1>8. Loaded(tx[s])'
  BY <1>1, <1>3, <1>5 DEF Loaded, Quoting
<1>9. TablesSound' /\ ClosedStays
  BY <1>1, <1>3, ReadStep
<1> QED
  BY <1>8, <1>9

(* The award is of an RFQ that was QUOTED when it was loaded. *)
LEMMA AwardLockSound ==
  ASSUME SoundInv, NEW s \in Sessions, AwardLock(s)
  PROVE  Loaded(tx[s])' /\ TablesSound' /\ ClosedStays
<1> DEFINE W == Winners(tx[s].rfq)
<1>1. /\ tx[s].pc = "awardLoaded" /\ tx[s].seen = "QUOTED"
      /\ tx' = [tx EXCEPT ![s] = [tx[s] EXCEPT !.pc = "awardLocked", !.win = W]]
      /\ UNCHANGED <<tables, nextQuote>>
  BY DEF AwardLock
<1>4. TypeOK /\ TablesSound /\ tx[s] \in Txn /\ Loaded(tx[s])
  BY DEF SoundInv, Inv, TypeOK
<1> HIDE DEF W
<1>5. tx'[s] = [tx[s] EXCEPT !.pc = "awardLocked", !.win = W]
  BY <1>1, <1>4 DEF TypeOK
<1>6. /\ tx'[s].pc = "awardLocked" /\ tx'[s].win = W /\ tx'[s].rfq = tx[s].rfq
      /\ tx'[s].seen = tx[s].seen
  BY <1>4, <1>5 DEF Txn
<1>7. Loaded(tx[s])'
  BY <1>1, <1>6 DEF Loaded, Quoting
<1>8. TablesSound' /\ ClosedStays
  BY <1>1, <1>4, ReadStep
<1> QED
  BY <1>7, <1>8

-----------------------------------------------------------------------------
(* A session that ends with no commit of its own. *)
LEMMA EndSound ==
  ASSUME SoundInv, NEW s \in Sessions, CreateUnsent(s) \/ Abort(s)
  PROVE  Loaded(tx[s])' /\ TablesSound' /\ ClosedStays
<1>1. Commit(s) /\ UNCHANGED <<tables, nextQuote>>
  BY DEF CreateUnsent, Abort
<1> QED
  BY <1>1, EndedLoaded, ReadStep DEF SoundInv, Inv

(* A step of one session leaves what the others have loaded. *)
LEMMA OthersKept ==
  ASSUME TypeOK, NEW s \in Sessions, StepBesidesAward(s) \/ \E r \in Rfqs : AwardLoad(s, r)
  PROVE  /\ \A t \in Sessions \ {s} : tx'[t] = tx[t]
         /\ nextQuote' \in {nextQuote, nextQuote + 1}
<1>1. tx' = tx \/ \E x : tx' = [tx EXCEPT ![s] = x]
  BY DEF StepBesidesAward, Create, CreateSent, CreateUnsent, QuoteLoad, QuoteFlush, Begin,
     QuoteCommit, RejectLoad, CancelLoad, CloseCommit, RejectQuoteLoad, RejectQuoteCount, Commit,
     RejectQuoteCommit, ArchiveLoad, ArchiveCommit, AwardLock, AwardCommit, Abort, AwardLoad
<1>2. nextQuote' \in {nextQuote, nextQuote + 1}
  BY DEF StepBesidesAward, Create, CreateSent, CreateUnsent, QuoteLoad, QuoteFlush,
     QuoteCommit, RejectLoad, CancelLoad, CloseCommit, RejectQuoteLoad, RejectQuoteCount,
     RejectQuoteCommit, ArchiveLoad, ArchiveCommit, AwardLock, AwardCommit, Abort, AwardLoad
<1> QED
  BY <1>1, <1>2 DEF TypeOK

(* A quote about to be inserted was so before, or has the next id. *)
LEMMA QuotingStep ==
  ASSUME TypeOK, [Next]_vars, NEW t \in Sessions, Quoting(tx[t])'
  PROVE  \/ Quoting(tx[t]) /\ tx'[t].row = tx[t].row
         \/ (\A q \in tx'[t].row : q.id = nextQuote) /\ quotes' = quotes
            /\ \A u \in Sessions \ {t} : tx'[u] = tx[u]
<1>0. tx \in [Sessions -> Txn]
  BY DEF TypeOK
<1>1. CASE tx'[t] = tx[t]
  BY <1>1 DEF Quoting
<1>2. CASE QuoteFlush(t)
  <2> DEFINE P == Promotable(t, tx[t].rfq)
  <2>1. /\ tx[t].pc = "quoteLoaded"
        /\ tx' = [tx EXCEPT ![t] = [tx[t] EXCEPT !.pc = "quoteFlushed", !.also = P]]
    BY <1>2 DEF QuoteFlush
  <2> HIDE DEF P
  <2>2. tx'[t].row = tx[t].row
    BY <1>0, <2>1 DEF Txn
  <2> QED
    BY <2>1, <2>2 DEF Quoting
<1>3. ASSUME NEW r \in Trades, NEW c \in Cps, NEW p \in Prices, NEW at \in Stamps,
             QuoteLoad(t, r, c, p, at)
      PROVE  /\ \A q \in tx'[t].row : q.id = nextQuote
             /\ quotes' = quotes /\ \A u \in Sessions \ {t} : tx'[u] = tx[u]
  <2> DEFINE q == [id |-> nextQuote, rfq |-> r, cp |-> c, price |-> p, received |-> at]
             x == [NoTxn EXCEPT !.pc = "quoteLoaded", !.rfq = r, !.seen = state[r], !.row = {q}]
  <2>1. tx' = [tx EXCEPT ![t] = x] /\ quotes' = quotes
    BY <1>3 DEF QuoteLoad, Begin, tables
  <2>2. q.id = nextQuote
    OBVIOUS
  <2> HIDE DEF q
  <2>3. x.row = {q}
    BY NoTxnTyped DEF Txn
  <2> HIDE DEF x
  <2> QED
    BY <1>0, <2>1, <2>2, <2>3
<1>4. \/ tx'[t] = tx[t]
      \/ QuoteFlush(t)
      \/ \E r \in Trades, c \in Cps, p \in Prices, at \in Stamps : QuoteLoad(t, r, c, p, at)
  <2> USE NoTxnTyped
  <2>1. ASSUME NEW s \in Sessions, s # t, StepBesidesAward(s) \/ \E r \in Rfqs : AwardLoad(s, r)
        PROVE  tx'[t] = tx[t]
    BY <2>1, OthersKept
  <2>2. ASSUME NEW x, tx' = [tx EXCEPT ![t] = x], ~Quoting(x) PROVE FALSE
    BY <1>0, <2>2 DEF Quoting
  <2>3. ASSUME Commit(t) PROVE FALSE
    BY <2>2, <2>3 DEF Commit, Quoting
  <2>4. ASSUME NEW r \in Rfqs, Create(t, r) PROVE tx'[t] = tx[t]
    BY <1>0, <2>4 DEF Create, Begin, Txn, Quoting
  <2>5. ASSUME NEW r \in Rfqs, RejectLoad(t, r) \/ CancelLoad(t, r) PROVE FALSE
    BY <1>0, <2>5 DEF RejectLoad, CancelLoad, Begin, Txn, Quoting
  <2>6. ASSUME NEW r \in Rfqs, NEW q \in quotes, RejectQuoteLoad(t, r, q) PROVE FALSE
    BY <1>0, <2>6 DEF RejectQuoteLoad, Begin, Txn, Quoting
  <2>7. ASSUME RejectQuoteCount(t) PROVE FALSE
    BY <1>0, <2>7 DEF RejectQuoteCount, Txn, Quoting
  <2>8. ASSUME NEW r \in Rfqs, ArchiveLoad(t, r) PROVE FALSE
    BY <1>0, <2>8 DEF ArchiveLoad, Begin, Txn, Quoting
  <2>9. ASSUME NEW r \in Rfqs, AwardLoad(t, r) PROVE FALSE
    BY <1>0, <2>9 DEF AwardLoad, Begin, Txn, Quoting
  <2>10. ASSUME AwardLock(t) PROVE FALSE
    BY <1>0, <2>10 DEF AwardLock, Txn, Quoting
  <2>11. ASSUME \/ CreateSent(t) \/ CreateUnsent(t) \/ QuoteCommit(t) \/ CloseCommit(t)
               \/ RejectQuoteCommit(t) \/ ArchiveCommit(t) \/ AwardCommit(t) \/ Abort(t)
        PROVE  Commit(t)
    BY <2>11 DEF CreateSent, CreateUnsent, QuoteCommit, CloseCommit, RejectQuoteCommit,
       ArchiveCommit, AwardCommit, Abort
  <2>12. ASSUME NEW c \in Cps, SetKyc(c) PROVE tx'[t] = tx[t]
    BY <2>12 DEF SetKyc
  <2>13. CASE UNCHANGED vars
    BY <2>13 DEF vars
  <2>14. CASE StepBesidesAward(t)
    BY <2>3, <2>4, <2>5, <2>6, <2>7, <2>8, <2>10, <2>11, <2>14 DEF StepBesidesAward
  <2> QED
    BY <2>1, <2>9, <2>12, <2>13, <2>14 DEF Next
<1> QED
  BY <1>1, <1>2, <1>3, <1>4

(* Ids stay apart: a new one is above all others, and a commit moves its    *)
(* own from the session to the table.                                      *)
LEMMA IdsApartStep ==
  ASSUME SoundInv, [Next]_vars
  PROVE  IdsApart'
<1>0. /\ TypeOK /\ IdsApart /\ IdsUnique /\ nextQuote \in Nat /\ quotes \subseteq Quote
      /\ tx \in [Sessions -> Txn]
  BY DEF SoundInv, Inv, TypeOK, TablesSound
<1>1. \A q \in quotes : q.id \in Nat /\ q.id < nextQuote
  BY <1>0 DEF IdsUnique, Quote
<1>2. \A t \in Sessions : Quoting(tx[t]) => \A q \in tx[t].row : q.id \in Nat /\ q.id < nextQuote
  <2>1. ASSUME NEW t \in Sessions, NEW q \in tx[t].row PROVE q.id \in Nat
    BY <1>0 DEF Txn, Quote
  <2> QED
    BY <2>1 DEF SoundInv, Loaded
<1>3. ASSUME NEW s \in Sessions, QuoteCommit(s)
      PROVE  quotes' = quotes \cup tx[s].row /\ Quoting(tx[s]) /\ ~Quoting(tx[s])'
  <2>1. tx'[s] = NoTxn
    BY <1>0, <1>3 DEF QuoteCommit, Commit
  <2> QED
    BY <1>3, <2>1, NoTxnTyped DEF QuoteCommit, Quoting
<1>4. ASSUME NEW s \in Sessions, Quoting(tx[s])', NEW q \in tx'[s].row
      PROVE  \A p \in quotes' : p.id # q.id
  <2>1. CASE Quoting(tx[s]) /\ tx'[s].row = tx[s].row
    <3>1. \A p \in quotes : p.id # q.id
      BY <1>0, <1>4, <2>1 DEF IdsApart
    <3>2. ASSUME NEW t \in Sessions, QuoteCommit(t) PROVE \A p \in tx[t].row : p.id # q.id
      <4>1. t # s /\ Quoting(tx[t])
        BY <1>3, <1>4, <3>2
      <4> QED
        BY <1>0, <1>4, <2>1, <4>1 DEF IdsApart
    <3> QED
      BY <1>0, <1>3, <3>1, <3>2, TableStep
  <2>2. CASE (\A y \in tx'[s].row : y.id = nextQuote) /\ quotes' = quotes
    BY <1>0, <1>1, <1>4, <2>2
  <2> QED
    BY <1>0, <1>4, <2>1, <2>2, QuotingStep
<1>5. ASSUME NEW s \in Sessions, Quoting(tx[s])', NEW t \in Sessions \ {s}, Quoting(tx[t])',
             NEW q \in tx'[s].row, NEW p \in tx'[t].row
      PROVE  p.id # q.id
  <2> DEFINE Old(u) == Quoting(tx[u]) /\ tx'[u].row = tx[u].row
             New(u) == (\A y \in tx'[u].row : y.id = nextQuote) /\ \A v \in Sessions \ {u} : tx'[v] = tx[v]
  <2>1. (Old(s) \/ New(s)) /\ (Old(t) \/ New(t))
    BY <1>0, <1>5, QuotingStep
  <2>2. CASE Old(s) /\ Old(t)
    BY <1>0, <1>5, <2>2 DEF IdsApart
  <2>3. CASE New(s)
    <3>1. tx'[t] = tx[t] /\ Quoting(tx[t]) /\ q.id = nextQuote
      BY <1>5, <2>3 DEF Quoting
    <3> QED
      BY <1>0, <1>2, <1>5, <3>1
  <2>4. CASE New(t)
    <3>1. tx'[s] = tx[s] /\ Quoting(tx[s]) /\ p.id = nextQuote
      BY <1>5, <2>4 DEF Quoting
    <3> QED
      BY <1>0, <1>2, <1>5, <3>1
  <2> QED
    BY <2>1, <2>2, <2>3, <2>4
<1> QED
  BY <1>4, <1>5 DEF IdsApart

(* What a session knows of its own work survives what others do. *)
LEMMA LoadedKept ==
  ASSUME NEW x \in Txn, Loaded(x), nextQuote \in Nat, nextQuote' \in {nextQuote, nextQuote + 1}
  PROVE  Loaded(x)'
<1>1. Quoting(x) => \A q \in x.row : q.id < nextQuote'
  <2>1. \A q \in x.row : q.id \in Nat
    BY DEF Txn, Quote
  <2> QED
    BY <2>1 DEF Loaded
<1> QED
  BY <1>1 DEF Loaded, Quoting

(* Every step keeps the invariant when commits are fresh, and closes for   *)
(* good.                                                                   *)
LEMMA SoundStep ==
  ASSUME SoundInv, [Next]_vars, [FreshCommit]_vars
  PROVE  SoundInv' /\ ClosedStays
<1>0. TypeOK /\ tx \in [Sessions -> Txn] /\ nextQuote \in Nat /\ \A t \in Sessions : Loaded(tx[t])
  BY DEF SoundInv, Inv, TypeOK
<1>1. Inv' /\ IdsApart'
  BY InvStep, IdsApartStep DEF SoundInv
<1>2. ASSUME NEW s \in Sessions, StepBesidesAward(s) \/ \E r \in Rfqs : AwardLoad(s, r),
             Loaded(tx[s])', TablesSound', ClosedStays
      PROVE  SoundInv' /\ ClosedStays
  <2>1. ASSUME NEW t \in Sessions PROVE Loaded(tx[t])'
    <3>1. CASE t = s
      BY <1>2, <3>1
    <3>2. CASE t # s
      <4>1. /\ tx'[t] = tx[t] /\ tx[t] \in Txn /\ Loaded(tx[t])
            /\ nextQuote' \in {nextQuote, nextQuote + 1}
        BY <1>0, <1>2, <3>2, OthersKept
      <4>2. PICK x \in Txn : x = tx[t]
        BY <4>1
      <4>3. Loaded(x) /\ tx'[t] = x
        BY <4>1, <4>2
      <4>4. Loaded(x)'
        BY <1>0, <4>1, <4>3, LoadedKept
      <4> QED
        BY <4>3, <4>4 DEF Loaded, Quoting
    <3> QED
      BY <3>1, <3>2
  <2> QED
    BY <1>1, <1>2, <2>1 DEF SoundInv
<1>3. ASSUME NEW s \in Sessions, Commits(s)
      PROVE  Loaded(tx[s])' /\ TablesSound' /\ ClosedStays
  <2>1. Commit(s)
    BY <1>3 DEF Commits, CreateSent, QuoteCommit, CloseCommit, RejectQuoteCommit, ArchiveCommit,
       AwardCommit
  <2>2. ~(UNCHANGED vars)
    <3>1. tx[s].pc # "idle" /\ tx'[s].pc = "idle"
      BY <1>0, <1>3, <2>1, NoTxnTyped DEF Commit, Commits, CreateSent, QuoteCommit, CloseCommit,
         RejectQuoteCommit, ArchiveCommit, AwardCommit
    <3> QED
      BY <3>1 DEF vars
  <2>3. View(tx[s])
    BY <1>3, <2>2, FreshView DEF FreshCommit
  <2>4. Loaded(tx[s])'
    BY <1>0, <2>1, EndedLoaded
  <2> QED
    BY <1>3, <2>3, <2>4, CreateSentSound, QuoteSound, CloseSound, RejectQuoteSound, ArchiveSound,
       AwardSound DEF Commits
<1>4. ASSUME NEW s \in Sessions, StepBesidesAward(s)
      PROVE  Loaded(tx[s])' /\ TablesSound' /\ ClosedStays
  BY <1>3, <1>4, CreateSound, EndSound, QuoteLoadSound, QuoteFlushSound, LoadSound,
     RejectQuoteLoadSound, RejectQuoteCountSound, AwardLockSound
  DEF StepBesidesAward, Commits
<1>5. ASSUME NEW s \in Sessions, NEW r \in Rfqs, AwardLoad(s, r)
      PROVE  Loaded(tx[s])' /\ TablesSound' /\ ClosedStays
  BY <1>5, LoadSound
<1>6. ASSUME UNCHANGED <<state, trail, quotes, rejected, contracts, nextQuote, tx>>
      PROVE  SoundInv' /\ ClosedStays
  <2>1. TablesSound' /\ ClosedStays
    BY <1>6 DEF SoundInv, TablesSound, IdsUnique, TrailConnected, QuotedHasActiveQuote,
       BookedIsClosed, OneContractPerTrade, Active, ClosedStays
  <2>2. \A t \in Sessions : Loaded(tx[t])'
    BY <1>0, <1>6 DEF Loaded, Quoting
  <2> QED
    BY <1>1, <2>1, <2>2 DEF SoundInv
<1>7. CASE UNCHANGED vars
  BY <1>6, <1>7 DEF vars, tables
<1>8. ASSUME NEW c \in Cps, SetKyc(c) PROVE SoundInv' /\ ClosedStays
  BY <1>6, <1>8 DEF SetKyc
<1> QED
  BY <1>2, <1>4, <1>5, <1>7, <1>8 DEF Next

(* No RFQ, no quote, no session: nothing to be wrong about. *)
LEMMA SoundInit == Init => SoundInv
<1> SUFFICES ASSUME Init PROVE SoundInv
  OBVIOUS
<1>1. TypeOK
  BY NoTxnTyped DEF Init, TypeOK, States
<1>2. \A s \in Sessions : tx[s].pc = "idle"
  BY NoTxnTyped DEF Init
<1>3. Inv
  BY <1>1, <1>2 DEF Init, Inv, LocksExclude, OwnRow, OwnWinners, CitesQuote
<1>4. (\A s \in Sessions : Loaded(tx[s])) /\ IdsApart
  BY <1>2 DEF Loaded, Quoting, IdsApart
<1>5. \A r \in Rfqs : state[r] # "QUOTED"
  BY DEF Init
<1>6. TablesSound
  BY <1>5 DEF Init, TablesSound, IdsUnique, TrailConnected, QuotedHasActiveQuote,
     BookedIsClosed, OneContractPerTrade, Rfqs
<1> QED
  BY <1>3, <1>4, <1>6 DEF SoundInv

(* While commits are fresh, a trade is booked at most once, by its own     *)
(* award or by the award of a spread it is a leg of, however many sessions *)
(* overlap.                                                                *)
THEOREM OneContractPerTradeHolds == Spec /\ CommitsFresh => []OneContractPerTrade
<1>1. SoundInv /\ [Next]_vars /\ [FreshCommit]_vars => SoundInv'
  BY SoundStep
<1>2. SoundInv => OneContractPerTrade
  BY DEF SoundInv, TablesSound
<1> QED
  BY <1>1, <1>2, SoundInit, PTL DEF Spec, CommitsFresh

(* While commits are fresh, the state events of every RFQ replay to its    *)
(* state, through quotes, rejections, awards of spreads and archive.       *)
THEOREM TrailConnectedHolds == Spec /\ CommitsFresh => []TrailConnected
<1>1. SoundInv /\ [Next]_vars /\ [FreshCommit]_vars => SoundInv'
  BY SoundStep
<1>2. SoundInv => TrailConnected
  BY DEF SoundInv, TablesSound
<1> QED
  BY <1>1, <1>2, SoundInit, PTL DEF Spec, CommitsFresh

(* While commits are fresh, a trade that is QUOTED has a quote that is not *)
(* rejected: reject_quote reverts it with the last one.                    *)
THEOREM QuotedHasActiveQuoteHolds == Spec /\ CommitsFresh => []QuotedHasActiveQuote
<1>1. SoundInv /\ [Next]_vars /\ [FreshCommit]_vars => SoundInv'
  BY SoundStep
<1>2. SoundInv => QuotedHasActiveQuote
  BY DEF SoundInv, TablesSound
<1> QED
  BY <1>1, <1>2, SoundInit, PTL DEF Spec, CommitsFresh

(* While commits are fresh, CLOSED is terminal. *)
THEOREM ClosedIsFinalHolds == Spec /\ CommitsFresh => ClosedIsFinal
<1>1. SoundInv /\ [Next]_vars /\ [FreshCommit]_vars => SoundInv'
  BY SoundStep
<1>2. SoundInv /\ [Next]_vars /\ [FreshCommit]_vars =>
        [\A r \in Rfqs : state[r] = "CLOSED" => state'[r] = "CLOSED"]_vars
  BY SoundStep DEF ClosedStays
<1> QED
  BY <1>1, <1>2, SoundInit, PTL DEF Spec, CommitsFresh, ClosedIsFinal

-----------------------------------------------------------------------------
(* What an award books.  The quotes of one RFQ that the ranking of a trade *)
(* or spread awards are latest quotes, better than any other offer.        *)
LEMMA TradeWinnerBest ==
  ASSUME NEW d, NEW Q, NEW q \in TradeWinner(d, Q)
  PROVE  /\ q \in LatestQuotes(Q)
         /\ \A p \in LatestQuotes(Q) : p.cp # q.cp => Better(d, q.price, p.price)
  BY DEF TradeWinner

(* While commits are fresh, what an award books is the best offer on the   *)
(* table when it commits: no other counterparty's live offer, or pair of   *)
(* offers on the legs of a spread, beats or equals it.                     *)
THEOREM AwardsBestOfferHolds == Spec /\ CommitsFresh => AwardsBestOffer
<1> DEFINE offers(x) == LatestQuotes(Active(x))
           Awarding(x) == \E s \in Sessions :
                            tx[s].pc = "awardLocked" /\ tx'[s].pc = "idle" /\ tx[s].rfq = x
           r == CHOOSE x \in Rfqs : Awarding(x)
           Best(c, d) ==
             /\ c.quote \in offers(c.rfq)
             /\ c = d /\ r \in Trades =>
                  \A q \in offers(c.rfq) : q.cp # c.quote.cp =>
                     Better(Direction[r], c.quote.price, q.price)
             /\ r \in Spreads /\ c.rfq = BuyLeg[r] /\ d.rfq = SellLeg[r] =>
                  \A b \in offers(BuyLeg[r]), q \in offers(SellLeg[r]) :
                     b.cp = q.cp /\ b.cp # c.quote.cp =>
                       Better(Direction[r], d.quote.price - c.quote.price, q.price - b.price)
<1>1. ASSUME SoundInv, [Next]_vars, [FreshCommit]_vars,
             NEW c \in contracts' \ contracts, NEW d \in contracts' \ contracts
      PROVE  Best(c, d)
  <2>0. TypeOK
    BY <1>1 DEF SoundInv, Inv
  <2>1. PICK s \in Sessions : AwardCommit(s)
    BY <1>1, <2>0, TableStep
  <2> DEFINE a == tx[s].rfq
  <2>2. /\ a \in Rfqs /\ tx[s].pc = "awardLocked" /\ tx'[s].pc = "idle"
        /\ contracts' = contracts \cup Booked(tx[s].win)
    BY <2>0, <2>1, NoTxnTyped DEF AwardCommit, Commit, TypeOK, Txn
  <2>3. r = a
    <3>0. \A t \in Sessions \ {s} : tx'[t] = tx[t]
      BY <2>0, <2>1 DEF AwardCommit, Commit, TypeOK
    <3>1. \A x \in Rfqs : Awarding(x) <=> x = a
      BY <2>2, <3>0
    <3> HIDE DEF Awarding, a
    <3> QED
      BY <2>2, <3>1
  <2>4. tx[s].win = Winners(a)
    <3>1. ~(UNCHANGED vars)
      BY <1>1 DEF vars, tables
    <3>2. Fresh(s)
      BY <1>1, <2>1, <3>1 DEF FreshCommit, Commits
    <3> QED
      BY <2>2, <3>2 DEF Fresh
  <2>5. /\ c.quote \in Winners(a) /\ c.rfq = c.quote.rfq
        /\ d.quote \in Winners(a) /\ d.rfq = d.quote.rfq
    BY <1>1, <2>2, <2>4 DEF Booked
  <2>6. \A x \in Rfqs : \A y \in Active(x) : y.price \in Int /\ y.rfq = x
    BY <2>0, ActivePriced
  <2> HIDE DEF a, r
  <2>7. CASE a \in Spreads
    <3>1. BuyLeg[a] \in Rfqs /\ SellLeg[a] \in Rfqs /\ BuyLeg[a] # SellLeg[a] /\ a \notin Trades
      BY <2>7, ConstantsAssumption DEF Rfqs
    <3>2. /\ c.quote \in SpreadWinner(Direction[a], Active(BuyLeg[a]), Active(SellLeg[a]))
          /\ d.quote \in SpreadWinner(Direction[a], Active(BuyLeg[a]), Active(SellLeg[a]))
      BY <2>5, <2>7 DEF Winners
    <3>3. PICK b \in offers(BuyLeg[a]), q \in offers(SellLeg[a]) :
            /\ c.quote \in {b, q} /\ d.quote \in {b, q}
            /\ \A x \in offers(BuyLeg[a]), y \in offers(SellLeg[a]) :
                 x.cp = y.cp /\ x.cp # b.cp
                 => Better(Direction[a], q.price - b.price, y.price - x.price)
      BY <2>6, <3>1, <3>2, SpreadWinnerOne
    <3>4. b.rfq = BuyLeg[a] /\ q.rfq = SellLeg[a]
      BY <2>6, <3>1 DEF LatestQuotes
    <3>5. c.quote \in offers(c.rfq)
      BY <2>5, <3>3, <3>4
    <3>6. c.rfq = BuyLeg[a] /\ d.rfq = SellLeg[a] => c.quote = b /\ d.quote = q
      BY <2>5, <3>1, <3>3, <3>4
    <3> HIDE DEF offers
    <3> QED
      BY <2>3, <3>1, <3>3, <3>5, <3>6
  <2>8. CASE a \notin Spreads
    <3>1. c.quote \in TradeWinner(Direction[a], Active(a)) /\ c.rfq = a
      BY <2>2, <2>5, <2>8, WinnersGiven DEF Winners
    <3>2. /\ c.quote \in offers(a)
          /\ \A p \in offers(a) : p.cp # c.quote.cp => Better(Direction[a], c.quote.price, p.price)
      BY <3>1, TradeWinnerBest
    <3> HIDE DEF offers
    <3> QED
      BY <2>3, <2>8, <3>1, <3>2
  <2> QED
    BY <2>7, <2>8
<1>2. SoundInv /\ [Next]_vars /\ [FreshCommit]_vars => SoundInv'
  BY SoundStep
<1>3. SoundInv /\ [Next]_vars /\ [FreshCommit]_vars
        => [\A c, d \in contracts' \ contracts : Best(c, d)]_vars
  BY <1>1
<1> QED
  BY <1>2, <1>3, SoundInit, PTL DEF Spec, CommitsFresh, AwardsBestOffer

-----------------------------------------------------------------------------
(* The gate in front of the award.                                         *)

(* Who holds an approval, and of what kind it is: an id that was never     *)
(* given out is closed, a held one is approved, and has one holder.        *)
InUse == \A i \in Ids : approvals[i].status # "closed" => i \in Used

HeldApproved ==
  \A s \in Sessions : \A i \in hold[s] : approvals[i].status = "approved"

OneHolder == \A s, t \in Sessions : \A i \in Ids : i \in hold[s] /\ i \in hold[t] => s = t

GateInv ==
  /\ AwardTypeOK
  /\ InUse
  /\ HeldApproved
  /\ OneHolder

(* An award never begins in this step of s, and only its commit books. *)
LEMMA BooksAtCommit ==
  ASSUME TypeOK, NEW s \in Sessions, StepBesidesAward(s)
  PROVE  contracts' = contracts \/ (AwardCommit(s) /\ tx'[s].pc = "idle")
<1>1. contracts' = contracts \/ AwardCommit(s)
  BY DEF StepBesidesAward, Create, CreateSent, CreateUnsent, QuoteLoad, QuoteFlush,
     QuoteCommit, RejectLoad, CancelLoad, CloseCommit, RejectQuoteLoad, RejectQuoteCount,
     RejectQuoteCommit, ArchiveLoad, ArchiveCommit, AwardLock, Abort, tables
<1>2. ASSUME AwardCommit(s) PROVE tx'[s].pc = "idle"
  BY <1>2, NoTxnTyped DEF AwardCommit, Commit, TypeOK
<1> QED
  BY <1>1, <1>2, Zenon

(* Every step of the gate is a step of the lifecycle, or leaves it alone. *)
LEMMA GateStep ==
  ASSUME AwardTypeOK, [AwardNext]_allvars
  PROVE  [Next]_vars
<1>1. ASSUME NEW s \in Sessions, OtherStep(s) PROVE Next
  BY <1>1 DEF OtherStep, Next
<1>2. ASSUME NEW s \in Sessions, NEW r \in Rfqs, DirectAward(s, r) PROVE Next
  BY <1>2 DEF DirectAward, Next
<1>3. ASSUME NEW s \in Sessions, NEW r \in Rfqs, RequestApproval(s, r) PROVE UNCHANGED vars
  BY <1>3 DEF RequestApproval
<1>4. ASSUME NEW s \in Sessions, NEW i \in Ids, ConsumeApproval(s, i) PROVE Next
  <2>1. approvals[i].rfq \in Rfqs
    BY DEF AwardTypeOK, Approval
  <2> QED
    BY <1>4, <2>1 DEF ConsumeApproval, Next
<1>5. ASSUME NEW i \in Ids, GrantApproval(i) \/ CloseApproval(i) PROVE UNCHANGED vars
  BY <1>5 DEF GrantApproval, CloseApproval
<1>6. ASSUME NEW c \in Cps, SetKyc(c) PROVE Next
  BY <1>6 DEF Next
<1>7. CASE UNCHANGED allvars
  BY <1>7 DEF allvars
<1> QED
  BY <1>1, <1>2, <1>3, <1>4, <1>5, <1>6, <1>7 DEF AwardNext

(* What a step of a session makes of the approvals: it consumes those it   *)
(* holds when it books, and lets go of them when it ends.                  *)
LEMMA OtherStepGate ==
  ASSUME GateInv, NEW s \in Sessions, OtherStep(s)
  PROVE  /\ approvals' \in [Ids -> Approval] /\ hold' \in [Sessions -> SUBSET Ids]
         /\ \A t \in Sessions : hold'[t] \subseteq hold[t]
         /\ tx'[s].pc = "idle" => hold'[s] = {}
         /\ tx'[s].pc # "idle" => hold' = hold
         /\ \A i \in Ids : approvals'[i].win = approvals[i].win /\ approvals'[i].rfq = approvals[i].rfq
         /\ \A i \in Ids : \/ approvals'[i] = approvals[i]
                           \/ i \in hold[s] /\ tx'[s].pc = "idle" /\ approvals'[i].status = "consumed"
<1>1. /\ approvals \in [Ids -> Approval] /\ hold \in [Sessions -> SUBSET Ids] /\ TypeOK
  BY DEF GateInv, AwardTypeOK
<1>2. /\ approvals' = [i \in Ids |-> IF i \in hold[s] /\ contracts' # contracts
                                     THEN [approvals[i] EXCEPT !.status = "consumed"]
                                     ELSE approvals[i]]
      /\ hold' = IF tx'[s].pc = "idle" THEN [hold EXCEPT ![s] = {}] ELSE hold
      /\ contracts' # contracts => tx'[s].pc = "idle"
  BY <1>1, BooksAtCommit DEF OtherStep
<1>3. ASSUME NEW a \in Approval
      PROVE  LET b == [a EXCEPT !.status = "consumed"]
             IN  b \in Approval /\ b.win = a.win /\ b.rfq = a.rfq /\ b.status = "consumed"
  BY DEF Approval
<1>4. \A i \in Ids : \/ approvals'[i] = approvals[i]
                     \/ /\ i \in hold[s] /\ tx'[s].pc = "idle"
                        /\ approvals'[i] = [approvals[i] EXCEPT !.status = "consumed"]
  BY <1>2
<1>5. \A i \in Ids : /\ approvals'[i] \in Approval
                     /\ approvals'[i].win = approvals[i].win /\ approvals'[i].rfq = approvals[i].rfq
                     /\ \/ approvals'[i] = approvals[i]
                        \/ i \in hold[s] /\ tx'[s].pc = "idle" /\ approvals'[i].status = "consumed"
  <2> SUFFICES ASSUME NEW i \in Ids
               PROVE  /\ approvals'[i] \in Approval
                      /\ approvals'[i].win = approvals[i].win /\ approvals'[i].rfq = approvals[i].rfq
                      /\ \/ approvals'[i] = approvals[i]
                         \/ i \in hold[s] /\ tx'[s].pc = "idle" /\ approvals'[i].status = "consumed"
    OBVIOUS
  <2>1. approvals[i] \in Approval
    BY <1>1
  <2>2. CASE approvals'[i] = approvals[i]
    BY <2>1, <2>2
  <2>3. CASE /\ i \in hold[s] /\ tx'[s].pc = "idle"
             /\ approvals'[i] = [approvals[i] EXCEPT !.status = "consumed"]
    BY <1>3, <2>1, <2>3, Zenon
  <2> QED
    BY <1>4, <2>2, <2>3
<1>6. approvals' \in [Ids -> Approval]
  <2>1. approvals' = [i \in Ids |-> approvals'[i]]
    BY <1>2
  <2> QED
    BY <1>5, <2>1
<1>7. /\ hold' \in [Sessions -> SUBSET Ids]
      /\ \A t \in Sessions : hold'[t] \subseteq hold[t]
      /\ tx'[s].pc = "idle" => hold'[s] = {}
      /\ tx'[s].pc # "idle" => hold' = hold
  BY <1>1, <1>2
<1> QED
  BY <1>5, <1>6, <1>7, Zenon

(* A request written over a row, or a row moved to another status. *)
LEMMA RowWritten ==
  ASSUME GateInv, TypeOK', NEW i \in Ids, NEW a \in Approval, a.win # {},
         approvals' = [approvals EXCEPT ![i] = a], hold' = hold,
         a.status = "approved" \/ ~Held(i)
  PROVE  GateInv'
<1>1. /\ approvals \in [Ids -> Approval] /\ hold \in [Sessions -> SUBSET Ids]
  BY DEF GateInv, AwardTypeOK
<1>2. approvals'[i] = a /\ \A j \in Ids : j # i => approvals'[j] = approvals[j]
  BY <1>1
<1>3. AwardTypeOK'
  BY <1>1 DEF AwardTypeOK
<1>4. InUse'
  BY <1>2 DEF GateInv, InUse, Used
<1>5. HeldApproved'
  BY <1>1, <1>2 DEF GateInv, HeldApproved, Held
<1>6. OneHolder'
  BY DEF GateInv, OneHolder
<1> QED
  BY <1>3, <1>4, <1>5, <1>6 DEF GateInv

(* The invariant is inductive, and a consumed approval is left alone. *)
LEMMA GateInvStep ==
  ASSUME GateInv, [AwardNext]_allvars
  PROVE  /\ GateInv'
         /\ \A i \in Ids : approvals[i].status = "consumed" =>
              /\ approvals'[i] = approvals[i]
              /\ \A s \in Sessions : i \notin hold'[s]
<1> DEFINE Kept == \A i \in Ids : approvals[i].status = "consumed" => approvals'[i] = approvals[i]
<1>0. /\ approvals \in [Ids -> Approval] /\ hold \in [Sessions -> SUBSET Ids] /\ TypeOK
  BY DEF GateInv, AwardTypeOK
<1>1. TypeOK'
  BY <1>0, GateStep, TypeStep DEF GateInv
<1>2. ASSUME NEW s \in Sessions, OtherStep(s) PROVE GateInv' /\ Kept
  <2>1. AwardTypeOK'
    BY <1>1, <1>2, OtherStepGate DEF AwardTypeOK
  <2>2. InUse'
    <3>1. ASSUME NEW i \in Ids, approvals'[i].status # "closed" PROVE approvals'[i].win # {}
      <4>1. approvals'[i].win = approvals[i].win
        BY <1>2, OtherStepGate
      <4>2. approvals[i].status # "closed"
        BY <1>2, <3>1, OtherStepGate DEF GateInv, HeldApproved
      <4> QED
        BY <4>1, <4>2 DEF GateInv, InUse, Used
    <3> QED
      BY <3>1 DEF InUse, Used
  <2>3. HeldApproved'
    <3> SUFFICES ASSUME NEW t \in Sessions, NEW i \in hold'[t] PROVE approvals'[i].status = "approved"
      BY DEF HeldApproved
    <3>1. i \in hold[t] /\ i \in Ids
      BY <1>0, <1>2, OtherStepGate
    <3>2. approvals[i].status = "approved"
      BY <3>1 DEF GateInv, HeldApproved
    <3>3. CASE i \in hold[s] /\ tx'[s].pc = "idle"
      <4>1. t = s
        BY <3>1, <3>3 DEF GateInv, OneHolder
      <4> QED
        BY <1>2, <3>3, <4>1, OtherStepGate
    <3> QED
      BY <1>2, <3>1, <3>2, <3>3, OtherStepGate
  <2>4. OneHolder'
    BY <1>2, OtherStepGate DEF GateInv, OneHolder
  <2>5. Kept
    BY <1>2, OtherStepGate DEF GateInv, HeldApproved
  <2> QED
    BY <2>1, <2>2, <2>3, <2>4, <2>5 DEF GateInv
<1>3. ASSUME NEW s \in Sessions, NEW r \in Rfqs, RequestApproval(s, r) PROVE GateInv' /\ Kept
  <2> DEFINE a == [rfq |-> r, win |-> Winners(r), status |-> "pending"]
  <2>1. PICK i \in Ids \ Used : approvals' = [approvals EXCEPT ![i] = a]
    BY <1>3 DEF RequestApproval
  <2>2. Winners(r) # {} /\ hold' = hold /\ Winners(r) \in SUBSET Quote
    BY <1>0, <1>3, WinnersGiven DEF RequestApproval, TypeOK
  <2>3. a \in Approval /\ a.win # {}
    BY <2>2 DEF Approval
  <2> HIDE DEF a
  <2>4. approvals[i].status = "closed"
    BY <2>1 DEF GateInv, InUse
  <2>5. ~Held(i)
    BY <2>4 DEF GateInv, HeldApproved, Held
  <2>6. GateInv'
    BY <1>1, <2>1, <2>2, <2>3, <2>5, RowWritten
  <2>7. Kept
    BY <1>0, <2>1, <2>4
  <2> QED
    BY <2>6, <2>7
<1>4. ASSUME NEW i \in Ids, GrantApproval(i) PROVE GateInv' /\ Kept
  <2> DEFINE a == [approvals[i] EXCEPT !.status = "approved"]
  <2>1. approvals' = [approvals EXCEPT ![i] = a] /\ hold' = hold /\ approvals[i].status = "pending"
    BY <1>4 DEF GrantApproval
  <2>2. approvals[i].win # {}
    BY <1>4 DEF GrantApproval, Used
  <2>3. a \in Approval /\ a.win # {} /\ a.status = "approved"
    BY <1>0, <2>2 DEF Approval
  <2> HIDE DEF a
  <2>4. GateInv'
    BY <1>1, <2>1, <2>3, RowWritten
  <2>5. Kept
    BY <1>0, <2>1
  <2> QED
    BY <2>4, <2>5
<1>5. ASSUME NEW i \in Ids, CloseApproval(i) PROVE GateInv' /\ Kept
  <2> DEFINE a == [approvals[i] EXCEPT !.status = "closed"]
  <2>1. /\ approvals' = [approvals EXCEPT ![i] = a] /\ hold' = hold /\ ~Held(i)
        /\ approvals[i].status \in {"pending", "approved"}
    BY <1>5 DEF CloseApproval
  <2>2. approvals[i].win # {}
    BY <1>5 DEF CloseApproval, Used
  <2>3. a \in Approval /\ a.win # {}
    BY <1>0, <2>2 DEF Approval
  <2> HIDE DEF a
  <2>4. GateInv'
    BY <1>1, <2>1, <2>3, RowWritten
  <2>5. Kept
    BY <1>0, <2>1
  <2> QED
    BY <2>4, <2>5
<1>6. ASSUME NEW s \in Sessions, NEW i \in Ids, ConsumeApproval(s, i) PROVE GateInv' /\ Kept
  <2>1. /\ approvals[i].status = "approved" /\ ~Held(i)
        /\ hold' = [hold EXCEPT ![s] = {i}] /\ approvals' = approvals
    BY <1>6 DEF ConsumeApproval
  <2>2. hold'[s] = {i} /\ \A t \in Sessions : t # s => hold'[t] = hold[t]
    BY <1>0, <2>1
  <2>3. AwardTypeOK'
    BY <1>0, <1>1, <2>1 DEF AwardTypeOK
  <2>4. InUse' /\ HeldApproved'
    BY <2>1, <2>2 DEF GateInv, InUse, Used, HeldApproved
  <2>5. OneHolder'
    BY <2>1, <2>2 DEF GateInv, OneHolder, Held
  <2> QED
    BY <2>1, <2>3, <2>4, <2>5 DEF GateInv
<1>7. ASSUME UNCHANGED <<approvals, hold>> PROVE GateInv' /\ Kept
  BY <1>0, <1>1, <1>7 DEF GateInv, AwardTypeOK, InUse, Used, HeldApproved, OneHolder
<1>8. GateInv' /\ Kept
  BY <1>2, <1>3, <1>4, <1>5, <1>6, <1>7 DEF AwardNext, DirectAward, allvars
<1>9. ASSUME NEW i \in Ids, approvals[i].status = "consumed"
      PROVE  approvals'[i] = approvals[i] /\ \A s \in Sessions : i \notin hold'[s]
  <2>1. approvals'[i] = approvals[i]
    BY <1>8, <1>9
  <2>2. \A s \in Sessions : i \in hold'[s] => approvals'[i].status = "approved"
    BY <1>8 DEF GateInv, HeldApproved
  <2> QED
    BY <1>9, <2>1, <2>2
<1> HIDE DEF Kept
<1> QED
  BY <1>8, <1>9

(* No approval is in use before the first request. *)
LEMMA GateInit == AwardInit => GateInv
<1> SUFFICES ASSUME AwardInit PROVE GateInv
  OBVIOUS
<1>1. TypeOK
  BY NoTxnTyped DEF AwardInit, Init, TypeOK, States
<1>2. (CHOOSE r \in Rfqs : TRUE) \in Rfqs
  BY ConstantsAssumption DEF Rfqs
<1>3. NoApproval \in Approval /\ NoApproval.status = "closed"
  BY <1>2 DEF NoApproval, Approval
<1>4. AwardTypeOK
  BY <1>1, <1>3 DEF AwardInit, AwardTypeOK
<1> QED
  BY <1>3, <1>4 DEF AwardInit, GateInv, InUse, HeldApproved, OneHolder

(* The gate's state stays well typed. *)
THEOREM AwardTypeCorrect == AwardSpec => []AwardTypeOK
<1>1. GateInv /\ [AwardNext]_allvars => GateInv'
  BY GateInvStep
<1>2. GateInv => AwardTypeOK
  BY DEF GateInv
<1> QED
  BY <1>1, <1>2, GateInit, PTL DEF AwardSpec

(* The award route and the executor of consume only take steps of the RFQ  *)
(* lifecycle, so what is proved of it holds behind the gate as well.       *)
THEOREM GateRefinesLifecycle == AwardSpec => Spec
<1>1. AwardInit => Init
  BY DEF AwardInit
<1>2. AwardTypeOK /\ [AwardNext]_allvars => [Next]_vars
  BY GateStep
<1> QED
  BY <1>1, <1>2, AwardTypeCorrect, PTL DEF AwardSpec, Spec

(* An approval is spent at most once: a consumed request is never changed  *)
(* nor held again, whatever the interleaving of requests.                  *)
THEOREM ApprovalSpentOnceHolds == AwardSpec => ApprovalSpentOnce
<1>1. GateInv /\ [AwardNext]_allvars => GateInv'
  BY GateInvStep
<1>2. GateInv /\ [AwardNext]_allvars =>
        [\A i \in Ids : approvals[i].status = "consumed" =>
           /\ approvals'[i] = approvals[i]
           /\ \A s \in Sessions : i \notin hold'[s]]_allvars
  BY GateInvStep
<1> QED
  BY <1>1, <1>2, GateInit, PTL DEF AwardSpec, ApprovalSpentOnce

-----------------------------------------------------------------------------
(* What a session that awards rests on: with an approval, the ranking it   *)
(* evaluated first is what the approval snapshot says; without one, the    *)
(* notional of that ranking is within the threshold.                       *)
AwardSteps == {"awardLoaded", "awardLocked"}

GateView(s) ==
  /\ hold[s] # {} => tx[s].pc \in AwardSteps
  /\ \A i \in hold[s] : approvals[i].rfq = tx[s].rfq /\ approvals[i].win = tx[s].basis
  /\ tx[s].pc \in AwardSteps /\ hold[s] = {}
       => Notional(tx[s].rfq, tx[s].basis) <= Threshold

SoundGate ==
  /\ GateInv
  /\ SoundInv
  /\ \A s \in Sessions : GateView(s)

(* A session in an award can only lock, book or give up; one that is not   *)
(* does not come to be in one by such a step.                              *)
LEMMA AwardPath ==
  ASSUME TypeOK, NEW s \in Sessions, StepBesidesAward(s)
  PROVE  \/ tx'[s].pc = "idle"
         \/ AwardLock(s)
         \/ tx[s].pc \notin AwardSteps /\ tx'[s].pc \notin AwardSteps
<1> USE NoTxnTyped
<1> USE DEF AwardSteps
<1>0. tx \in [Sessions -> Txn]
  BY DEF TypeOK
<1>1. ASSUME Commit(s) PROVE tx'[s].pc = "idle"
  BY <1>0, <1>1 DEF Commit
<1>2. ASSUME NEW r \in Rfqs, Create(s, r)
      PROVE  tx'[s].pc \in {"idle", "dispatching"} /\ tx[s].pc = "idle"
  BY <1>0, <1>2 DEF Create, Begin, Txn
<1>3. ASSUME NEW r \in Trades, NEW c \in Cps, NEW p \in Prices, NEW at \in Stamps,
             QuoteLoad(s, r, c, p, at)
      PROVE  tx'[s].pc = "quoteLoaded" /\ tx[s].pc = "idle"
  BY <1>0, <1>3 DEF QuoteLoad, GetLive, Begin, Txn
<1>4. ASSUME NEW r \in Rfqs, RejectLoad(s, r) \/ CancelLoad(s, r)
      PROVE  tx'[s].pc = "closing" /\ tx[s].pc = "idle"
  BY <1>0, <1>4 DEF RejectLoad, CancelLoad, GetLive, Begin, Txn
<1>5. ASSUME NEW r \in Rfqs, NEW q \in quotes, RejectQuoteLoad(s, r, q)
      PROVE  tx'[s].pc = "rejectLoaded" /\ tx[s].pc = "idle"
  BY <1>0, <1>5 DEF RejectQuoteLoad, GetLive, Begin, Txn
<1>6. ASSUME RejectQuoteCount(s)
      PROVE  tx'[s].pc = "rejectCounted" /\ tx[s].pc = "rejectLoaded"
  BY <1>0, <1>6 DEF RejectQuoteCount, Txn
<1>7. ASSUME NEW r \in Rfqs, ArchiveLoad(s, r)
      PROVE  tx'[s].pc = "archiving" /\ tx[s].pc = "idle"
  BY <1>0, <1>7 DEF ArchiveLoad, GetLive, Begin, Txn
<1>8. ASSUME QuoteFlush(s)
      PROVE  tx'[s].pc = "quoteFlushed" /\ tx[s].pc = "quoteLoaded"
  BY <1>0, <1>8 DEF QuoteFlush, Txn
<1>9. ASSUME \/ CreateSent(s) \/ CreateUnsent(s) \/ QuoteCommit(s) \/ CloseCommit(s)
             \/ RejectQuoteCommit(s) \/ ArchiveCommit(s) \/ AwardCommit(s) \/ Abort(s)
      PROVE  Commit(s)
  BY <1>9 DEF CreateSent, CreateUnsent, QuoteCommit, CloseCommit, RejectQuoteCommit,
     ArchiveCommit, AwardCommit, Abort
<1> QED
  BY <1>1, <1>2, <1>3, <1>4, <1>5, <1>6, <1>7, <1>8, <1>9 DEF StepBesidesAward

(* What the load of an award leaves in the session. *)
LEMMA AwardLoaded ==
  ASSUME TypeOK, NEW s \in Sessions, NEW r \in Rfqs, AwardLoad(s, r)
  PROVE  /\ tx[s].pc = "idle" /\ tx'[s].pc = "awardLoaded" /\ tx'[s].rfq = r
         /\ tx'[s].basis = Winners(r)
<1> DEFINE w == Winners(r)
           x == [NoTxn EXCEPT !.pc = "awardLoaded", !.rfq = r, !.seen = state[r], !.basis = w]
<1>1. tx[s].pc = "idle" /\ tx' = [tx EXCEPT ![s] = x]
  BY DEF AwardLoad, GetLive, Begin, tables
<1> HIDE DEF w
<1>2. x.pc = "awardLoaded" /\ x.rfq = r /\ x.basis = w
  BY NoTxnTyped DEF Txn
<1> HIDE DEF x
<1>3. tx'[s].pc = "awardLoaded" /\ tx'[s].rfq = r /\ tx'[s].basis = w
  BY <1>1, <1>2 DEF TypeOK
<1> QED
  BY <1>1, <1>3 DEF w

(* A session that goes on with the same RFQ, the same first ranking and    *)
(* the same snapshots still rests on them.                                 *)
LEMMA ViewKept ==
  ASSUME NEW s \in Sessions, GateView(s),
         tx'[s].rfq = tx[s].rfq, tx'[s].basis = tx[s].basis,
         tx[s].pc \in AwardSteps <=> tx'[s].pc \in AwardSteps,
         hold'[s] = hold[s],
         \A i \in hold[s] : approvals'[i].rfq = approvals[i].rfq /\ approvals'[i].win = approvals[i].win
  PROVE  GateView(s)'
<1>1. PICK r : r = tx[s].rfq /\ r = tx'[s].rfq
  OBVIOUS
<1>2. PICK W : W = tx[s].basis /\ W = tx'[s].basis
  OBVIOUS
<1>3. /\ hold[s] # {} => tx'[s].pc \in AwardSteps
      /\ \A i \in hold[s] : approvals[i].rfq = r /\ approvals[i].win = W
      /\ tx'[s].pc \in AwardSteps /\ hold[s] = {} => Notional(r, W) <= Threshold
  BY <1>1, <1>2 DEF GateView
<1>4. \A i \in hold'[s] : approvals'[i].rfq = r /\ approvals'[i].win = W
  BY <1>3
<1>5. tx'[s].pc \in AwardSteps /\ hold'[s] = {} => (Notional(r, W) <= Threshold)'
  BY <1>3 DEF Notional
<1> QED
  BY <1>1, <1>2, <1>3, <1>4, <1>5 DEF GateView, Notional

(* Every step keeps what a session that awards rests on. *)
LEMMA GateViewStep ==
  ASSUME SoundGate, [AwardNext]_allvars, NEW s \in Sessions
  PROVE  GateView(s)'
<1>0. /\ approvals \in [Ids -> Approval] /\ hold \in [Sessions -> SUBSET Ids]
      /\ TypeOK /\ tx[s] \in Txn /\ GateView(s) /\ GateInv
  BY DEF SoundGate, GateInv, AwardTypeOK, TypeOK
<1>1. CASE OtherStep(s)
  <2>1. StepBesidesAward(s)
    BY <1>1 DEF OtherStep
  <2>2. CASE tx'[s].pc = "idle"
    <3>1. hold'[s] = {}
      BY <1>0, <1>1, <2>2, OtherStepGate
    <3> QED
      BY <2>2, <3>1 DEF GateView, AwardSteps
  <2>3. CASE AwardLock(s)
    <3>1. /\ tx'[s].pc = "awardLocked" /\ tx'[s].rfq = tx[s].rfq /\ tx[s].pc = "awardLoaded"
          /\ tx'[s].basis = tx[s].basis
      <4> DEFINE W == Winners(tx[s].rfq)
      <4>1. /\ tx' = [tx EXCEPT ![s] = [tx[s] EXCEPT !.pc = "awardLocked", !.win = W]]
            /\ tx[s].pc = "awardLoaded"
        BY <2>3 DEF AwardLock
      <4> HIDE DEF W
      <4>2. tx'[s] = [tx[s] EXCEPT !.pc = "awardLocked", !.win = W]
        BY <1>0, <4>1 DEF TypeOK
      <4> QED
        BY <1>0, <4>1, <4>2, ZenonT(40) DEF Txn
    <3>2. hold'[s] = hold[s]
      BY <1>0, <1>1, <3>1, OtherStepGate
    <3>3. \A i \in hold[s] : approvals'[i].rfq = approvals[i].rfq /\ approvals'[i].win = approvals[i].win
      BY <1>0, <1>1, OtherStepGate
    <3> QED
      BY <1>0, <3>1, <3>2, <3>3, ViewKept DEF AwardSteps
  <2>4. CASE tx[s].pc \notin AwardSteps /\ tx'[s].pc \notin AwardSteps
    <3>1. hold[s] = {}
      BY <1>0, <2>4 DEF GateView
    <3>2. hold'[s] = {}
      BY <1>0, <1>1, <3>1, OtherStepGate
    <3> QED
      BY <2>4, <3>2 DEF GateView
  <2> QED
    BY <1>0, <2>1, <2>2, <2>3, <2>4, AwardPath
<1>2. ASSUME NEW r \in Rfqs, DirectAward(s, r) PROVE GateView(s)'
  <2>1. PICK W : W = Winners(r)
    OBVIOUS
  <2>2. tx[s].pc = "idle" /\ tx'[s].pc = "awardLoaded" /\ tx'[s].rfq = r /\ tx'[s].basis = W
    BY <1>0, <1>2, <2>1, AwardLoaded DEF DirectAward
  <2>3. Notional(r, W) <= Threshold /\ hold' = hold
    BY <1>2, <2>1 DEF DirectAward
  <2>4. hold'[s] = {}
    BY <1>0, <2>2, <2>3 DEF GateView, AwardSteps
  <2> QED
    BY <2>2, <2>3, <2>4 DEF GateView, Notional
<1>3. ASSUME NEW i \in Ids, ConsumeApproval(s, i) PROVE GateView(s)'
  <2>1. PICK r \in Rfqs : r = approvals[i].rfq
    BY <1>0 DEF Approval
  <2>2. PICK W : W = Winners(r)
    OBVIOUS
  <2>3. tx'[s].pc = "awardLoaded" /\ tx'[s].rfq = r /\ tx'[s].basis = W
    BY <1>0, <1>3, <2>1, <2>2, AwardLoaded DEF ConsumeApproval
  <2>4. approvals' = approvals /\ hold'[s] = {i} /\ approvals[i].win = W
    BY <1>0, <1>3, <2>1, <2>2 DEF ConsumeApproval, NoDrift
  <2> QED
    BY <2>1, <2>3, <2>4 DEF GateView, AwardSteps
<1>4. ASSUME tx'[s] = tx[s], hold'[s] = hold[s],
             \A i \in hold[s] : approvals'[i].rfq = approvals[i].rfq /\ approvals'[i].win = approvals[i].win
      PROVE  GateView(s)'
  BY <1>0, <1>4, ViewKept
<1>5. ASSUME NEW t \in Sessions, NEW r \in Rfqs, RequestApproval(t, r) PROVE GateView(s)'
  <2>1. PICK i \in Ids \ Used : \E a : approvals' = [approvals EXCEPT ![i] = a]
    BY <1>5 DEF RequestApproval
  <2>2. i \notin hold[s]
    BY <2>1 DEF SoundGate, GateInv, InUse, HeldApproved
  <2>3. UNCHANGED <<tx, hold>>
    BY <1>5 DEF RequestApproval, vars
  <2> QED
    BY <1>0, <1>4, <2>1, <2>2, <2>3
<1>6. ASSUME NEW i \in Ids, GrantApproval(i) \/ CloseApproval(i) PROVE GateView(s)'
  <2>1. PICK st : approvals' = [approvals EXCEPT ![i] = [approvals[i] EXCEPT !.status = st]]
    BY <1>6 DEF GrantApproval, CloseApproval
  <2>2. approvals'[i].rfq = approvals[i].rfq /\ approvals'[i].win = approvals[i].win
    BY <1>0, <2>1 DEF Approval
  <2>3. UNCHANGED <<tx, hold>>
    BY <1>6 DEF GrantApproval, CloseApproval, vars
  <2> QED
    BY <1>0, <1>4, <2>1, <2>2, <2>3
<1>7. ASSUME NEW c \in Cps, SetKyc(c), UNCHANGED <<approvals, hold>> PROVE GateView(s)'
  BY <1>4, <1>7 DEF SetKyc
<1>8. CASE UNCHANGED allvars
  BY <1>4, <1>8 DEF allvars, vars
<1>9. ASSUME NEW t \in Sessions, t # s, OtherStep(t) PROVE GateView(s)'
  <2>1. tx'[s] = tx[s]
    BY <1>0, <1>9, OthersKept DEF OtherStep
  <2>2. hold'[s] = hold[s]
    BY <1>0, <1>9 DEF OtherStep
  <2>3. \A i \in hold[s] : approvals'[i].rfq = approvals[i].rfq /\ approvals'[i].win = approvals[i].win
    BY <1>0, <1>9, OtherStepGate
  <2> QED
    BY <1>4, <2>1, <2>2, <2>3
<1>10. ASSUME NEW t \in Sessions, t # s, NEW r \in Rfqs, DirectAward(t, r) PROVE GateView(s)'
  <2>1. tx'[s] = tx[s]
    BY <1>0, <1>10, OthersKept DEF DirectAward
  <2> QED
    BY <1>4, <1>10, <2>1 DEF DirectAward
<1>11. ASSUME NEW t \in Sessions, t # s, NEW i \in Ids, ConsumeApproval(t, i) PROVE GateView(s)'
  <2>0. approvals[i].rfq \in Rfqs
    BY <1>0 DEF Approval
  <2>1. tx'[s] = tx[s]
    BY <1>0, <1>11, <2>0, OthersKept DEF ConsumeApproval
  <2>2. hold'[s] = hold[s] /\ approvals' = approvals
    BY <1>0, <1>11 DEF ConsumeApproval
  <2> QED
    BY <1>4, <2>1, <2>2
<1> QED
  BY <1>1, <1>2, <1>3, <1>5, <1>6, <1>7, <1>8, <1>9, <1>10, <1>11 DEF AwardNext

(* The invariant of the gate is inductive while commits are fresh. *)
LEMMA SoundGateStep ==
  ASSUME SoundGate, [AwardNext]_allvars, [FreshCommit]_vars
  PROVE  SoundGate'
<1>1. GateInv'
  BY GateInvStep DEF SoundGate
<1>2. SoundInv'
  BY GateStep, SoundStep DEF SoundGate, GateInv
<1> QED
  BY <1>1, <1>2, GateViewStep DEF SoundGate

(* No approval is held before the first request. *)
LEMMA SoundGateInit == AwardInit => SoundGate
<1> SUFFICES ASSUME AwardInit PROVE SoundGate
  OBVIOUS
<1>1. \A s \in Sessions : hold[s] = {} /\ tx[s].pc = "idle"
  BY NoTxnTyped DEF AwardInit, Init
<1>2. \A s \in Sessions : GateView(s)
  BY <1>1 DEF GateView, AwardSteps
<1> QED
  BY <1>2, GateInit, SoundInit DEF AwardInit, SoundGate

(* The step that books for s is the commit of its award, and a fresh one   *)
(* books the ranking that was evaluated first.                             *)
LEMMA BooksFresh ==
  ASSUME SoundGate, [AwardNext]_allvars, [FreshCommit]_vars, NEW s \in Sessions, Books(s)
  PROVE  /\ tx[s].win = tx[s].basis /\ tx[s].win = Winners(tx[s].rfq)
         /\ tx[s].pc = "awardLocked"
<1>0. TypeOK /\ AwardTypeOK
  BY DEF SoundGate, GateInv, AwardTypeOK
<1>1. [Next]_vars
  BY <1>0, GateStep
<1>2. PICK t \in Sessions : AwardCommit(t)
  BY <1>0, <1>1, TableStep DEF Books
<1>3. t = s
  BY <1>0, <1>2 DEF AwardCommit, Commit, TypeOK, Books
<1>4. ~(UNCHANGED vars)
  BY DEF Books, vars, tables
<1>5. Fresh(s)
  BY <1>2, <1>3, <1>4 DEF FreshCommit, Commits
<1> QED
  BY <1>5 DEF Fresh, Books

(* While commits are fresh, what a consumed approval books is what was     *)
(* approved, through quotes, rejections and KYC changes between the        *)
(* approval and the award, and however many sessions overlap.              *)
THEOREM BookedAsApprovedHolds == AwardSpec /\ CommitsFresh => BookedAsApproved
<1>1. SoundGate /\ [AwardNext]_allvars /\ [FreshCommit]_vars => SoundGate'
  BY SoundGateStep
<1>2. ASSUME SoundGate, [AwardNext]_allvars, [FreshCommit]_vars, NEW s \in Sessions, Books(s)
      PROVE  \A i \in hold[s] : tx[s].win = approvals[i].win
  <2>1. tx[s].win = tx[s].basis
    BY <1>2, BooksFresh
  <2> QED
    BY <1>2, <2>1 DEF SoundGate, GateView
<1>3. SoundGate /\ [AwardNext]_allvars /\ [FreshCommit]_vars =>
        [\A s \in Sessions : Books(s) => \A i \in hold[s] : tx[s].win = approvals[i].win]_allvars
  BY <1>2
<1> QED
  BY <1>1, <1>3, SoundGateInit, PTL DEF AwardSpec, CommitsFresh, BookedAsApproved

(* While commits are fresh, nothing above the threshold is booked without  *)
(* an approval.                                                            *)
THEOREM UnapprovedStaysBelowThresholdHolds ==
  AwardSpec /\ CommitsFresh => UnapprovedStaysBelowThreshold
<1>1. SoundGate /\ [AwardNext]_allvars /\ [FreshCommit]_vars => SoundGate'
  BY SoundGateStep
<1>2. ASSUME SoundGate, [AwardNext]_allvars, [FreshCommit]_vars, NEW s \in Sessions, Books(s),
             hold[s] = {}
      PROVE  Notional(tx[s].rfq, tx[s].win) <= Threshold
  <2>1. tx[s].win = tx[s].basis /\ tx[s].pc = "awardLocked"
    BY <1>2, BooksFresh
  <2> QED
    BY <1>2, <2>1 DEF SoundGate, GateView, AwardSteps
<1>3. SoundGate /\ [AwardNext]_allvars /\ [FreshCommit]_vars =>
        [\A s \in Sessions : Books(s) /\ hold[s] = {} =>
           Notional(tx[s].rfq, tx[s].win) <= Threshold]_allvars
  BY <1>2
<1> QED
  BY <1>1, <1>3, SoundGateInit, PTL DEF AwardSpec, CommitsFresh, UnapprovedStaysBelowThreshold

-----------------------------------------------------------------------------
(* Refinement: the award behind the gate implements module ApprovalGate.   *)
(* The effects are the quotes that contracts are booked on.                *)
GateStatus ==
  [i \in Ids |-> IF approvals[i].win = {} THEN "none" ELSE approvals[i].status]

GateAsked == [i \in Ids |-> approvals[i].win]

GateDone == {c.quote : c \in contracts}

(* The trades that an award of r books. *)
Booking(r) == IF r \in Spreads THEN Legs(r) ELSE {r}

(* W is one quote for each trade of some RFQ, and worth no approval. *)
WithinThreshold(W) ==
  \E r \in Rfqs : /\ {q.rfq : q \in W} = Booking(r)
                  /\ Notional(r, W) <= Threshold

Gate ==
  INSTANCE ApprovalGate WITH
    Requests <- Ids, Effects <- Quote, Exempt <- WithinThreshold,
    status <- GateStatus, asked <- GateAsked, done <- GateDone

ImplementsGate == Gate!Spec

(* A step that the gate allows or does not see. *)
GateMove == [Gate!Next]_<<GateStatus, GateAsked, GateDone>>

(* A session holds one approval at a time. *)
OneHeld == \A s \in Sessions : \A i, j \in hold[s] : i = j

(* Consumption takes one approval into a session that has none. *)
LEMMA OneHeldStep ==
  ASSUME GateInv, OneHeld, [AwardNext]_allvars
  PROVE  OneHeld'
<1>0. hold \in [Sessions -> SUBSET Ids]
  BY DEF GateInv, AwardTypeOK
<1>1. ASSUME NEW s \in Sessions, OtherStep(s) PROVE OneHeld'
  BY <1>1, OtherStepGate DEF OneHeld
<1>2. ASSUME NEW s \in Sessions, NEW i \in Ids, ConsumeApproval(s, i) PROVE OneHeld'
  BY <1>0, <1>2 DEF ConsumeApproval, OneHeld
<1>3. ASSUME hold' = hold PROVE OneHeld'
  BY <1>3 DEF OneHeld
<1> QED
  BY <1>1, <1>2, <1>3 DEF AwardNext, DirectAward, RequestApproval, GrantApproval, CloseApproval,
     allvars

(* The winners of an RFQ are quotes for its trades, and for all of them. *)
LEMMA WinnersCover ==
  ASSUME TypeOK, NEW r \in Rfqs, Winners(r) # {}
  PROVE  /\ Winners(r) \in SUBSET Quote
         /\ {q.rfq : q \in Winners(r)} = Booking(r)
<1>1. \A x \in Rfqs : \A y \in Active(x) : y.price \in Int /\ y.rfq = x
  BY ActivePriced
<1>2. \A x : Active(x) \subseteq Quote
  BY DEF Active, TypeOK
<1>3. CASE r \in Spreads
  <2> DEFINE B == LatestQuotes(Active(BuyLeg[r]))
             S == LatestQuotes(Active(SellLeg[r]))
             W == Winners(r)
  <2>1. BuyLeg[r] \in Rfqs /\ SellLeg[r] \in Rfqs
    BY <1>3, ConstantsAssumption DEF Rfqs
  <2>2. B \subseteq Active(BuyLeg[r]) /\ S \subseteq Active(SellLeg[r])
    BY DEF LatestQuotes
  <2>3. W = SpreadWinner(Direction[r], Active(BuyLeg[r]), Active(SellLeg[r]))
    BY <1>3 DEF Winners
  <2>4. PICK P \in SUBSET (B \X S) : W = UNION {{w[1], w[2]} : w \in P}
    <3>1. CASE W = {}
      <4>1. {} \in SUBSET (B \X S) /\ UNION {{w[1], w[2]} : w \in {}} = {}
        OBVIOUS
      <4> QED
        BY <3>1, <4>1
    <3>2. CASE W # {}
      BY <2>3, <3>2 DEF SpreadWinner
    <3> QED
      BY <3>1, <3>2
  <2> HIDE DEF B, S, W
  <2>5. \A q \in W : q \in Active(BuyLeg[r]) \/ q \in Active(SellLeg[r])
    BY <2>2, <2>4
  <2>6. PICK w \in B \X S : w[1] \in W /\ w[2] \in W
    BY <2>4 DEF W
  <2>7. w[1].rfq = BuyLeg[r] /\ w[2].rfq = SellLeg[r]
    BY <1>1, <2>1, <2>2
  <2>8. {q.rfq : q \in W} = {BuyLeg[r], SellLeg[r]}
    BY <1>1, <2>1, <2>5, <2>6, <2>7
  <2> QED
    BY <1>2, <1>3, <2>5, <2>8 DEF W, Booking, Legs
<1>4. CASE r \notin Spreads
  <2> DEFINE W == Winners(r)
  <2>1. W \subseteq Active(r)
    BY <1>4, TradeWinnerGiven DEF Winners
  <2> HIDE DEF W
  <2>2. {q.rfq : q \in W} = {r}
    BY <1>1, <2>1 DEF W
  <2> QED
    BY <1>2, <1>4, <2>1, <2>2 DEF W, Booking
<1> QED
  BY <1>3, <1>4

(* A step that touches neither approvals nor contracts is not seen. *)
LEMMA GateUnseen ==
  ASSUME UNCHANGED <<approvals, contracts>>
  PROVE  GateMove
  BY DEF GateMove, GateStatus, GateAsked, GateDone

(* Booking the quotes W brings about exactly them. *)
LEMMA BookedQuotes ==
  ASSUME NEW W
  PROVE  {c.quote : c \in Booked(W)} = W
<1> DEFINE Row(q) ==
             [id |-> nextContract + (IF \E p \in W : p.rfq # q.rfq /\ p.id < q.id THEN 1 ELSE 0),
              rfq |-> q.rfq, quote |-> q]
<1>1. \A q \in W : Row(q).quote = q
  OBVIOUS
<1>2. Booked(W) = {Row(q) : q \in W}
  BY DEF Booked
<1> HIDE DEF Row
<1> QED
  BY <1>1, <1>2

(* While commits are fresh, every step that writes an approval or books is  *)
(* one step of the gate: the commit of an award applies the approval it     *)
(* holds, or passes as exempt when it holds none.                           *)
LEMMA GateMoves ==
  ASSUME SoundGate, OneHeld, [AwardNext]_allvars, [FreshCommit]_vars
  PROVE  GateMove
<1>0. /\ approvals \in [Ids -> Approval] /\ hold \in [Sessions -> SUBSET Ids]
      /\ TypeOK /\ GateInv
  BY DEF SoundGate, GateInv, AwardTypeOK
<1>1. ASSUME NEW s \in Sessions, OtherStep(s) PROVE GateMove
  <2>1. CASE contracts' = contracts
    <3>1. approvals' = approvals
      BY <1>0, <1>1, <2>1 DEF OtherStep
    <3> QED
      BY <2>1, <3>1, GateUnseen
  <2>2. CASE contracts' # contracts
    <3> DEFINE W == tx[s].win
               a == tx[s].rfq
    <3>1. AwardCommit(s)
      BY <1>0, <1>1, <2>2, BooksAtCommit DEF OtherStep
    <3>2. tx[s].pc = "awardLocked" /\ contracts' = contracts \cup Booked(W)
      BY <3>1 DEF AwardCommit
    <3>3. W = Winners(a) /\ W = tx[s].basis /\ a \in Rfqs
      <4>1. tx'[s].pc = "idle"
        BY <1>0, <3>1, NoTxnTyped DEF AwardCommit, Commit, TypeOK
      <4>2. Books(s)
        BY <2>2, <3>2, <4>1 DEF Books
      <4>3. a \in Rfqs
        BY <1>0 DEF TypeOK, Txn
      <4> QED
        BY <4>2, <4>3, BooksFresh
    <3>4. W # {}
      <4>1. ASSUME W = {} PROVE Booked(W) = {}
        BY <4>1 DEF Booked
      <4> HIDE DEF W
      <4> QED
        BY <2>2, <3>2, <4>1
    <3> HIDE DEF W, a
    <3>5. W \in SUBSET Quote /\ {q.rfq : q \in W} = Booking(a)
      BY <1>0, <3>3, <3>4, WinnersCover
    <3>6. GateDone' = GateDone \cup W
      <4>1. {c.quote : c \in contracts \cup Booked(W)}
              = {c.quote : c \in contracts} \cup {c.quote : c \in Booked(W)}
        OBVIOUS
      <4> QED
        BY <3>2, <4>1, BookedQuotes DEF GateDone
    <3>7. CASE hold[s] = {}
      <4>1. approvals' = approvals
        BY <1>0, <1>1, <3>7 DEF OtherStep
      <4>2. Notional(a, W) <= Threshold
        BY <3>2, <3>3, <3>7 DEF SoundGate, GateView, AwardSteps, a
      <4>3. WithinThreshold(W)
        BY <3>3, <3>5, <4>2 DEF WithinThreshold
      <4>4. Gate!Pass(W)
        BY <3>6, <4>1, <4>3 DEF Gate!Pass, GateStatus, GateAsked
      <4> QED
        BY <3>5, <4>4 DEF GateMove, Gate!Next
    <3>8. CASE hold[s] # {}
      <4>1. PICK i \in Ids : hold[s] = {i}
        BY <1>0, <3>8 DEF OneHeld
      <4>2. /\ \A j \in Ids \ {i} : approvals'[j] = approvals[j]
            /\ approvals'[i] = [approvals[i] EXCEPT !.status = "consumed"]
            /\ DOMAIN approvals' = Ids
        BY <1>1, <2>2, <4>1 DEF OtherStep
      <4>3. approvals[i].status = "approved" /\ approvals[i].win = W
        BY <3>2, <3>3, <4>1 DEF SoundGate, GateInv, HeldApproved, GateView, a
      <4>4. approvals'[i].status = "consumed" /\ approvals'[i].win = W
        BY <1>0, <4>2, <4>3 DEF Approval
      <4>5. /\ GateStatus[i] = "approved" /\ GateStatus'[i] = "consumed"
            /\ GateAsked[i] = W /\ GateAsked'[i] = W
        BY <3>4, <4>3, <4>4 DEF GateStatus, GateAsked
      <4>6. \A j \in Ids \ {i} : GateStatus'[j] = GateStatus[j] /\ GateAsked'[j] = GateAsked[j]
        BY <4>2 DEF GateStatus, GateAsked
      <4>7. /\ GateStatus = [j \in Ids |-> GateStatus[j]]
            /\ GateAsked = [j \in Ids |-> GateAsked[j]]
            /\ GateStatus' = [j \in Ids |-> GateStatus'[j]]
            /\ GateAsked' = [j \in Ids |-> GateAsked'[j]]
        BY DEF GateStatus, GateAsked
      <4>8. Gate!Apply(i)
        BY <3>6, <4>5, <4>6, <4>7 DEF Gate!Apply
      <4> QED
        BY <4>8 DEF GateMove, Gate!Next
    <3> QED
      BY <3>7, <3>8
  <2> QED
    BY <2>1, <2>2
<1>2. ASSUME NEW s \in Sessions, NEW r \in Rfqs, RequestApproval(s, r) PROVE GateMove
  <2> DEFINE W == Winners(r)
  <2>1. W # {} /\ contracts' = contracts
    BY <1>2 DEF RequestApproval, vars, tables
  <2>2. PICK i \in Ids \ Used :
          approvals' = [approvals EXCEPT ![i] = [rfq |-> r, win |-> W, status |-> "pending"]]
    BY <1>2 DEF RequestApproval
  <2>3. W \in SUBSET Quote
    BY <1>0, <2>1, WinnersCover
  <2> HIDE DEF W
  <2>4. approvals[i].win = {}
    BY <2>2 DEF Used
  <2>5. approvals'[i].win = W /\ approvals'[i].status = "pending"
    BY <1>0, <2>2
  <2>6. \A j \in Ids \ {i} : approvals'[j] = approvals[j]
    BY <1>0, <2>2
  <2>7. /\ GateStatus[i] = "none" /\ GateStatus'[i] = "pending" /\ GateAsked'[i] = W
    BY <2>1, <2>4, <2>5 DEF GateStatus, GateAsked
  <2>8. \A j \in Ids \ {i} : GateStatus'[j] = GateStatus[j] /\ GateAsked'[j] = GateAsked[j]
    BY <2>6 DEF GateStatus, GateAsked
  <2>9. /\ GateStatus = [j \in Ids |-> GateStatus[j]]
        /\ GateAsked = [j \in Ids |-> GateAsked[j]]
        /\ GateStatus' = [j \in Ids |-> GateStatus'[j]]
        /\ GateAsked' = [j \in Ids |-> GateAsked'[j]]
        /\ GateDone' = GateDone
    BY <2>1 DEF GateStatus, GateAsked, GateDone
  <2>10. Gate!Park(i, W)
    BY <2>1, <2>7, <2>8, <2>9 DEF Gate!Park
  <2> QED
    BY <2>3, <2>10 DEF GateMove, Gate!Next
<1>3. ASSUME NEW i \in Ids, GrantApproval(i) \/ CloseApproval(i) PROVE GateMove
  <2>1. i \in Used /\ contracts' = contracts
    BY <1>3 DEF GrantApproval, CloseApproval, vars, tables
  <2>2. PICK to \in {"approved", "closed"} :
          /\ approvals' = [approvals EXCEPT ![i] = [approvals[i] EXCEPT !.status = to]]
          /\ \/ to = "approved" /\ approvals[i].status = "pending"
             \/ to = "closed" /\ approvals[i].status \in {"pending", "approved"}
    BY <1>3 DEF GrantApproval, CloseApproval
  <2>3. approvals[i].win # {}
    BY <2>1 DEF Used
  <2>4. approvals'[i].win = approvals[i].win /\ approvals'[i].status = to
    BY <1>0, <2>2 DEF Approval
  <2>5. \A j \in Ids \ {i} : approvals'[j] = approvals[j]
    BY <1>0, <2>2
  <2>6. GateStatus[i] = approvals[i].status /\ GateStatus'[i] = to
    BY <2>3, <2>4 DEF GateStatus
  <2>7. \A j \in Ids \ {i} : GateStatus'[j] = GateStatus[j]
    BY <2>5 DEF GateStatus
  <2>8. /\ GateStatus = [j \in Ids |-> GateStatus[j]]
        /\ GateStatus' = [j \in Ids |-> GateStatus'[j]]
    BY DEF GateStatus
  <2>9. GateAsked' = GateAsked /\ GateDone' = GateDone
    BY <2>1, <2>4, <2>5 DEF GateAsked, GateDone
  <2>10. CASE to = "approved"
    <3>1. Gate!Approve(i)
      BY <2>2, <2>6, <2>7, <2>8, <2>9, <2>10 DEF Gate!Approve
    <3> QED
      BY <3>1 DEF GateMove, Gate!Next
  <2>11. CASE to = "closed"
    <3>1. Gate!Close({i})
      BY <2>2, <2>6, <2>7, <2>8, <2>9, <2>11 DEF Gate!Close
    <3> QED
      BY <3>1 DEF GateMove, Gate!Next
  <2> QED
    BY <2>10, <2>11
<1>4. ASSUME UNCHANGED <<approvals, contracts>> PROVE GateMove
  BY <1>4, GateUnseen
<1>5. ASSUME NEW s \in Sessions, NEW r \in Rfqs, DirectAward(s, r)
      PROVE  UNCHANGED <<approvals, contracts>>
  BY <1>5 DEF DirectAward, AwardLoad, tables
<1>6. ASSUME NEW s \in Sessions, NEW i \in Ids, ConsumeApproval(s, i)
      PROVE  UNCHANGED <<approvals, contracts>>
  BY <1>6 DEF ConsumeApproval, AwardLoad, tables
<1>7. ASSUME NEW c \in Cps, SetKyc(c), UNCHANGED <<approvals, hold>>
      PROVE  UNCHANGED <<approvals, contracts>>
  BY <1>7 DEF SetKyc
<1>8. CASE UNCHANGED allvars
  BY <1>4, <1>8 DEF allvars, vars, tables
<1> QED
  BY <1>1, <1>2, <1>3, <1>4, <1>5, <1>6, <1>7, <1>8 DEF AwardNext

(* While commits are fresh, the award route, the ranking and the consume    *)
(* executor together implement the atomic gate of module ApprovalGate:      *)
(* contracts are booked only on quotes that are within the threshold or     *)
(* were parked and approved, as parked, and once.                           *)
THEOREM AwardImplementsGate == AwardSpec /\ CommitsFresh => ImplementsGate
<1>1. AwardInit => Gate!Init /\ OneHeld
  <2> SUFFICES ASSUME AwardInit PROVE Gate!Init /\ OneHeld
    OBVIOUS
  <2>1. approvals = [i \in Ids |-> NoApproval] /\ NoApproval.win = {} /\ contracts = {}
    BY DEF AwardInit, Init, NoApproval
  <2>2. \A i \in Ids : approvals[i].win = {}
    BY <2>1
  <2>3. /\ GateStatus = [i \in Ids |-> "none"] /\ GateAsked = [i \in Ids |-> {}]
        /\ GateDone = {}
    BY <2>1, <2>2 DEF GateStatus, GateAsked, GateDone
  <2>4. OneHeld
    BY DEF AwardInit, OneHeld
  <2> QED
    BY <2>3, <2>4 DEF Gate!Init
<1>2. SoundGate /\ OneHeld /\ [AwardNext]_allvars /\ [FreshCommit]_vars => (SoundGate /\ OneHeld)'
  BY SoundGateStep, OneHeldStep DEF SoundGate
<1>3. SoundGate /\ OneHeld /\ [AwardNext]_allvars /\ [FreshCommit]_vars
        => [Gate!Next]_<<GateStatus, GateAsked, GateDone>>
  BY GateMoves DEF GateMove
<1> QED
  BY <1>1, <1>2, <1>3, SoundGateInit, PTL DEF AwardSpec, CommitsFresh, ImplementsGate, Gate!Spec

(* What the gate is for, read off the tables: every quote that a contract   *)
(* is booked on was in the snapshot of a request that has been consumed, or *)
(* was booked in an award within the threshold.                             *)
Warranted ==
  \A e \in GateDone :
    \/ \E i \in Ids : GateStatus[i] = "consumed" /\ e \in GateAsked[i]
    \/ \E W \in SUBSET GateDone : e \in W /\ WithinThreshold(W)

(* A step of the gate keeps the warrants of what was done and gives one to  *)
(* what it does.                                                            *)
LEMMA WarrantStep ==
  ASSUME Warranted, GateMove
  PROVE  Warranted'
<1>0. DOMAIN GateStatus = Ids /\ DOMAIN GateAsked = Ids
  BY DEF GateStatus, GateAsked
<1>1. ASSUME GateDone \subseteq GateDone',
             \A i \in Ids : GateStatus[i] = "consumed" =>
               GateStatus'[i] = "consumed" /\ GateAsked'[i] = GateAsked[i],
             NEW D, GateDone' = GateDone \cup D,
             \/ D = {}
             \/ WithinThreshold(D)
             \/ \E i \in Ids : GateStatus'[i] = "consumed" /\ D \subseteq GateAsked'[i]
      PROVE  Warranted'
  <2> SUFFICES ASSUME NEW e \in GateDone'
               PROVE  \/ \E i \in Ids : GateStatus'[i] = "consumed" /\ e \in GateAsked'[i]
                      \/ \E W \in SUBSET GateDone' : e \in W /\ WithinThreshold(W)
    BY DEF Warranted
  <2>1. CASE e \in GateDone
    <3>1. CASE \E i \in Ids : GateStatus[i] = "consumed" /\ e \in GateAsked[i]
      BY <1>1, <3>1
    <3>2. CASE \E W \in SUBSET GateDone : e \in W /\ WithinThreshold(W)
      BY <1>1, <3>2
    <3> QED
      BY <2>1, <3>1, <3>2 DEF Warranted
  <2>2. CASE e \in D
    BY <1>1, <2>2
  <2> QED
    BY <1>1, <2>1, <2>2
<1>2. ASSUME UNCHANGED <<GateStatus, GateAsked, GateDone>> PROVE Warranted'
  BY <1>2 DEF Warranted
<1>3. ASSUME NEW i \in Ids, NEW X \in SUBSET Quote, Gate!Park(i, X) PROVE Warranted'
  <2>1. GateDone' = GateDone \cup {}
    BY <1>3 DEF Gate!Park
  <2>2. \A j \in Ids : GateStatus[j] = "consumed" =>
          GateStatus'[j] = "consumed" /\ GateAsked'[j] = GateAsked[j]
    BY <1>0, <1>3 DEF Gate!Park
  <2> QED
    BY <1>1, <2>1, <2>2
<1>4. ASSUME NEW i \in Ids, Gate!Approve(i) PROVE Warranted'
  <2>1. GateDone' = GateDone \cup {}
    BY <1>4 DEF Gate!Approve
  <2>2. \A j \in Ids : GateStatus[j] = "consumed" =>
          GateStatus'[j] = "consumed" /\ GateAsked'[j] = GateAsked[j]
    BY <1>0, <1>4 DEF Gate!Approve
  <2> QED
    BY <1>1, <2>1, <2>2
<1>5. ASSUME NEW R \in SUBSET Ids, Gate!Close(R) PROVE Warranted'
  <2>1. GateDone' = GateDone \cup {}
    BY <1>5 DEF Gate!Close
  <2>2. \A j \in Ids : GateStatus[j] = "consumed" =>
          GateStatus'[j] = "consumed" /\ GateAsked'[j] = GateAsked[j]
    BY <1>0, <1>5 DEF Gate!Close
  <2> QED
    BY <1>1, <2>1, <2>2
<1>6. ASSUME NEW i \in Ids, Gate!Apply(i) PROVE Warranted'
  <2>1. GateDone' = GateDone \cup GateAsked[i]
    BY <1>6 DEF Gate!Apply
  <2>2. GateStatus'[i] = "consumed" /\ GateAsked' = GateAsked
    BY <1>0, <1>6 DEF Gate!Apply
  <2>3. \A j \in Ids : GateStatus[j] = "consumed" => GateStatus'[j] = "consumed"
    BY <1>0, <1>6 DEF Gate!Apply
  <2> QED
    BY <1>1, <2>1, <2>2, <2>3
<1>7. ASSUME NEW X \in SUBSET Quote, Gate!Pass(X) PROVE Warranted'
  <2>1. /\ GateDone' = GateDone \cup X /\ WithinThreshold(X)
        /\ UNCHANGED <<GateStatus, GateAsked>>
    BY <1>7 DEF Gate!Pass
  <2> QED
    BY <1>1, <2>1
<1> QED
  BY <1>2, <1>3, <1>4, <1>5, <1>6, <1>7 DEF GateMove, Gate!Next

(* While commits are fresh, no contract is on record that neither an        *)
(* approval nor the threshold allows: from the gate that is implemented.    *)
THEOREM EveryBookingWarranted == AwardSpec /\ CommitsFresh => []Warranted
<1>1. AwardInit => SoundGate /\ OneHeld /\ Warranted
  <2>1. AwardInit => OneHeld
    BY DEF AwardInit, OneHeld
  <2>2. AwardInit => Warranted
    <3>1. AwardInit => GateDone = {}
      BY DEF AwardInit, Init, GateDone
    <3> QED
      BY <3>1 DEF Warranted
  <2> QED
    BY <2>1, <2>2, SoundGateInit
<1>2. SoundGate /\ OneHeld /\ Warranted /\ [AwardNext]_allvars /\ [FreshCommit]_vars
        => (SoundGate /\ OneHeld /\ Warranted)'
  <2> SUFFICES ASSUME SoundGate, OneHeld, Warranted, [AwardNext]_allvars, [FreshCommit]_vars
               PROVE  SoundGate' /\ OneHeld' /\ Warranted'
    OBVIOUS
  <2>1. SoundGate' /\ OneHeld'
    BY SoundGateStep, OneHeldStep DEF SoundGate
  <2>2. Warranted'
    BY GateMoves, WarrantStep
  <2> QED
    BY <2>1, <2>2
<1> QED
  BY <1>1, <1>2, PTL DEF AwardSpec, CommitsFresh
=============================================================================
