---------------------------- MODULE RfqSessions ----------------------------
(***************************************************************************)
(* The RFQ lifecycle of backend/app/services/rfq_service.py, run by        *)
(* concurrent database sessions.                                           *)
(*                                                                         *)
(* Every HTTP handler (and the inbound orchestrator) owns one SQLAlchemy   *)
(* session: it loads the RFQ into its identity map, decides on the loaded  *)
(* attributes, and writes at flush or commit under READ COMMITTED.  The    *)
(* loaded attributes are NOT refreshed by a later SELECT ... FOR UPDATE    *)
(* unless populate_existing is asked for.  So an operation is split where  *)
(* other sessions can commit in between:                                   *)
(*   tables     state, archived, trail, quotes, rejected, contracts, kyc   *)
(*   session    tx[s], what session s has read or flushed and not yet      *)
(*              committed                                                  *)
(* Row locks follow from tx: award holds FOR UPDATE on its RFQ from        *)
(* AwardLock to AwardCommit; an inserted, uncommitted quote holds FOR KEY  *)
(* SHARE on its RFQ through the foreign key.                               *)
(***************************************************************************)
EXTENDS RfqQuotes

CONSTANTS
  Trades,       \* RFQ ids of intent commercial_hedge or global_position
  Spreads,      \* RFQ ids of intent spread
  BuyLeg,       \* [Spreads -> Trades] buy_trade_id
  SellLeg,      \* [Spreads -> Trades] sell_trade_id
  Direction,    \* [Trades \cup Spreads -> {"BUY", "SELL"}]
  Cps,          \* counterparties
  Prices,       \* positive quote prices
  Stamps,       \* values of received_at
  Sessions,     \* database sessions that may be open at once
  MaxQuotes,    \* bound on rows of rfq_quotes
  MaxContracts  \* bound on rows of hedge_contracts

Rfqs == Trades \cup Spreads

ASSUME ConstantsAssumption ==
  /\ Trades \cap Spreads = {}
  /\ Trades # {}
  /\ BuyLeg \in [Spreads -> Trades]
  /\ SellLeg \in [Spreads -> Trades]
  /\ \A sp \in Spreads : BuyLeg[sp] # SellLeg[sp]
  /\ Direction \in [Rfqs -> {"BUY", "SELL"}]
  /\ Prices \subseteq Nat \ {0}
  /\ Stamps \subseteq Nat
  /\ MaxQuotes \in Nat
  /\ MaxContracts \in Nat

VARIABLES
  state,      \* rfqs.state; "NONE" before the row exists
  archived,   \* rfqs with deleted_at set
  trail,      \* state reached by replaying the RFQ's state events in order,
              \* "BROKEN" once an event's from_state is not that state
  quotes,     \* committed rows of rfq_quotes (immutable part)
  rejected,   \* ids of quotes whose state is rejected
  contracts,  \* committed rows of hedge_contracts booked by an award
  kyc,        \* counterparties whose kyc_status is approved
  nextQuote,  \* next quote id (sequence, not rolled back)
  nextContract,
  tx          \* the open work of each session

tables == <<state, archived, trail, quotes, rejected, contracts, kyc>>
vars == <<tables, nextQuote, nextContract, tx>>

RFQState == {"CREATED", "SENT", "QUOTED", "CLOSED"}
States == RFQState \cup {"NONE"}

Quote == [id : Nat, rfq : Trades, cp : Cps, price : Prices, received : Stamps]
Contract == [id : Nat, rfq : Trades, quote : Quote]

Steps == {"idle", "dispatching", "quoteLoaded", "quoteFlushed", "closing",
          "rejectLoaded", "rejectCounted", "archiving",
          "awardLoaded", "awardLocked"}

(* What a session holds: its step, the RFQ, the cached rfq.state, the      *)
(* quote it inserts or rejects, the RFQs it decided to write beside its    *)
(* own, the ranking winners it evaluated first and those it will book.     *)
Txn == [pc : Steps, rfq : Rfqs, seen : States, row : SUBSET Quote,
        also : SUBSET Rfqs, basis : SUBSET Quote, win : SUBSET Quote]

NoTxn == [pc |-> "idle", rfq |-> CHOOSE r \in Rfqs : TRUE, seen |-> "NONE",
          row |-> {}, also |-> {}, basis |-> {}, win |-> {}]

TypeOK ==
  /\ state \in [Rfqs -> States]
  /\ archived \in SUBSET Rfqs
  /\ trail \in [Rfqs -> States \cup {"BROKEN"}]
  /\ quotes \in SUBSET Quote
  /\ rejected \in SUBSET Nat
  /\ contracts \in SUBSET Contract
  /\ kyc \in SUBSET Cps
  /\ nextQuote \in Nat
  /\ nextContract \in Nat
  /\ tx \in [Sessions -> Txn]

Init ==
  /\ state = [r \in Rfqs |-> "NONE"]
  /\ archived = {}
  /\ trail = [r \in Rfqs |-> "NONE"]
  /\ quotes = {}
  /\ rejected = {}
  /\ contracts = {}
  /\ kyc = Cps
  /\ nextQuote = 1
  /\ nextContract = 1
  /\ tx = [s \in Sessions |-> NoTxn]

-----------------------------------------------------------------------------
(* Helpers *)

Active(r) == {q \in quotes : q.rfq = r /\ q.id \notin rejected}

Legs(sp) == {BuyLeg[sp], SellLeg[sp]}

(* resolve_awarded_quote and the head of the ranking in award: the quotes  *)
(* an award of r would book now, {} when the ranking is not awardable.     *)
Winners(r) ==
  IF r \in Spreads
  THEN SpreadWinner(Direction[r], Active(BuyLeg[r]), Active(SellLeg[r]))
  ELSE TradeWinner(Direction[r], Active(r))

(* An RFQStateEvent from f to t appended to a history that reads h. *)
Replay(h, f, t) == IF h = f THEN t ELSE "BROKEN"

Begin(s, step) == tx' = [tx EXCEPT ![s] = step]

Commit(s) == tx' = [tx EXCEPT ![s] = NoTxn]

(* No other session holds FOR UPDATE on r: an UPDATE of r need not wait. *)
Writable(s, r) ==
  \A t \in Sessions \ {s} : ~(tx[t].pc = "awardLocked" /\ tx[t].rfq = r)

(* FOR UPDATE also waits for uncommitted quotes of r (FOR KEY SHARE). *)
Lockable(s, r) ==
  /\ Writable(s, r)
  /\ \A t \in Sessions \ {s} : ~(tx[t].pc = "quoteFlushed" /\ tx[t].rfq = r)

(* RFQService.get_live on a session with an empty identity map. *)
GetLive(s, r) == tx[s].pc = "idle" /\ state[r] # "NONE" /\ r \notin archived

-----------------------------------------------------------------------------
(* create: every invitee passes the KYC gate; the row and its queued       *)
(* invitations are committed in state CREATED, then dispatched; the final  *)
(* commit moves to SENT, whatever the row says by then, if one send worked.*)

Create(s, r) ==
  /\ tx[s].pc = "idle"
  /\ state[r] = "NONE"
  /\ r \in Spreads => \A leg \in Legs(r) : state[leg] # "NONE"
  /\ state' = [state EXCEPT ![r] = "CREATED"]
  /\ trail' = [trail EXCEPT ![r] = "CREATED"]
  /\ \/ kyc # {} /\ Begin(s, [NoTxn EXCEPT !.pc = "dispatching", !.rfq = r,
                                           !.seen = "CREATED"])
     \/ UNCHANGED tx    \* no invitations in the payload: nothing to dispatch
  /\ UNCHANGED <<archived, quotes, rejected, contracts, kyc, nextQuote, nextContract>>

CreateSent(s) ==
  LET r == tx[s].rfq IN
  /\ tx[s].pc = "dispatching"
  /\ Writable(s, r)
  /\ state' = [state EXCEPT ![r] = "SENT"]
  /\ trail' = [trail EXCEPT ![r] = Replay(trail[r], "CREATED", "SENT")]
  /\ Commit(s)
  /\ UNCHANGED <<archived, quotes, rejected, contracts, kyc, nextQuote, nextContract>>

(* No invitation could be sent: the RFQ stays CREATED. *)
CreateUnsent(s) ==
  /\ tx[s].pc = "dispatching"
  /\ Commit(s)
  /\ UNCHANGED <<tables, nextQuote, nextContract>>

-----------------------------------------------------------------------------
(* submit_quote: load and gates, flush of the quote row and the query for  *)
(* parent spreads, commit with the state changes decided on the way.       *)

(* Mutation: any RFQ takes quotes, and each is treated as the first. *)
QuoteLoadReopens(s, r, c, p, at) ==
  /\ GetLive(s, r)
  /\ r \in Trades
  /\ c \in kyc
  /\ nextQuote <= MaxQuotes
  /\ nextQuote' = nextQuote + 1
  /\ Begin(s, [NoTxn EXCEPT !.pc = "quoteLoaded", !.rfq = r, !.seen = "SENT",
                 !.row = {[id |-> nextQuote, rfq |-> r, cp |-> c, price |-> p,
                           received |-> at]}])
  /\ UNCHANGED <<tables, nextContract>>

QuoteLoad(s, r, c, p, at) ==
  /\ GetLive(s, r)
  /\ r \in Trades
  /\ state[r] \in {"SENT", "QUOTED"}
  /\ c \in kyc
  /\ nextQuote <= MaxQuotes
  /\ nextQuote' = nextQuote + 1
  /\ Begin(s, [NoTxn EXCEPT !.pc = "quoteLoaded", !.rfq = r, !.seen = state[r],
                 !.row = {[id |-> nextQuote, rfq |-> r, cp |-> c, price |-> p,
                           received |-> at]}])
  /\ UNCHANGED <<tables, nextContract>>

(* Parent spreads still SENT for which the new quote completes a pair. *)
Promotable(s, r) ==
  {sp \in Spreads :
     /\ state[sp] = "SENT"
     /\ r \in Legs(sp)
     /\ LET Seen(leg) == Active(leg) \cup {q \in tx[s].row : q.rfq = leg}
        IN  CommonCounterparty(Seen(BuyLeg[sp]), Seen(SellLeg[sp]))}

(* Mutation: no foreign key, so the insert does not wait for the lock. *)
QuoteFlushUnlocked(s) ==
  /\ tx[s].pc = "quoteLoaded"
  /\ tx' = [tx EXCEPT ![s] = [@ EXCEPT !.pc = "quoteFlushed", !.also = Promotable(s, tx[s].rfq)]]
  /\ UNCHANGED <<tables, nextQuote, nextContract>>

QuoteFlush(s) ==
  LET r == tx[s].rfq IN
  /\ tx[s].pc = "quoteLoaded"
  /\ Writable(s, r)
  /\ tx' = [tx EXCEPT ![s] = [@ EXCEPT !.pc = "quoteFlushed", !.also = Promotable(s, r)]]
  /\ UNCHANGED <<tables, nextQuote, nextContract>>

QuoteCommit(s) ==
  LET first == IF tx[s].seen = "SENT" THEN {tx[s].rfq} ELSE {}
      quoted == first \cup tx[s].also
  IN
  /\ tx[s].pc = "quoteFlushed"
  /\ \A r \in quoted : Writable(s, r)
  /\ quotes' = quotes \cup tx[s].row
  /\ state' = [r \in Rfqs |-> IF r \in quoted THEN "QUOTED" ELSE state[r]]
  /\ trail' = [r \in Rfqs |-> IF r \in quoted
                               THEN Replay(trail[r], "SENT", "QUOTED") ELSE trail[r]]
  /\ Commit(s)
  /\ UNCHANGED <<archived, rejected, contracts, kyc, nextQuote, nextContract>>

-----------------------------------------------------------------------------
(* reject and cancel: both close on the state they loaded. *)

RejectLoad(s, r) ==
  /\ GetLive(s, r)
  /\ state[r] = "QUOTED"
  /\ Begin(s, [NoTxn EXCEPT !.pc = "closing", !.rfq = r, !.seen = state[r]])
  /\ UNCHANGED <<tables, nextQuote, nextContract>>

CancelLoad(s, r) ==
  /\ GetLive(s, r)
  /\ state[r] \in {"CREATED", "SENT"}
  /\ Begin(s, [NoTxn EXCEPT !.pc = "closing", !.rfq = r, !.seen = state[r]])
  /\ UNCHANGED <<tables, nextQuote, nextContract>>

(* Mutation: the event of a cancel also says it came from QUOTED. *)
CloseCommitFixedFrom(s) ==
  LET r == tx[s].rfq IN
  /\ tx[s].pc = "closing"
  /\ Writable(s, r)
  /\ state' = [state EXCEPT ![r] = "CLOSED"]
  /\ trail' = [trail EXCEPT ![r] = Replay(trail[r], "QUOTED", "CLOSED")]
  /\ Commit(s)
  /\ UNCHANGED <<archived, quotes, rejected, contracts, kyc, nextQuote, nextContract>>

CloseCommit(s) ==
  LET r == tx[s].rfq IN
  /\ tx[s].pc = "closing"
  /\ Writable(s, r)
  /\ state' = [state EXCEPT ![r] = "CLOSED"]
  /\ trail' = [trail EXCEPT ![r] = Replay(trail[r], tx[s].seen, "CLOSED")]
  /\ Commit(s)
  /\ UNCHANGED <<archived, quotes, rejected, contracts, kyc, nextQuote, nextContract>>

-----------------------------------------------------------------------------
(* reject_quote: load the RFQ and the quote, count the other active        *)
(* quotes, commit the rejection with the revert to SENT when none is left. *)

RejectQuoteLoad(s, r, q) ==
  /\ GetLive(s, r)
  /\ state[r] \in {"SENT", "QUOTED"}
  /\ q \in Active(r)
  /\ Begin(s, [NoTxn EXCEPT !.pc = "rejectLoaded", !.rfq = r, !.seen = state[r],
                 !.row = {q}])
  /\ UNCHANGED <<tables, nextQuote, nextContract>>

(* Mutation: the count includes the quote being rejected. *)
RejectQuoteCountItself(s) ==
  LET revert == Active(tx[s].rfq) = {} /\ tx[s].seen = "QUOTED" IN
  /\ tx[s].pc = "rejectLoaded"
  /\ tx' = [tx EXCEPT ![s] = [@ EXCEPT !.pc = "rejectCounted", !.also = IF revert THEN {tx[s].rfq} ELSE {}]]
  /\ UNCHANGED <<tables, nextQuote, nextContract>>

RejectQuoteCount(s) ==
  LET r == tx[s].rfq
      revert == Active(r) \subseteq tx[s].row /\ tx[s].seen = "QUOTED"
  IN
  /\ tx[s].pc = "rejectLoaded"
  /\ tx' = [tx EXCEPT ![s] = [@ EXCEPT !.pc = "rejectCounted", !.also = IF revert THEN {r} ELSE {}]]
  /\ UNCHANGED <<tables, nextQuote, nextContract>>

RejectQuoteCommit(s) ==
  LET reverted == tx[s].also IN
  /\ tx[s].pc = "rejectCounted"
  /\ \A r \in reverted : Writable(s, r)
  /\ rejected' = rejected \cup {q.id : q \in tx[s].row}
  /\ state' = [r \in Rfqs |-> IF r \in reverted THEN "SENT" ELSE state[r]]
  /\ trail' = [r \in Rfqs |-> IF r \in reverted
                               THEN Replay(trail[r], "QUOTED", "SENT") ELSE trail[r]]
  /\ Commit(s)
  /\ UNCHANGED <<archived, quotes, contracts, kyc, nextQuote, nextContract>>

-----------------------------------------------------------------------------
(* archive: sets deleted_at only; its event repeats the loaded state. *)

ArchiveLoad(s, r) ==
  /\ GetLive(s, r)
  /\ state[r] = "CLOSED"
  /\ Begin(s, [NoTxn EXCEPT !.pc = "archiving", !.rfq = r, !.seen = state[r]])
  /\ UNCHANGED <<tables, nextQuote, nextContract>>

ArchiveCommit(s) ==
  LET r == tx[s].rfq IN
  /\ tx[s].pc = "archiving"
  /\ Writable(s, r)
  /\ archived' = archived \cup {r}
  /\ trail' = [trail EXCEPT ![r] = Replay(trail[r], tx[s].seen, tx[s].seen)]
  /\ Commit(s)
  /\ UNCHANGED <<state, quotes, rejected, contracts, kyc, nextQuote, nextContract>>

-----------------------------------------------------------------------------
(* award.  The route loads the RFQ and evaluates the ranking (AwardLoad)   *)
(* without looking at the state; award then takes the row lock but tests   *)
(* the state it loaded before, ranks again, and passes the winner's KYC    *)
(* gate (AwardLock); the legs of a spread are locked and re-read before    *)
(* they are booked (AwardCommit).                                          *)

AwardLoad(s, r) ==
  /\ GetLive(s, r)
  /\ Winners(r) # {}
  /\ Begin(s, [NoTxn EXCEPT !.pc = "awardLoaded", !.rfq = r, !.seen = state[r],
                 !.basis = Winners(r)])
  /\ UNCHANGED <<tables, nextQuote, nextContract>>

(* Mutation: the state guard is dropped. *)
AwardLockAnyState(s) ==
  LET r == tx[s].rfq IN
  /\ tx[s].pc = "awardLoaded"
  /\ Lockable(s, r)
  /\ Winners(r) # {}
  /\ \A q \in Winners(r) : q.cp \in kyc
  /\ tx' = [tx EXCEPT ![s] = [@ EXCEPT !.pc = "awardLocked", !.win = Winners(r)]]
  /\ UNCHANGED <<tables, nextQuote, nextContract>>

AwardLock(s) ==
  LET r == tx[s].rfq IN
  /\ tx[s].pc = "awardLoaded"
  /\ Lockable(s, r)
  /\ tx[s].seen = "QUOTED"
  /\ Winners(r) # {}
  /\ \A q \in Winners(r) : q.cp \in kyc
  /\ tx' = [tx EXCEPT ![s] = [@ EXCEPT !.pc = "awardLocked", !.win = Winners(r)]]
  /\ UNCHANGED <<tables, nextQuote, nextContract>>

(* Mutation: the legs are locked but not re-read. *)
LegsOpenUnread(s, r) == r \in Spreads => \A leg \in Legs(r) : Lockable(s, leg)

(* The legs of a spread, locked with populate_existing, are not closed. *)
LegsOpen(s, r) ==
  r \in Spreads => \A leg \in Legs(r) : Lockable(s, leg) /\ state[leg] # "CLOSED"

(* One contract per winning quote, on the trade that was quoted. *)
Booked(W) ==
  {[id |-> nextContract + (IF \E p \in W : p.rfq # q.rfq /\ p.id < q.id THEN 1 ELSE 0),
    rfq |-> q.rfq, quote |-> q] : q \in W}

(* QUOTED, AWARDED, CLOSED in one transaction: AWARDED is never committed, *)
(* and its two events replay as one move.                                  *)
AwardCommit(s) ==
  LET r == tx[s].rfq
      legs == IF r \in Spreads THEN Legs(r) ELSE {}
  IN
  /\ tx[s].pc = "awardLocked"
  /\ LegsOpen(s, r)
  /\ nextContract <= MaxContracts
  /\ contracts' = contracts \cup Booked(tx[s].win)
  /\ nextContract' = nextContract + (IF r \in Spreads THEN 2 ELSE 1)
  /\ state' = [x \in Rfqs |-> IF x \in legs \cup {r} THEN "CLOSED" ELSE state[x]]
  /\ trail' = [x \in Rfqs |-> IF x = r THEN Replay(trail[x], "QUOTED", "CLOSED")
                               ELSE IF x \in legs THEN Replay(trail[x], state[x], "CLOSED")
                               ELSE trail[x]]
  /\ Commit(s)
  /\ UNCHANGED <<archived, quotes, rejected, kyc, nextQuote>>

-----------------------------------------------------------------------------
(* Any open session may end without its commit: a gate or the linkage      *)
(* service refuses (HTTPException), the database aborts a deadlock victim, *)
(* or the process dies.  Only what was committed before remains.           *)
Abort(s) ==
  /\ tx[s].pc # "idle"
  /\ Commit(s)
  /\ UNCHANGED <<tables, nextQuote, nextContract>>

(* Compliance approves or withdraws a counterparty at any time. *)
SetKyc(c) ==
  /\ kyc' \in {kyc \cup {c}, kyc \ {c}}
  /\ kyc' # kyc
  /\ UNCHANGED <<state, archived, trail, quotes, rejected, contracts,
                 nextQuote, nextContract, tx>>

(* Every step of session s except the one that starts an award. *)
StepBesidesAward(s) ==
  \/ \E r \in Rfqs : Create(s, r)
  \/ CreateSent(s)
  \/ CreateUnsent(s)
  \/ \E r \in Trades, c \in Cps, p \in Prices, at \in Stamps : QuoteLoad(s, r, c, p, at)
  \/ QuoteFlush(s)
  \/ QuoteCommit(s)
  \/ \E r \in Rfqs : RejectLoad(s, r)
  \/ \E r \in Rfqs : CancelLoad(s, r)
  \/ CloseCommit(s)
  \/ \E r \in Rfqs : \E q \in quotes : RejectQuoteLoad(s, r, q)
  \/ RejectQuoteCount(s)
  \/ RejectQuoteCommit(s)
  \/ \E r \in Rfqs : ArchiveLoad(s, r)
  \/ ArchiveCommit(s)
  \/ AwardLock(s)
  \/ AwardCommit(s)
  \/ Abort(s)

Next ==
  \/ \E s \in Sessions : StepBesidesAward(s)
  \/ \E s \in Sessions : \E r \in Rfqs : AwardLoad(s, r)
  \/ \E c \in Cps : SetKyc(c)

Spec == Init /\ [][Next]_vars

-----------------------------------------------------------------------------
(* What session s is about to commit was decided on rows that are still    *)
(* so: a test of the state it read, of the parent spreads, of the count of *)
(* quotes or of the ranking would have the same result if made again now.  *)
Fresh(s) ==
  LET r == tx[s].rfq IN
  /\ tx[s].seen = state[r]
  /\ tx[s].pc = "quoteFlushed" =>
       tx[s].also \subseteq {sp \in Spreads : state[sp] = "SENT"}
  /\ tx[s].pc = "rejectCounted" =>
       /\ tx[s].row \subseteq Active(r)
       /\ tx[s].also = IF Active(r) \subseteq tx[s].row /\ tx[s].seen = "QUOTED"
                       THEN {r} ELSE {}
  /\ tx[s].pc = "awardLocked" => tx[s].win = Winners(r) /\ tx[s].basis = Winners(r)

(* The commits that change the RFQ tables. *)
Commits(s) ==
  \/ CreateSent(s) \/ QuoteCommit(s) \/ CloseCommit(s)
  \/ RejectQuoteCommit(s) \/ ArchiveCommit(s) \/ AwardCommit(s)

FreshCommit == \A s \in Sessions : Commits(s) => Fresh(s)

(* No session commits a decision that another commit has overtaken.  The   *)
(* code does not see to it (FOR UPDATE does not refresh what was loaded);  *)
(* it suffices for the properties below, and requests that do not overlap  *)
(* have it.                                                                *)
CommitsFresh == [][FreshCommit]_vars

-----------------------------------------------------------------------------
(* Properties that hold while no session commits a stale decision.         *)

(* CLOSED is terminal, as archive's docstring says: no commit takes a      *)
(* closed RFQ to another state.                                            *)
ClosedIsFinal ==
  [][\A r \in Rfqs : state[r] = "CLOSED" => state'[r] = "CLOSED"]_vars

(* A trade is booked at most once, by its own award or by the award of a   *)
(* spread it is a leg of: a second contract would double the position.     *)
OneContractPerTrade ==
  \A c, d \in contracts : c.rfq = d.rfq => c = d

(* Replaying the state events of an RFQ yields its current state: the      *)
(* timeline that list_rfq_state_events shows has no gap and no fork.       *)
TrailConnected == trail = state

(* A trade RFQ is never left QUOTED with nothing to rank: submit_quote and *)
(* reject_quote keep the state in step with the active quotes.             *)
QuotedHasActiveQuote ==
  \A r \in Trades : state[r] = "QUOTED" => Active(r) # {}

(* What an award books is the best offer on the table when it commits: no  *)
(* counterparty's live offer beats or equals it (for a spread, no other    *)
(* counterparty's pair of offers has a better or equal spread).            *)
AwardsBestOffer ==
  [][\A c, d \in contracts' \ contracts :
       LET offers(r) == LatestQuotes(Active(r))
           r == CHOOSE x \in Rfqs : \E s \in Sessions :
                  tx[s].pc = "awardLocked" /\ tx'[s].pc = "idle" /\ tx[s].rfq = x
       IN  /\ c.quote \in offers(c.rfq)
           /\ c = d /\ r \in Trades =>
                \A q \in offers(c.rfq) : q.cp # c.quote.cp =>
                   Better(Direction[r], c.quote.price, q.price)
           /\ r \in Spreads /\ c.rfq = BuyLeg[r] /\ d.rfq = SellLeg[r] =>
                \A b \in offers(BuyLeg[r]), q \in offers(SellLeg[r]) :
                   b.cp = q.cp /\ b.cp # c.quote.cp =>
                     Better(Direction[r], d.quote.price - c.quote.price,
                                          q.price - b.price)]_vars

-----------------------------------------------------------------------------
(* Properties that hold for any number of concurrent sessions.             *)

(* The row lock of an award and the foreign-key lock of an uncommitted     *)
(* quote exclude each other, and two awards of one RFQ exclude each other. *)
LocksExclude ==
  \A s, t \in Sessions :
    /\ tx[s].pc = "awardLocked"
    /\ s # t
    /\ tx[t].pc \in {"awardLocked", "quoteFlushed"}
    => tx[s].rfq # tx[t].rfq

(* While the award of a trade holds its row lock, only a rejection can     *)
(* change the ranking it is about to book: no quote slips in.              *)
RankingStableUnderLock ==
  [][\A s \in Sessions, r \in Trades :
       tx[s].pc = "awardLocked" /\ tx[s].rfq = r /\ rejected' = rejected
       => Winners(r)' = Winners(r)]_vars

(* The award of a spread never books a leg that is closed when it commits, *)
(* however the leg came to be closed meanwhile (populate_existing).        *)
SpreadBooksOpenLegs ==
  [][\A s \in Sessions : \A c \in contracts' \ contracts :
       tx[s].pc = "awardLocked" /\ tx'[s].pc = "idle" /\ tx[s].rfq \in Spreads
       => state[c.rfq] # "CLOSED"]_vars

(* Evidence is append-only: no commit removes a quote, revives a rejected  *)
(* one or removes a contract, and a contract cites a committed quote of    *)
(* the trade it books.                                                     *)
EvidenceKept ==
  [][/\ quotes \subseteq quotes'
     /\ rejected \subseteq rejected'
     /\ contracts \subseteq contracts'
     /\ \A c \in contracts' : c.quote \in quotes' /\ c.quote.rfq = c.rfq]_vars
=============================================================================
