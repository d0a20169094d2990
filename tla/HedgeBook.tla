------------------------------ MODULE HedgeBook -----------------------------
(***************************************************************************)
(* The physical orders, the hedge contracts, the tonnes of one linked to   *)
(* the other, and the settlement of contracts: services/order_service.py,  *)
(* contract_service.py, linkage_service.py and cashflow_ledger_service.py, *)
(* with the triggers of alembic 029 and 032.                               *)
(*                                                                         *)
(* A session is one request in one READ COMMITTED transaction.  A handler  *)
(* loads rows and checks them in one step and flushes and commits in a     *)
(* later one; only linking locks the rows it reads (FOR UPDATE).  An       *)
(* UPDATE writes the columns that the handler changed and no others.       *)
(***************************************************************************)
EXTENDS Integers, FiniteSetsExt, Functions

CONSTANTS
  Orders,          \* ids of orders
  Contracts,       \* ids of hedge contracts
  Events,          \* source_event_ids of settlements
  Sessions,        \* concurrent requests
  OrderType,       \* [Orders -> {"SO", "PO"}]
  PriceType,       \* [Orders -> {"fixed", "variable"}]
  OrderQty,        \* [Orders -> 1..MaxQty], tonnes; no operation changes them
  Classification,  \* [Contracts -> {"long", "short"}]
  Commodity,       \* [Orders \cup Contracts -> canonical commodities]
  MaxQty,          \* bound on the tonnes a request may name
  None             \* the absent reference

ASSUME HedgeBookConstants ==
  /\ IsFiniteSet(Orders) /\ IsFiniteSet(Contracts)
  /\ Orders \cap Contracts = {}
  /\ OrderType \in [Orders -> {"SO", "PO"}]
  /\ PriceType \in [Orders -> {"fixed", "variable"}]
  /\ OrderQty \in [Orders -> 1..MaxQty]
  /\ Classification \in [Contracts -> {"long", "short"}]
  /\ MaxQty \in Nat \ {0}
  /\ None \notin Orders \cup Contracts \cup Events

VARIABLES
  orders,     \* state of each order's row
  contracts,  \* each hedge contract's row
  linked,     \* tonnes of the linkage rows of each (order, contract)
  ledger,     \* the contract each settlement event booked, or None
  tx          \* the request each session is serving

book == <<orders, contracts, linked, ledger>>
vars == <<book, tx>>

Statuses == {"active", "partially_settled", "settled", "cancelled"}

OrderRows == {"absent", "live", "archived"}

ContractRows == [status: Statuses \cup {"absent"}, deleted: BOOLEAN, qty: 0..MaxQty]

LedgerRows == Contracts \cup {None}

Idle == [op |-> "idle", order |-> None, contract |-> None, qty |-> 0,
         event |-> None, seen |-> "absent"]

Requests ==
  [op: {"idle", "linking", "booking", "linked", "booked", "archive_order",
        "update", "cancel", "archive", "delete", "settle"},
   order: Orders \cup {None}, contract: Contracts \cup {None}, qty: 0..MaxQty,
   event: Events \cup {None}, seen: Statuses \cup {"absent"}]

\* Rows, sums and requests keep their shape; no tonnage is negative.
HedgeTypeOK ==
  /\ orders \in [Orders -> OrderRows]
  /\ contracts \in [Contracts -> ContractRows]
  /\ linked \in [Orders \X Contracts -> Nat]
  /\ ledger \in [Events -> LedgerRows]
  /\ tx \in [Sessions -> Requests]

HedgeInit ==
  /\ orders = [o \in Orders |-> "absent"]
  /\ contracts = [c \in Contracts |-> [status |-> "absent", deleted |-> FALSE, qty |-> 0]]
  /\ linked = [p \in Orders \X Contracts |-> 0]
  /\ ledger = [e \in Events |-> None]
  /\ tx = [s \in Sessions |-> Idle]

-----------------------------------------------------------------------------
(* What readers and the capacity checks count.                             *)

LiveOrder(o) == orders[o] = "live"

\* A contract counts while it is not deleted and still has something to settle.
LiveContract(c) ==
  /\ contracts[c].status \in {"active", "partially_settled"}
  /\ ~contracts[c].deleted

LinkedToOrder(o) ==
  SumFunctionOnSet([c \in Contracts |-> linked[o, c]], {c \in Contracts: LiveContract(c)})

LinkedToContract(c) ==
  SumFunctionOnSet([o \in Orders |-> linked[o, c]], {o \in Orders: LiveOrder(o)})

\* _validate_linkage_direction: sales hedge short, purchases long, at a price
\* that still floats.
DirectionOK(o, c) ==
  /\ PriceType[o] = "variable"
  /\ Classification[c] = IF OrderType[o] = "SO" THEN "short" ELSE "long"

Linkable(o, c) == DirectionOK(o, c) /\ Commodity[o] = Commodity[c]

-----------------------------------------------------------------------------
(* Row locks held from a FOR UPDATE to the end of the transaction.         *)

OrderUnlockedNever(s, o) == TRUE

OrderUnlocked(s, o) ==
  \A t \in Sessions \ {s}:
    tx[t].op \in {"linking", "booking", "linked", "booked"} => tx[t].order # o

\* A contract inserted by the session itself ("booked") is invisible to the others.
ContractUnlocked(s, c) ==
  \A t \in Sessions \ {s}: tx[t].op = "linked" => tx[t].contract # c

Start(s, request) ==
  /\ tx[s] = Idle
  /\ tx' = [tx EXCEPT ![s] = request]
  /\ UNCHANGED book

End(s) == tx' = [tx EXCEPT ![s] = Idle]

-----------------------------------------------------------------------------
(* Orders.                                                                 *)

\* _create_order: one insert, visible at commit.  The partner gate in front of
\* it is the module Compliance.
CreateOrder(o) ==
  /\ orders[o] = "absent"
  /\ orders' = [orders EXCEPT ![o] = "live"]
  /\ UNCHANGED <<contracts, linked, ledger, tx>>

ArchiveOrderLoad(s, o) ==
  /\ LiveOrder(o)
  /\ Start(s, [Idle EXCEPT !.op = "archive_order", !.order = o])

ArchiveOrderCommit(s) ==
  /\ tx[s].op = "archive_order"
  /\ OrderUnlocked(s, tx[s].order)
  /\ orders' = [orders EXCEPT ![tx[s].order] = "archived"]
  /\ End(s)
  /\ UNCHANGED <<contracts, linked, ledger>>

-----------------------------------------------------------------------------
(* Linkages.                                                               *)

\* create of linkage_service: the advisory lock on the pair and FOR UPDATE on
\* the order, which alone excludes what the first excludes.  An archived order is
\* refused once the contract is locked too; nothing can revive it meanwhile.
LinkLockOrder(s, o, c, q) ==
  /\ LiveOrder(o)
  /\ contracts[c].status # "absent"
  /\ OrderUnlocked(s, o)
  /\ Start(s, [Idle EXCEPT !.op = "linking", !.order = o, !.contract = c, !.qty = q])

\* An award inserts its contract and links it in the same transaction.
BookLockOrder(s, o, c, q) ==
  /\ LiveOrder(o)
  /\ contracts[c].status = "absent"
  /\ \A t \in Sessions: tx[t].contract # c
  /\ OrderUnlocked(s, o)
  /\ Start(s, [Idle EXCEPT !.op = "booking", !.order = o, !.contract = c, !.qty = q])

\* The checks of create, and the trigger of the insert: both sum the linkages
\* whose other side is live and compare with the tonnes of the row they locked.
OrderHasRoom(o, q) == LinkedToOrder(o) + q <= OrderQty[o]

ContractHasRoom(c, q) == LinkedToContract(c) + q <= contracts[c].qty

MayLink(o, c, q) ==
  /\ LiveOrder(o)
  /\ LiveContract(c)
  /\ Linkable(o, c)
  /\ OrderHasRoom(o, q)
  /\ ContractHasRoom(c, q)

\* FOR UPDATE on the contract, the checks, and the flushed insert.
LinkLockContract(s) ==
  /\ tx[s].op = "linking"
  /\ ContractUnlocked(s, tx[s].contract)
  /\ MayLink(tx[s].order, tx[s].contract, tx[s].qty)
  /\ tx' = [tx EXCEPT ![s].op = "linked"]
  /\ UNCHANGED book

\* The same for a contract of the session's own, which has q tonnes, all free.
BookFlush(s) ==
  /\ tx[s].op = "booking"
  /\ LiveOrder(tx[s].order)
  /\ Linkable(tx[s].order, tx[s].contract)
  /\ OrderHasRoom(tx[s].order, tx[s].qty)
  /\ tx' = [tx EXCEPT ![s].op = "booked"]
  /\ UNCHANGED book

AddLinkage(o, c, q) == linked' = [linked EXCEPT ![<<o, c>>] = @ + q]

LinkCommit(s) ==
  /\ tx[s].op = "linked"
  /\ AddLinkage(tx[s].order, tx[s].contract, tx[s].qty)
  /\ End(s)
  /\ UNCHANGED <<orders, contracts, ledger>>

NewContract(q) == [status |-> "active", deleted |-> FALSE, qty |-> q]

BookCommit(s) ==
  /\ tx[s].op = "booked"
  /\ contracts' = [contracts EXCEPT ![tx[s].contract] = NewContract(tx[s].qty)]
  /\ AddLinkage(tx[s].order, tx[s].contract, tx[s].qty)
  /\ End(s)
  /\ UNCHANGED <<orders, ledger>>

-----------------------------------------------------------------------------
(* Contracts.                                                              *)

\* create of contract_service, and an award that hedges no order.
CreateContract(c, q) ==
  /\ contracts[c].status = "absent"
  /\ \A s \in Sessions: tx[s].contract # c
  /\ contracts' = [contracts EXCEPT ![c] = NewContract(q)]
  /\ UNCHANGED <<orders, linked, ledger, tx>>

\* Every handler below starts by loading the row without a lock.
LoadContract(s, c, request) ==
  /\ contracts[c].status # "absent"
  /\ Start(s, [request EXCEPT !.contract = c])

\* update: the precheck counts what is linked now.
MayUpdate(c, q) ==
  /\ ~contracts[c].deleted
  /\ q # contracts[c].qty
  /\ LinkedToContract(c) <= q

UpdateLoad(s, c, q) ==
  /\ MayUpdate(c, q)
  /\ LoadContract(s, c, [Idle EXCEPT !.op = "update", !.qty = q])

\* transition_status: cancelled is the only target that GENERIC_STATUS_TRANSITIONS has.
MayCancel(c) == LiveContract(c)

CancelLoad(s, c) ==
  /\ MayCancel(c)
  /\ LoadContract(s, c, [Idle EXCEPT !.op = "cancel"])

MayRetire(c) == contracts[c].status # "absent" /\ ~contracts[c].deleted

ArchiveLoad(s, c) ==
  /\ MayRetire(c)
  /\ LoadContract(s, c, [Idle EXCEPT !.op = "archive"])

DeleteLoad(s, c) ==
  /\ MayRetire(c)
  /\ LoadContract(s, c, [Idle EXCEPT !.op = "delete", !.seen = contracts[c].status])

\* A handler's UPDATE waits for the row lock and writes row over what is there.
WriteContract(s, row) ==
  /\ ContractUnlocked(s, tx[s].contract)
  /\ contracts' = [contracts EXCEPT ![tx[s].contract] = row]
  /\ End(s)
  /\ UNCHANGED <<orders, linked>>

Row(s) == contracts[tx[s].contract]

UpdateCommitNoTrigger(s) ==
  /\ tx[s].op = "update"
  /\ WriteContract(s, [Row(s) EXCEPT !.qty = tx[s].qty])
  /\ UNCHANGED ledger

\* trg_contract_qty_assert_capacity sums again once the row is written.
UpdateCommit(s) ==
  /\ tx[s].op = "update"
  /\ LinkedToContract(tx[s].contract) <= tx[s].qty
  /\ WriteContract(s, [Row(s) EXCEPT !.qty = tx[s].qty])
  /\ UNCHANGED ledger

CancelCommit(s) ==
  /\ tx[s].op = "cancel"
  /\ WriteContract(s, [Row(s) EXCEPT !.status = "cancelled"])
  /\ UNCHANGED ledger

ArchiveCommit(s) ==
  /\ tx[s].op = "archive"
  /\ WriteContract(s, [Row(s) EXCEPT !.deleted = TRUE])
  /\ UNCHANGED ledger

\* delete sets cancelled whatever the status was; the column is written when
\* that changes what was loaded.
Deleted(row, seen) ==
  [row EXCEPT !.deleted = TRUE,
              !.status = IF seen = "cancelled" THEN @ ELSE "cancelled"]

DeleteCommit(s) ==
  /\ tx[s].op = "delete"
  /\ WriteContract(s, Deleted(Row(s), tx[s].seen))
  /\ UNCHANGED ledger

-----------------------------------------------------------------------------
(* Settlement.                                                             *)

\* ingest_hedge_contract_settlement for an event not seen before; a known event
\* is validated against its entries and changes nothing.  Deletion is not tested.
MaySettle(c, e) == ledger[e] = None /\ contracts[c].status = "active"

SettleLoad(s, c, e) ==
  /\ MaySettle(c, e)
  /\ LoadContract(s, c, [Idle EXCEPT !.op = "settle", !.event = e])

SettleCommitPartially(s) ==
  /\ tx[s].op = "settle"
  /\ ledger[tx[s].event] = None
  /\ ledger' = [ledger EXCEPT ![tx[s].event] = tx[s].contract]
  /\ WriteContract(s, [Row(s) EXCEPT !.status = "partially_settled"])

\* The primary key admits one insert per event id.
SettleCommit(s) ==
  /\ tx[s].op = "settle"
  /\ ledger[tx[s].event] = None
  /\ ledger' = [ledger EXCEPT ![tx[s].event] = tx[s].contract]
  /\ WriteContract(s, [Row(s) EXCEPT !.status = "settled"])

\* A refused check, a violated constraint or a failure rolls the session back.
Abort(s) ==
  /\ tx[s] # Idle
  /\ End(s)
  /\ UNCHANGED book

-----------------------------------------------------------------------------

OrderStep(s) ==
  \/ \E o \in Orders: ArchiveOrderLoad(s, o)
  \/ ArchiveOrderCommit(s)

LinkStep(s) ==
  \/ \E o \in Orders, c \in Contracts, q \in 1..MaxQty:
       LinkLockOrder(s, o, c, q) \/ BookLockOrder(s, o, c, q)
  \/ LinkLockContract(s)
  \/ BookFlush(s)
  \/ LinkCommit(s)
  \/ BookCommit(s)

ContractStep(s) ==
  \/ \E c \in Contracts: CancelLoad(s, c) \/ ArchiveLoad(s, c) \/ DeleteLoad(s, c)
  \/ \E c \in Contracts, q \in 0..MaxQty: UpdateLoad(s, c, q)
  \/ \E c \in Contracts, e \in Events: SettleLoad(s, c, e)
  \/ UpdateCommit(s)
  \/ CancelCommit(s)
  \/ ArchiveCommit(s)
  \/ DeleteCommit(s)
  \/ SettleCommit(s)

Create ==
  \/ \E o \in Orders: CreateOrder(o)
  \/ \E c \in Contracts, q \in 1..MaxQty: CreateContract(c, q)

HedgeNext ==
  \/ Create
  \/ \E s \in Sessions: OrderStep(s) \/ LinkStep(s) \/ ContractStep(s) \/ Abort(s)

HedgeSpec == HedgeInit /\ [][HedgeNext]_vars

-----------------------------------------------------------------------------
(* Properties.                                                             *)

\* No order is hedged, and no contract allocated, beyond its tonnes: the locks
\* of create, the trigger and the precheck of update together, whatever
\* sessions overlap (linkage_service.py create, migration 032).
CapacityHeld ==
  /\ \A o \in Orders: LinkedToOrder(o) <= OrderQty[o]
  /\ \A c \in Contracts: LinkedToContract(c) <= contracts[c].qty

\* Once cash is booked for a contract it never again counts as a live hedge, and
\* a contract is settled only by an event in the ledger, even when settlement
\* overlaps cancel, delete or another settlement (cashflow_ledger_service.py).
CashRetiresHedge ==
  /\ \A e \in Events: ledger[e] # None => ~LiveContract(ledger[e])
  /\ \A c \in Contracts: contracts[c].status = "settled" =>
       \E e \in Events: ledger[e] = c

OpenParties ==
  {o \in Orders: LiveOrder(o)} \cup {c \in Contracts: LiveContract(c)}

ClosedParties ==
  {o \in Orders: orders[o] = "archived"}
    \cup {c \in Contracts: contracts[c].status # "absent" /\ ~LiveContract(c)}

Promise ==
  INSTANCE Allocation WITH
    Amounts <- 0..MaxQty,
    Matches <- Linkable,
    open <- OpenParties,
    closed <- ClosedParties,
    size <- [x \in Orders \cup Contracts |->
               IF x \in Orders THEN OrderQty[x] ELSE contracts[x].qty],
    allocated <- linked

\* The overlapping, partly locked transactions implement the atomic allocation:
\* what is committed was allowed at the moment of the commit.
ImplementsAllocation == Promise!Spec
=============================================================================
