----------------------------- MODULE Allocation -----------------------------
(***************************************************************************)
(* What linking orders to hedges promises, without sessions, locks or      *)
(* triggers: tonnes of an open order are allocated to an open hedge in one *)
(* atomic step, the tonnes of neither are ever allocated twice, and what   *)
(* is closed never opens again.  HedgeBook implements it.                  *)
(***************************************************************************)
EXTENDS Naturals, Functions

CONSTANTS
  Orders, Contracts,
  Amounts,        \* tonnes a request may name
  Matches(_, _)   \* may this order be hedged by this contract?

VARIABLES
  open,       \* the orders and contracts that count towards exposure
  closed,     \* the ones that did once
  size,       \* tonnes of each order and contract
  allocated   \* tonnes allocated to each pair of an order and a contract

Parties == Orders \cup Contracts

\* Tonnes of an order allocated to open hedges.
OfOrder(o) == SumFunctionOnSet([c \in Contracts |-> allocated[o, c]], Contracts \cap open)

\* Tonnes of a hedge allocated to open orders.
OfContract(c) == SumFunctionOnSet([o \in Orders |-> allocated[o, c]], Orders \cap open)

Init ==
  /\ open = {}
  /\ closed = {}
  /\ size \in [Parties -> Nat]
  /\ allocated = [p \in Orders \X Contracts |-> 0]

\* x opens with its tonnes.
Open(x) ==
  /\ x \notin open \cup closed
  /\ open' = open \cup {x}
  /\ \E n \in Amounts: size' = [size EXCEPT ![x] = n]
  /\ UNCHANGED <<closed, allocated>>

\* q tonnes of o are allocated to c, within what both have left.
Allocate(o, c, q) ==
  /\ o \in open
  /\ c \in open
  /\ Matches(o, c)
  /\ OfOrder(o) + q <= size[o]
  /\ OfContract(c) + q <= size[c]
  /\ allocated' = [allocated EXCEPT ![<<o, c>>] = @ + q]
  /\ UNCHANGED <<open, closed, size>>

\* A hedge is opened for an order and allocated to it at once.
OpenAllocated(o, c, q) ==
  /\ c \notin open \cup closed
  /\ o \in open
  /\ Matches(o, c)
  /\ OfOrder(o) + q <= size[o]
  /\ open' = open \cup {c}
  /\ size' = [size EXCEPT ![c] = q]
  /\ allocated' = [allocated EXCEPT ![<<o, c>>] = @ + q]
  /\ UNCHANGED closed

\* The tonnes of a hedge change, never below what is allocated.
Resize(c, q) ==
  /\ OfContract(c) <= q
  /\ size' = [size EXCEPT ![c] = q]
  /\ UNCHANGED <<open, closed, allocated>>

Close(x) ==
  /\ x \in open
  /\ open' = open \ {x}
  /\ closed' = closed \cup {x}
  /\ UNCHANGED <<size, allocated>>

Next ==
  \/ \E x \in Parties: Open(x) \/ Close(x)
  \/ \E o \in Orders, c \in Contracts: \E q \in Amounts:
       Allocate(o, c, q) \/ OpenAllocated(o, c, q)
  \/ \E c \in Contracts: \E q \in Amounts: Resize(c, q)

Spec == Init /\ [][Next]_<<open, closed, size, allocated>>
=============================================================================
