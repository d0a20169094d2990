------------------------------- MODULE Outbox -------------------------------
(***************************************************************************)
(* The outbound side of one RFQ: rows of rfq_invitations are committed as  *)
(* `queued' before a WhatsApp message is sent, and the outcome of the send *)
(* is written in a later commit (services/rfq_service.py: create, refresh, *)
(* refresh_counterparty, reject_quote; services/whatsapp_providers.py).    *)
(*                                                                         *)
(* A request of create, refresh or reject_quote is a job: it commits its   *)
(* rows, sends them one by one, keeps the outcomes in its session, and     *)
(* ends with the route's commit.  A crash, a failed commit or a refused    *)
(* recipient ends it early, and what its session held is lost; what it     *)
(* committed and what it sent are not.                                     *)
(*                                                                         *)
(* What the code calls sent is what the provider has accepted (a 200 or    *)
(* 201).  Whether an accepted message arrives is reported later, if at     *)
(* all, to nobody this code listens to: nothing here speaks of arrival.    *)
(***************************************************************************)
EXTENDS Integers, Sequences, FiniteSets, FiniteSetsExt, SequencesExt

CONSTANTS
  Cps,        \* counterparties
  Jobs,       \* requests of the API in progress at the same time
  Stored,     \* [Cps -> Numbers] the form of the number in counterparties
  Joined,     \* [Cps -> Numbers] the form WhatsApp knows the recipient by
  Provider,   \* "meta" or "twilio" (WHATSAPP_PROVIDER)
  Sandbox,    \* is the sender the Twilio sandbox number?
  MaxRows,    \* bound on invitation rows
  MaxFaults   \* bound on network faults, crashes, refusals and withdrawals of KYC

Numbers == {"br8", "br9", "foreign", "unknown"}
Purposes == {"rfq_invite", "refresh", "reject_quote"}

ASSUME OutboxConstants ==
  /\ IsFiniteSet(Cps)
  /\ Stored \in [Cps -> Numbers \ {"unknown"}]
  /\ Joined \in [Cps -> Numbers]
  /\ Provider \in {"meta", "twilio"}
  /\ Sandbox \in BOOLEAN
  /\ MaxRows \in Nat
  /\ MaxFaults \in Nat

VARIABLES
  state,     \* rfqs.state, "NONE" before create
  quoted,    \* counterparties with an active quote
  kyc,       \* counterparties whose kyc_status is approved
  rows,      \* rfq_invitations in the order of their creation
  wire,      \* messages the provider accepted for each recipient, by purpose
  job,       \* the requests in progress
  faults,    \* faults so far
  blamed,    \* history: rows whose send met a network fault
  stranded,  \* history: rows whose outcome a crash or a failed commit lost
  dropped,   \* history: rows whose outcome a refused recipient rolled back
  declined   \* history: rows on which a counterparty's refusal was written

obVars == <<state, quoted, kyc, rows, wire, job, faults, blamed, stranded, dropped, declined>>

Row == [purpose : Purposes, cp : Cps, status : {"queued", "sent", "failed"}]
Queued(p, c) == [purpose |-> p, cp |-> c, status |-> "queued"]

NoJob == [purpose |-> "none", batch |-> <<>>, todo |-> {}, outcome |-> <<>>]

ObTypeOK ==
  /\ state \in {"NONE", "CREATED", "SENT", "QUOTED", "CLOSED"}
  /\ quoted \subseteq Cps /\ kyc \subseteq Cps
  /\ rows \in Seq(Row)
  /\ wire \in [Purposes \X Cps -> Nat]
  /\ faults \in 0..MaxFaults
  /\ blamed \cup stranded \cup dropped \cup declined \subseteq 1..Len(rows)
  /\ \A j \in Jobs :
       /\ job[j].purpose \in Purposes \cup {"none"}
       /\ job[j].todo \subseteq Cps
       /\ Range(job[j].batch) \cup DOMAIN job[j].outcome \subseteq 1..Len(rows)

Init ==
  /\ state = "NONE" /\ quoted = {} /\ kyc = Cps
  /\ rows = <<>> /\ wire = [m \in Purposes \X Cps |-> 0]
  /\ job = [j \in Jobs |-> NoJob]
  /\ faults = 0 /\ blamed = {} /\ stranded = {} /\ dropped = {} /\ declined = {}

-----------------------------------------------------------------------------
(* The provider.  Meta makes one attempt; Twilio one more, with the other  *)
(* Brazilian form, when the first is refused on the spot as unknown.       *)

VariantNineOnly(n) == IF n = "br9" THEN "br8" ELSE "none"

\* _brazilian_phone_variant
Variant(n) ==
  CASE n = "br9" -> "br8"
    [] n = "br8" -> "br9"
    [] OTHER     -> "none"

\* _sandbox_normalize_brazilian
SandboxNormalize(n) == IF Sandbox /\ n = "br9" THEN "br8" ELSE n

\* The numbers the _send of each provider may try for a recipient.
Tried(c) ==
  IF Provider = "twilio"
  THEN LET to == SandboxNormalize(Stored[c]) IN {to, Variant(to)}
  ELSE {Stored[c]}

-----------------------------------------------------------------------------
Open == state \in {"SENT", "QUOTED"}
JobIdle(j) == job[j] = NoJob

\* Room for n more rows beside those the refreshes in progress will add.
Room(n) ==
  Len(rows) + n + MapThenSumSet(LAMBDA j : Cardinality(job[j].todo), Jobs) <= MaxRows
Recipients == {rows[i].cp : i \in DOMAIN rows}

\* The rows table after session.commit() of what job j has learnt.
Settled(j) ==
  [i \in DOMAIN rows |->
     IF i \in DOMAIN job[j].outcome
     THEN [rows[i] EXCEPT !.status = job[j].outcome[i]]
     ELSE rows[i]]

\* create, phase 1: the RFQ and one queued row per invitation, committed.
Create(j, S) ==
  /\ JobIdle(j) /\ state = "NONE"
  /\ S # {} /\ S \subseteq kyc
  /\ Room(Cardinality(S))
  /\ LET order == SetToSeq(S)
     IN /\ rows' = [i \in DOMAIN order |-> Queued("rfq_invite", order[i])]
        /\ job' = [job EXCEPT ![j] = [purpose |-> "rfq_invite", todo |-> {},
                                      batch |-> [i \in DOMAIN order |-> i],
                                      outcome |-> <<>>]]
  /\ state' = "CREATED"
  /\ UNCHANGED <<quoted, kyc, wire, faults, blamed, stranded, dropped, declined>>

\* A request to send again, to the recipients in S, while the RFQ is open.
RefreshLoad(j, S) ==
  /\ JobIdle(j) /\ Open
  /\ Room(Cardinality(S))
  /\ job' = [job EXCEPT ![j] = [NoJob EXCEPT !.purpose = "refresh", !.todo = S]]
  /\ UNCHANGED <<state, quoted, kyc, rows, wire, faults, blamed, stranded, dropped, declined>>

\* refresh takes every recipient of an earlier row, refresh_counterparty one.
Refresh(j) == RefreshLoad(j, Recipients)

RefreshCounterparty(j, c) == c \in Recipients /\ RefreshLoad(j, {c})

\* As if the row were sent first and committed afterwards.
RefreshCheckpointAfterSend(j, c) ==
  /\ job[j].batch = <<>>
  /\ c \in job[j].todo /\ c \in kyc
  /\ wire' = [wire EXCEPT ![<<"refresh", c>>] = @ + 1]
  /\ \/ /\ rows' = Append(Settled(j), [Queued("refresh", c) EXCEPT !.status = "sent"])
        /\ job' = [job EXCEPT ![j].todo = @ \ {c}, ![j].outcome = <<>>]
     \/ job' = [job EXCEPT ![j] = NoJob] /\ UNCHANGED rows
  /\ UNCHANGED <<state, quoted, kyc, faults, blamed, stranded, dropped, declined>>

\* The queued row of the next recipient is committed, and with it the
\* outcomes of the recipients before.
RefreshCheckpoint(j, c) ==
  /\ job[j].batch = <<>>
  /\ c \in job[j].todo /\ c \in kyc
  /\ rows' = Append(Settled(j), Queued("refresh", c))
  /\ job' = [job EXCEPT ![j].batch = <<Len(rows) + 1>>, ![j].todo = @ \ {c},
                        ![j].outcome = <<>>]
  /\ UNCHANGED <<state, quoted, kyc, wire, faults, blamed, stranded, dropped, declined>>

\* Rows of job j whose outcome is not committed.
Unsettled(j) == Range(job[j].batch) \cup DOMAIN job[j].outcome

\* A recipient that lost its KYC approval: the exception rolls back the
\* outcomes that no later checkpoint has committed.
RefreshRefused(j, c) ==
  /\ job[j].batch = <<>>
  /\ c \in job[j].todo /\ c \notin kyc
  /\ dropped' = dropped \cup Unsettled(j)
  /\ job' = [job EXCEPT ![j] = NoJob]
  /\ UNCHANGED <<state, quoted, kyc, rows, wire, faults, blamed, stranded, declined>>

\* reject_quote: the rejection, the revert to SENT when no active quote is
\* left and, where the counterparty has a number, the queued row in one commit.
RejectQuote(j, c) ==
  /\ JobIdle(j) /\ Open
  /\ c \in quoted
  /\ Room(1)
  /\ quoted' = quoted \ {c}
  /\ state' = IF quoted' = {} THEN "SENT" ELSE state
  /\ \/ /\ rows' = Append(rows, Queued("reject_quote", c))
        /\ job' = [job EXCEPT ![j] = [purpose |-> "reject_quote", todo |-> {},
                                      batch |-> <<Len(rows) + 1>>, outcome |-> <<>>]]
     \/ UNCHANGED <<rows, job>>
  /\ UNCHANGED <<kyc, wire, faults, blamed, stranded, dropped, declined>>

\* The outcomes a session holds once row i has got its result.
Learnt(outcome, i, result) ==
  [k \in {i} \cup DOMAIN outcome |-> IF k = i THEN result ELSE outcome[k]]

\* send_text_message for the next row of the batch.  The provider may accept
\* any number, also one it finds out later that WhatsApp does not know; it may
\* refuse on the spot only when none of those tried is known.  A timeout, another
\* error or an answer that cannot be read is a failure of a message that may have
\* been accepted.
Send(j) ==
  /\ job[j].batch # <<>>
  /\ LET i == Head(job[j].batch)
         c == rows[i].cp
         Done(result) == job' = [job EXCEPT ![j].batch = Tail(@),
                                            ![j].outcome = Learnt(@, i, result)]
         Accepts == wire' = [wire EXCEPT ![<<rows[i].purpose, c>>] = @ + 1]
         Faulty == /\ faults < MaxFaults
                   /\ faults' = faults + 1
                   /\ blamed' = blamed \cup {i}
     IN \/ /\ Accepts /\ Done("sent")
           /\ UNCHANGED <<faults, blamed>>
        \/ /\ Accepts /\ Faulty /\ Done("failed")
        \/ /\ Faulty /\ Done("failed") /\ UNCHANGED wire
        \/ /\ Joined[c] \notin Tried(c) /\ Done("failed")
           /\ UNCHANGED <<wire, faults, blamed>>
  /\ UNCHANGED <<state, quoted, kyc, rows, stranded, dropped, declined>>

FinishUncommitted(j) ==
  /\ ~JobIdle(j)
  /\ job[j].batch = <<>> /\ job[j].todo = {}
  /\ job' = [job EXCEPT ![j] = NoJob]
  /\ UNCHANGED <<state, quoted, kyc, rows, wire, faults, blamed, stranded, dropped, declined>>

\* The route's commit; create's makes the RFQ SENT once a row is sent.
Finish(j) ==
  /\ ~JobIdle(j)
  /\ job[j].batch = <<>> /\ job[j].todo = {}
  /\ rows' = Settled(j)
  /\ state' = IF /\ job[j].purpose = "rfq_invite"
                 /\ \E i \in DOMAIN rows' : rows'[i].status = "sent"
              THEN "SENT" ELSE state
  /\ job' = [job EXCEPT ![j] = NoJob]
  /\ UNCHANGED <<quoted, kyc, wire, faults, blamed, stranded, dropped, declined>>

\* The process dies, or a commit fails and the route rolls back.
Crash(j) ==
  /\ ~JobIdle(j)
  /\ faults < MaxFaults /\ faults' = faults + 1
  /\ stranded' = stranded \cup Unsettled(j)
  /\ job' = [job EXCEPT ![j] = NoJob]
  /\ UNCHANGED <<state, quoted, kyc, rows, wire, blamed, dropped, declined>>

-----------------------------------------------------------------------------
(* What the rest of the system does to the RFQ meanwhile.                  *)

Quote(c) ==
  /\ Open /\ c \in kyc \cap Recipients
  /\ quoted' = quoted \cup {c}
  /\ state' = "QUOTED"
  /\ UNCHANGED <<kyc, rows, wire, job, faults, blamed, stranded, dropped, declined>>

\* A refusal in a message of a recipient is written on the latest row of its
\* sender, as a failed send, by the session that processes the message.
Decline(c) ==
  LET i == Max({j \in DOMAIN rows : rows[j].cp = c})
  IN  /\ Open /\ c \in Recipients
      /\ Joined[c] # "unknown"
      /\ faults < MaxFaults /\ faults' = faults + 1
      /\ rows' = [rows EXCEPT ![i].status = "failed"]
      /\ declined' = declined \cup {i}
      /\ UNCHANGED <<state, quoted, kyc, wire, job, blamed, stranded, dropped>>

\* cancel, reject or award
Close ==
  /\ state \in {"CREATED", "SENT", "QUOTED"}
  /\ state' = "CLOSED"
  /\ UNCHANGED <<quoted, kyc, rows, wire, job, faults, blamed, stranded, dropped, declined>>

WithdrawKyc(c) ==
  /\ c \in kyc
  /\ faults < MaxFaults /\ faults' = faults + 1
  /\ kyc' = kyc \ {c}
  /\ UNCHANGED <<state, quoted, rows, wire, job, blamed, stranded, dropped, declined>>

JobStep(j) ==
  \/ \E c \in Cps : RefreshCheckpoint(j, c) \/ RefreshRefused(j, c)
  \/ Send(j)
  \/ Finish(j)

Next ==
  \/ \E j \in Jobs :
       \/ \E S \in SUBSET Cps : Create(j, S)
       \/ Refresh(j)
       \/ \E c \in Cps : RefreshCounterparty(j, c) \/ RejectQuote(j, c)
       \/ JobStep(j)
       \/ Crash(j)
  \/ \E c \in Cps : Quote(c) \/ Decline(c) \/ WithdrawKyc(c)
  \/ Close

\* A request that was accepted is executed: the server's thread runs it.
Fairness == \A j \in Jobs : WF_obVars(JobStep(j))

Spec == Init /\ [][Next]_obVars /\ Fairness

-----------------------------------------------------------------------------
RowsOf(p, c) == {i \in DOMAIN rows : rows[i].purpose = p /\ rows[i].cp = c}

\* Nothing is handed to the provider without durable evidence: whatever crashes,
\* rolls back or overlaps, there is a committed row for every message it
\* accepted, of its purpose and recipient (the checkpoint commits of create,
\* refresh and reject_quote come before their sends).
EvidenceBeforeWire ==
  \A p \in Purposes, c \in Cps : wire[p, c] <= Cardinality(RowsOf(p, c))

\* What the records claim is so: no more rows are `sent' than messages the
\* provider accepted, an RFQ is SENT or QUOTED only once it has accepted some
\* invitation (create tests has_sent before it leaves CREATED), and a row is
\* `failed' only because of a fault, of a refusal written on it, or of a recipient
\* whose number is not the stored one: with Twilio the same Brazilian number in the
\* other form is no cause (its _send retries a refusal on the spot), with Meta it is.
RecordsAreTrue ==
  /\ \A p \in Purposes, c \in Cps :
       Cardinality({i \in RowsOf(p, c) : rows[i].status = "sent"}) <= wire[p, c]
  /\ Open => \E c \in Cps : wire["rfq_invite", c] > 0
  /\ \A i \in DOMAIN rows :
       rows[i].status = "failed" =>
         \/ i \in blamed \cup declined
         \/ /\ Joined[rows[i].cp] # Stored[rows[i].cp]
            /\ Provider = "twilio" => Joined[rows[i].cp] # Variant(Stored[rows[i].cp])

\* Every queued row gets its outcome, unless its job was cut short.
EveryRowSettles ==
  \A i \in 1..MaxRows :
    (i \in DOMAIN rows /\ rows[i].status = "queued")
      ~> (i \in DOMAIN rows /\ rows[i].status # "queued") \/ i \in stranded \cup dropped
=============================================================================
