--------------------------- MODULE InboundPipeline --------------------------
(***************************************************************************)
(* Inbound WhatsApp messages: api/routes/webhooks.py persists and queues   *)
(* them, services/webhook_processor.py is the in-memory queue of one       *)
(* server process, and services/rfq_orchestrator.py drains it, claims the  *)
(* durable row, and turns a message into a quote.                          *)
(*                                                                         *)
(* gunicorn runs several processes, each with its own queue, its own set   *)
(* of active message ids and its own drain threads; the provider delivers  *)
(* a message to any of them, more than once.  The rows of                  *)
(* inbound_webhook_messages, rfq_quotes and llm_decision_artifacts are     *)
(* shared.  A crash loses a process's queue and open transactions only.    *)
(***************************************************************************)
EXTENDS Integers, Sequences, FiniteSets

CONSTANTS
  Procs,          \* server processes
  Threads,        \* drain threads
  Home,           \* [Threads -> Procs]
  Msgs,           \* provider message ids
  Terms,          \* [Msgs -> T] the (rfq, counterparty, price) quoted by each
  QueueMax,       \* maxlen of the deque
  MaxDeliveries,  \* bound on deliveries per message
  MaxFailures,    \* bound on failed attempts, exceptions and crashes
  MayStall        \* can a claim be overtaken by the 15-minute cutoff?

ASSUME InboundConstants ==
  /\ Home \in [Threads -> Procs]
  /\ QueueMax \in Nat \ {0}
  /\ MaxDeliveries \in Nat
  /\ MaxFailures \in Nat
  /\ MayStall \in BOOLEAN

VARIABLES
  status,     \* processing_status of each row, "absent" before its insert
  stale,      \* rows whose processing_started_at is past the cutoff
  artifacts,  \* committed decision artifacts per message (attempt numbers)
  quotes,     \* committed auto-created quotes: [msg, n, active]
  delivered,  \* deliveries so far of each message
  handler,    \* the message each process has persisted and not yet queued
  queue,      \* _message_queue of each process
  active,     \* _active_durable_message_ids of each process
  drains,     \* drain tasks submitted to the executor and not yet started
  thread,     \* the state of each drain thread
  failures    \* failed attempts, exceptions and crashes so far

rows == <<status, stale, artifacts, quotes>>
local == <<handler, queue, active, drains>>
vars == <<rows, local, delivered, thread, failures>>

Statuses == {"absent", "received", "processing", "failed", "processed"}
ThreadSteps == {"idle", "draining", "claiming", "raced", "processing", "guarded",
                "numbered", "flushed", "ignoring", "reviewing", "failing"}

Idle == [pc |-> "idle", msg |-> {}, n |-> 0]
Draining == [pc |-> "draining", msg |-> {}, n |-> 0]

TypeOK ==
  /\ status \in [Msgs -> Statuses]
  /\ stale \in SUBSET Msgs
  /\ artifacts \in [Msgs -> Nat]
  /\ quotes \in SUBSET [msg : Msgs, n : Nat, active : BOOLEAN]
  /\ delivered \in [Msgs -> 0..MaxDeliveries]
  /\ handler \in [Procs -> SUBSET Msgs]
  /\ queue \in [Procs -> Seq(Msgs)]
  /\ active \in [Procs -> SUBSET Msgs]
  /\ drains \in [Procs -> Nat]
  /\ thread \in [Threads -> [pc : ThreadSteps, msg : SUBSET Msgs, n : Nat]]
  /\ failures \in 0..MaxFailures

Init ==
  /\ status = [m \in Msgs |-> "absent"]
  /\ stale = {}
  /\ artifacts = [m \in Msgs |-> 0]
  /\ quotes = {}
  /\ delivered = [m \in Msgs |-> 0]
  /\ handler = [p \in Procs |-> {}]
  /\ queue = [p \in Procs |-> << >>]
  /\ active = [p \in Procs |-> {}]
  /\ drains = [p \in Procs |-> 0]
  /\ thread = [k \in Threads |-> Idle]
  /\ failures = 0

-----------------------------------------------------------------------------
(* The webhook handler *)

(* Mutation: every redelivery is queued again. *)
RecoverableAlways(m) == TRUE

(* _persist_message_for_enqueue: insert the row, or recover an existing    *)
(* one that is received, failed, or processing past the cutoff; a consumed *)
(* row and one being processed are not queued again.                       *)
Recoverable(m) ==
  \/ status[m] \in {"absent", "received", "failed"}
  \/ status[m] = "processing" /\ m \in stale

Deliver(p, m) ==
  /\ handler[p] = {}
  /\ delivered[m] < MaxDeliveries
  /\ delivered' = [delivered EXCEPT ![m] = @ + 1]
  /\ IF Recoverable(m)
     THEN /\ status' = [status EXCEPT ![m] = IF @ = "failed" THEN "failed" ELSE "received"]
          /\ stale' = stale \ {m}
          /\ handler' = [handler EXCEPT ![p] = {m}]
     ELSE UNCHANGED <<status, stale, handler>>
  /\ UNCHANGED <<artifacts, quotes, queue, active, drains, thread, failures>>

(* enqueue_message, then a drain task if it was accepted.  A message that  *)
(* is already queued or in flight in this process is skipped; a full deque *)
(* evicts its oldest entry, whose active marker is cleared first.          *)
Evicted(p) == IF Len(queue[p]) >= QueueMax THEN {Head(queue[p])} ELSE {}

(* Mutation: the marker of an evicted message is left behind. *)
EnqueueKeepsMarker(p, m) ==
  /\ m \in handler[p]
  /\ handler' = [handler EXCEPT ![p] = {}]
  /\ m \notin active[p]
  /\ active' = [active EXCEPT ![p] = @ \cup {m}]
  /\ queue' = [queue EXCEPT ![p] = Append(IF Evicted(p) = {} THEN @ ELSE Tail(@), m)]
  /\ drains' = [drains EXCEPT ![p] = @ + 1]
  /\ UNCHANGED <<rows, delivered, thread, failures>>

(* Mutation: a drain task is submitted only when nothing is active. *)
EnqueueTrustsDrain(p, m) ==
  /\ m \in handler[p]
  /\ handler' = [handler EXCEPT ![p] = {}]
  /\ m \notin active[p]
  /\ active' = [active EXCEPT ![p] = (@ \cup {m}) \ Evicted(p)]
  /\ queue' = [queue EXCEPT ![p] = Append(IF Evicted(p) = {} THEN @ ELSE Tail(@), m)]
  /\ drains' = [drains EXCEPT ![p] = IF active[p] = {} THEN @ + 1 ELSE @]
  /\ UNCHANGED <<rows, delivered, thread, failures>>

Enqueue(p, m) ==
  /\ m \in handler[p]
  /\ handler' = [handler EXCEPT ![p] = {}]
  /\ IF m \in active[p]
     THEN UNCHANGED <<queue, active, drains>>
     ELSE /\ active' = [active EXCEPT ![p] = (@ \cup {m}) \ Evicted(p)]
          /\ queue' = [queue EXCEPT ![p] =
                         Append(IF Evicted(p) = {} THEN @ ELSE Tail(@), m)]
          /\ drains' = [drains EXCEPT ![p] = @ + 1]
  /\ UNCHANGED <<rows, delivered, thread, failures>>

-----------------------------------------------------------------------------
(* A drain thread: process_inbound_queue *)

Start(k) ==
  /\ thread[k].pc = "idle"
  /\ drains[Home[k]] > 0
  /\ drains' = [drains EXCEPT ![Home[k]] = @ - 1]
  /\ thread' = [thread EXCEPT ![k] = Draining]
  /\ UNCHANGED <<rows, delivered, handler, queue, active, failures>>

Dequeue(k) ==
  LET p == Home[k] IN
  /\ thread[k].pc = "draining"
  /\ IF queue[p] = << >>
     THEN thread' = [thread EXCEPT ![k] = Idle] /\ UNCHANGED queue
     ELSE /\ thread' = [thread EXCEPT ![k] = [pc |-> "claiming", n |-> 0,
                                              msg |-> {Head(queue[p])}]]
          /\ queue' = [queue EXCEPT ![p] = Tail(@)]
  /\ UNCHANGED <<rows, delivered, handler, active, drains, failures>>

(* mark_message_finished, in the finally of the loop; then the next        *)
(* message, or the end of the drain after an exception.                    *)
Release(k, then) ==
  /\ active' = [active EXCEPT ![Home[k]] = @ \ thread[k].msg]
  /\ thread' = [thread EXCEPT ![k] = then]

Goto(k, step) == thread' = [thread EXCEPT ![k].pc = step]

(* _claim_durable_message: the conditional UPDATE. *)
Claimable(m) ==
  \/ status[m] \in {"received", "failed"}
  \/ status[m] = "processing" /\ m \in stale

Claim(k, m) ==
  /\ thread[k].pc = "claiming" /\ m \in thread[k].msg
  /\ Claimable(m)
  /\ status' = [status EXCEPT ![m] = "processing"]
  /\ stale' = stale \ {m}
  /\ Goto(k, "processing")
  /\ UNCHANGED <<artifacts, quotes, delivered, local, failures>>

ClaimConsumed(k, m) ==
  /\ thread[k].pc = "claiming" /\ m \in thread[k].msg
  /\ status[m] = "processed"
  /\ Release(k, Draining)
  /\ UNCHANGED <<rows, delivered, handler, queue, drains, failures>>

ClaimLost(k, m) ==
  /\ thread[k].pc = "claiming" /\ m \in thread[k].msg
  /\ status[m] = "processing" /\ m \notin stale
  /\ Goto(k, "raced")
  /\ UNCHANGED <<rows, delivered, local, failures>>

(* The UPDATE matched nothing; the refreshed row decides.  If it became    *)
(* claimable meanwhile the message is processed without a claim.           *)
Recheck(k, m) ==
  /\ thread[k].pc = "raced" /\ m \in thread[k].msg
  /\ IF Claimable(m) THEN Goto(k, "processing") /\ UNCHANGED active
     ELSE Release(k, Draining)
  /\ UNCHANGED <<rows, delivered, handler, queue, drains, failures>>

(* _process_single_message.  The text may name no RFQ or several, an RFQ    *)
(* that is unknown, archived or closed, or come from a phone that was not  *)
(* invited; or it is a greeting.  No model is asked and no artifact kept.  *)
Ignore(k, m) ==
  /\ thread[k].pc = "processing" /\ m \in thread[k].msg
  /\ Goto(k, "ignoring")
  /\ UNCHANGED <<rows, delivered, local, failures>>

(* What the two calls of the model return: an intent or no answer, and for *)
(* the parse also whether it is confident enough and carries a price,      *)
(* whether that price stands in the text, and whether the rest of the      *)
(* quote is there and valid.                                               *)
Intents == {"quote", "rejection", "question", "other"}

Answers == [class : Intents \cup {"unavailable"}, parse : Intents \cup {"unavailable"},
            sure : BOOLEAN, inText : BOOLEAN, complete : BOOLEAN]

(* should_auto_create_quote *)
ShouldAutoCreateQuote(a) == a.parse = "quote" /\ a.sure

(* The guards in their order; without a classification the parse decides. *)
Verdict(a) ==
  CASE a.class \in Intents \ {"quote"}             -> "reviewing"
    [] a.parse = "unavailable"                     -> "unavailable"
    [] ~ShouldAutoCreateQuote(a)                   -> "reviewing"
    [] ShouldAutoCreateQuote(a) /\ ~a.inText       -> "reviewing"
    [] ShouldAutoCreateQuote(a) /\ a.complete      -> "quote"
    [] OTHER                                       -> "incomplete"

Verdicts == {Verdict(a) : a \in Answers}

DuplicateActive(m) == \E q \in quotes : q.active /\ Terms[q.msg] = Terms[m]

(* Guard 4 finds this message's own quote when an earlier attempt made it: *)
(* that result is replayed without another artifact.                       *)
Replayed(m) == \E q \in quotes : q.active /\ q.msg = m

Decide(k, m, verdict) ==
  /\ thread[k].pc = "processing" /\ m \in thread[k].msg
  /\ IF verdict = "unavailable"
     THEN failures < MaxFailures /\ failures' = failures + 1
     ELSE UNCHANGED failures
  /\ Goto(k, CASE verdict = "unavailable" -> "failing"
               [] verdict = "reviewing"   -> "reviewing"
               [] Replayed(m)             -> "ignoring"
               [] DuplicateActive(m)      -> "reviewing"
               [] verdict = "incomplete"  -> "reviewing"
               [] OTHER                   -> "guarded")
  /\ UNCHANGED <<rows, delivered, local>>

(* _auto_create_quote: the quote is flushed, the attempt number of its     *)
(* artifact is read, the artifact is flushed.  The unique index on         *)
(* (message, attempt) makes a second writer of the same number wait for    *)
(* the first, and fail if it commits.                                      *)
NumberArtifact(k, m) ==
  /\ thread[k].pc = "guarded" /\ m \in thread[k].msg
  /\ thread' = [thread EXCEPT ![k].pc = "numbered", ![k].n = artifacts[m] + 1]
  /\ UNCHANGED <<rows, delivered, local, failures>>

FlushQuote(k, m) ==
  /\ thread[k].pc = "numbered" /\ m \in thread[k].msg
  /\ \A j \in Threads \ {k} : ~(/\ thread[j].pc = "flushed" /\ m \in thread[j].msg
                                /\ thread[j].n = thread[k].n)
  /\ Goto(k, IF thread[k].n > artifacts[m] THEN "flushed" ELSE "failing")
  /\ UNCHANGED <<rows, delivered, local, failures>>

(* Mutation: the quote commits first, the status in a later transaction. *)
QuoteCommittedFirst(k, m) ==
  /\ thread[k].pc = "flushed" /\ m \in thread[k].msg
  /\ quotes' = quotes \cup {[msg |-> m, n |-> thread[k].n, active |-> TRUE]}
  /\ artifacts' = [artifacts EXCEPT ![m] = thread[k].n]
  /\ Goto(k, "reviewing")
  /\ UNCHANGED <<status, stale, delivered, local, failures>>

(* submit_quote refuses (the RFQ moved on, KYC was withdrawn), or the      *)
(* database or the payload of the artifact does: all is rolled back.       *)
QuoteRefused(k, m) ==
  /\ thread[k].pc \in {"guarded", "numbered"} /\ m \in thread[k].msg
  /\ failures < MaxFailures
  /\ failures' = failures + 1
  /\ Goto(k, "failing")
  /\ UNCHANGED <<rows, delivered, local>>

(* _finalize_auto_quote_success: quote, artifact, audit event and status   *)
(* commit together, or roll back and leave the row failed (or as it was,   *)
(* when even that commit fails).                                           *)
QuoteCommitted(k, m) ==
  /\ thread[k].pc = "flushed" /\ m \in thread[k].msg
  /\ quotes' = quotes \cup {[msg |-> m, n |-> thread[k].n, active |-> TRUE]}
  /\ artifacts' = [artifacts EXCEPT ![m] = thread[k].n]
  /\ status' = [status EXCEPT ![m] = "processed"]
  /\ stale' = stale \ {m}
  /\ Release(k, Draining)
  /\ UNCHANGED <<delivered, handler, queue, drains, failures>>

QuoteRolledBack(k, m) ==
  /\ thread[k].pc = "flushed" /\ m \in thread[k].msg
  /\ failures < MaxFailures
  /\ failures' = failures + 1
  /\ \/ status' = [status EXCEPT ![m] = "failed"] /\ stale' = stale \ {m}
     \/ UNCHANGED <<status, stale>>
  /\ Release(k, Idle)
  /\ UNCHANGED <<artifacts, quotes, delivered, handler, queue, drains>>

(* _finalize_durable_message overwrites whatever status the row has; the   *)
(* decision artifact commits with it.  A failure to build the artifact of  *)
(* a refused quote leaves none.                                            *)
Finalize(k, m) ==
  /\ thread[k].pc \in {"ignoring", "reviewing", "failing"} /\ m \in thread[k].msg
  /\ status' = [status EXCEPT ![m] =
                  IF thread[k].pc = "failing" THEN "failed" ELSE "processed"]
  /\ stale' = stale \ {m}
  /\ LET recorded == [artifacts EXCEPT ![m] = @ + 1]
     IN  artifacts' \in CASE thread[k].pc = "ignoring"  -> {artifacts}
                          [] thread[k].pc = "reviewing" -> {recorded}
                          [] thread[k].pc = "failing"   -> {artifacts, recorded}
  /\ Release(k, Draining)
  /\ UNCHANGED <<quotes, delivered, handler, queue, drains, failures>>

(* An unexpected exception ends the drain with the rest of the queue       *)
(* undrained.  In _process_single_message the row is marked failed first.  *)
(* In the claim, in the commit of _finalize_durable_message, or when even  *)
(* that marking fails, the row keeps its status.                           *)
Raise(k, m) ==
  /\ thread[k].pc \in {"claiming", "raced", "processing", "guarded",
                       "ignoring", "reviewing", "failing"}
  /\ m \in thread[k].msg
  /\ failures < MaxFailures
  /\ failures' = failures + 1
  /\ \/ /\ thread[k].pc \notin {"claiming", "raced"}
        /\ status' = [status EXCEPT ![m] = "failed"] /\ stale' = stale \ {m}
     \/ UNCHANGED <<status, stale>>
  /\ Release(k, Idle)
  /\ UNCHANGED <<artifacts, quotes, delivered, handler, queue, drains>>

-----------------------------------------------------------------------------
(* The environment *)

(* Fifteen minutes pass while a row is being processed. *)
Stall(m) ==
  /\ MayStall
  /\ status[m] = "processing" /\ m \notin stale
  /\ stale' = stale \cup {m}
  /\ UNCHANGED <<status, artifacts, quotes, delivered, local, thread, failures>>

Crash(p) ==
  /\ failures < MaxFailures
  /\ failures' = failures + 1
  /\ handler' = [handler EXCEPT ![p] = {}]
  /\ queue' = [queue EXCEPT ![p] = << >>]
  /\ active' = [active EXCEPT ![p] = {}]
  /\ drains' = [drains EXCEPT ![p] = 0]
  /\ thread' = [k \in Threads |-> IF Home[k] = p THEN Idle ELSE thread[k]]
  /\ UNCHANGED <<rows, delivered>>

(* The desk rejects an auto-created quote (reject_quote). *)
DeskRejects(q) ==
  /\ q.active
  /\ quotes' = (quotes \ {q}) \cup {[q EXCEPT !.active = FALSE]}
  /\ UNCHANGED <<status, stale, artifacts, delivered, local, thread, failures>>

ThreadStep(k) ==
  \/ Start(k)
  \/ Dequeue(k)
  \/ \E m \in Msgs :
       \/ Claim(k, m)
       \/ ClaimConsumed(k, m)
       \/ ClaimLost(k, m)
       \/ Recheck(k, m)
       \/ Ignore(k, m)
       \/ \E verdict \in Verdicts : Decide(k, m, verdict)
       \/ NumberArtifact(k, m)
       \/ FlushQuote(k, m)
       \/ QuoteRefused(k, m)
       \/ QuoteCommitted(k, m)
       \/ QuoteRolledBack(k, m)
       \/ Finalize(k, m)
       \/ Raise(k, m)

Next ==
  \/ \E p \in Procs, m \in Msgs : Deliver(p, m)
  \/ \E p \in Procs, m \in Msgs : Enqueue(p, m)
  \/ \E k \in Threads : ThreadStep(k)
  \/ \E m \in Msgs : Stall(m)
  \/ \E p \in Procs : Crash(p)
  \/ \E q \in quotes : DeskRejects(q)

Spec == Init /\ [][Next]_vars

(* Handlers return and threads keep running; nothing forces a delivery, a  *)
(* failure or a crash.                                                     *)
FairSpec ==
  /\ Spec
  /\ \A p \in Procs : WF_vars(\E m \in Msgs : Enqueue(p, m))
  /\ \A k \in Threads : WF_vars(ThreadStep(k))

-----------------------------------------------------------------------------
QueueSet(p) == {queue[p][i] : i \in DOMAIN queue[p]}
InFlight(p) == UNION {thread[k].msg : k \in {j \in Threads : Home[j] = p}}

(* The duplicate guard of a process is exact: an id is marked active iff   *)
(* it is queued or in flight here, once; eviction, exceptions and crashes  *)
(* leave no orphan marker (which would drop every later redelivery) and    *)
(* no unmarked copy (which would let the message be queued twice).         *)
ActiveIsExact ==
  \A p \in Procs :
    /\ active[p] = QueueSet(p) \cup InFlight(p)
    /\ QueueSet(p) \cap InFlight(p) = {}
    /\ Cardinality(QueueSet(p)) = Len(queue[p])
    /\ Len(queue[p]) <= QueueMax
    /\ \A j, k \in Threads : Home[j] = p /\ Home[k] = p /\ j # k
                             => thread[j].msg \cap thread[k].msg = {}

(* A provider message becomes at most one quote, however often it is       *)
(* delivered and retried, and rejecting that quote does not revive it.     *)
OneQuotePerMessage ==
  \A m \in Msgs : Cardinality({q \in quotes : q.msg = m}) <= 1

(* A row that was consumed is never processed again: its status never      *)
(* leaves processed.                                                       *)
ConsumedIsFinal ==
  [][\A m \in Msgs : status[m] = "processed" => status'[m] = "processed"]_vars

(* A quote is on record exactly when its message is: no quote of an        *)
(* attempt that rolled back, no artifact number reused.                    *)
QuoteHasConsumedMessage ==
  \A q \in quotes : status[q.msg] = "processed" /\ q.n <= artifacts[q.msg]

(* The steps after a claim, or after the recheck that stands in for one. *)
Claimed == {"processing", "guarded", "numbered", "flushed", "ignoring", "reviewing", "failing"}

(* No two threads, of whatever processes, are past the claim of one        *)
(* message.                                                                *)
Exclusive ==
  \A j, k \in Threads :
    j # k /\ thread[j].pc \in Claimed /\ thread[k].pc \in Claimed
      => thread[j].msg \cap thread[k].msg = {}

(* The two ways by which a second process loses that exclusion: the cutoff *)
(* of fifteen minutes overtakes an attempt that is still alive, and a      *)
(* thread whose UPDATE matched nothing goes on without a claim.  These say *)
(* that they do not happen.                                                *)
Timely ==
  \A k \in Threads : thread[k].pc \in Claimed => thread[k].msg \cap stale = {}

WithClaim == \A k \in Threads : thread[k].pc = "raced" => thread'[k].pc # "processing"

ClaimedOnly == [][WithClaim]_vars

(* A queued message is not forgotten while its process lives: it is        *)
(* claimed and leaves the queue, or is evicted by a full deque.            *)
QueueDrains == \A p \in Procs, m \in Msgs : m \in QueueSet(p) ~> m \notin QueueSet(p)
=============================================================================
