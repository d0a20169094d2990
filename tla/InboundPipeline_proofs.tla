------------------------ MODULE InboundPipeline_proofs ----------------------
(***************************************************************************)
(* Proofs about InboundPipeline for any messages, threads, queue length    *)
(* and bounds.                                                             *)
(*                                                                         *)
(* The duplicate guard is exact in every process (LocalInv), but processes *)
(* do not share it.  Across processes a message is protected by the claim  *)
(* of its row: as long as no two threads are past the claim of one message *)
(* (Exclusive), a thread past its claim works on a row that is not         *)
(* consumed (OwnsRow), and there is one quote per message.                 *)
(*                                                                         *)
(* The claim is exclusive, for any number of processes, unless one of two  *)
(* things happens: the cutoff overtakes an attempt that is still alive, or *)
(* a thread goes on without a claim (not Timely, not ClaimedOnly).  In one *)
(* process it is exclusive whatever happens.                               *)
(***************************************************************************)
EXTENDS InboundPipeline, FiniteSetTheorems, TLAPS

Elems(s) == {s[i] : i \in DOMAIN s}

Distinct(s) == \A i, j \in DOMAIN s : s[i] = s[j] => i = j

\* A thread between two messages holds none.
Unoccupied == \A k \in Threads : thread[k].pc \in {"idle", "draining"} => thread[k].msg = {}

\* The markers of process p, element by element.
MarkersExact(p) ==
  /\ \A m \in Msgs :
       m \in active[p] <=> \/ m \in Elems(queue[p])
                           \/ \E k \in Threads : Home[k] = p /\ m \in thread[k].msg
  /\ \A k \in Threads : Home[k] = p => Elems(queue[p]) \cap thread[k].msg = {}
  /\ Distinct(queue[p])
  /\ Len(queue[p]) <= QueueMax
  /\ \A j, k \in Threads :
       Home[j] = p /\ Home[k] = p /\ j # k => thread[j].msg \cap thread[k].msg = {}

LocalInv ==
  /\ TypeOK
  /\ Unoccupied
  /\ \A p \in Procs : MarkersExact(p)

OneProcess == \A p, q \in Procs : p = q

OwnsRow ==
  \A k \in Threads, m \in Msgs :
    thread[k].pc \in Claimed /\ m \in thread[k].msg => status[m] # "processed"

OneInHand == \A k \in Threads : \A m, n \in thread[k].msg : m = n

QuotesDiffer == \A q, r \in quotes : q.msg = r.msg => q = r

RowsInv ==
  /\ LocalInv
  /\ OneInHand
  /\ OwnsRow
  /\ QuoteHasConsumedMessage
  /\ QuotesDiffer

\* What a claim has written stays as long as its thread works on the message.
Holding ==
  \A k \in Threads, m \in Msgs :
    thread[k].pc \in Claimed /\ m \in thread[k].msg => status[m] = "processing"

ClaimInv ==
  /\ RowsInv
  /\ Exclusive
  /\ Holding

-----------------------------------------------------------------------------
(* Sequences without repetition *)

(* Appending a new element to a queue keeps it free of repetitions. *)
LEMMA AppendElems ==
  ASSUME NEW S, NEW s \in Seq(S), NEW e \in S, Distinct(s), e \notin Elems(s)
  PROVE  /\ Append(s, e) \in Seq(S) /\ Distinct(Append(s, e))
         /\ Len(Append(s, e)) = Len(s) + 1
         /\ Elems(Append(s, e)) = Elems(s) \cup {e}
<1>1. /\ Append(s, e) \in Seq(S) /\ Len(Append(s, e)) = Len(s) + 1 /\ Len(s) \in Nat
      /\ DOMAIN s = 1..Len(s) /\ DOMAIN Append(s, e) = 1..(Len(s) + 1)
      /\ Append(s, e)[Len(s) + 1] = e
      /\ \A i \in 1..Len(s) : Append(s, e)[i] = s[i]
  OBVIOUS
<1>2. \A i \in 1..(Len(s) + 1) : i \in 1..Len(s) \/ i = Len(s) + 1
  BY <1>1
<1>3. \A i \in 1..Len(s) : i \in 1..(Len(s) + 1) /\ i # Len(s) + 1
  BY <1>1
<1>4. Len(s) + 1 \in 1..(Len(s) + 1)
  BY <1>1
<1>5. Distinct(Append(s, e))
  <2> SUFFICES ASSUME NEW i \in 1..(Len(s) + 1), NEW j \in 1..(Len(s) + 1),
                      Append(s, e)[i] = Append(s, e)[j]
               PROVE  i = j
    BY <1>1 DEF Distinct
  <2>1. CASE i \in 1..Len(s) /\ j \in 1..Len(s)
    BY <1>1, <2>1 DEF Distinct
  <2>2. CASE i \in 1..Len(s) /\ j = Len(s) + 1
    BY <1>1, <2>2 DEF Elems
  <2>3. CASE j \in 1..Len(s) /\ i = Len(s) + 1
    BY <1>1, <2>3 DEF Elems
  <2> QED BY <1>2, <2>1, <2>2, <2>3
<1>6. Elems(Append(s, e)) = Elems(s) \cup {e}
  BY <1>1, <1>2, <1>3, <1>4 DEF Elems
<1> QED BY <1>1, <1>5, <1>6

(* Taking the head off a queue takes exactly that element out. *)
LEMMA TailElems ==
  ASSUME NEW S, NEW s \in Seq(S), Distinct(s), s # << >>
  PROVE  /\ Tail(s) \in Seq(S) /\ Distinct(Tail(s))
         /\ Len(Tail(s)) = Len(s) - 1 /\ Len(s) \in Nat \ {0}
         /\ Elems(Tail(s)) = Elems(s) \ {Head(s)}
         /\ Head(s) \in Elems(s) /\ Head(s) \in S
<1>1. /\ Tail(s) \in Seq(S) /\ Len(Tail(s)) = Len(s) - 1 /\ Len(s) \in Nat \ {0}
      /\ DOMAIN s = 1..Len(s) /\ DOMAIN Tail(s) = 1..(Len(s) - 1)
      /\ Head(s) = s[1] /\ Head(s) \in S
      /\ \A i \in 1..(Len(s) - 1) : Tail(s)[i] = s[i + 1]
  OBVIOUS
<1>2. \A i \in 1..(Len(s) - 1) : i + 1 \in 1..Len(s) /\ i + 1 # 1
  BY <1>1
<1>3. \A i \in 1..Len(s) : i # 1 => i - 1 \in 1..(Len(s) - 1) /\ (i - 1) + 1 = i
  BY <1>1
<1>4. 1 \in 1..Len(s)
  BY <1>1
<1>5. Distinct(Tail(s))
  <2> SUFFICES ASSUME NEW i \in 1..(Len(s) - 1), NEW j \in 1..(Len(s) - 1),
                      Tail(s)[i] = Tail(s)[j]
               PROVE  i = j
    BY <1>1 DEF Distinct
  <2>1. s[i + 1] = s[j + 1] /\ i + 1 \in 1..Len(s) /\ j + 1 \in 1..Len(s)
    BY <1>1, <1>2
  <2>2. i + 1 = j + 1
    BY <1>1, <2>1 DEF Distinct
  <2> QED BY <1>1, <2>2
<1>6. Elems(Tail(s)) = Elems(s) \ {Head(s)}
  <2>1. ASSUME NEW x \in Elems(Tail(s)) PROVE x \in Elems(s) \ {Head(s)}
    <3>1. PICK i \in 1..(Len(s) - 1) : x = s[i + 1]
      BY <1>1 DEF Elems
    <3>2. x # s[1]
      BY <1>1, <1>2, <1>4, <3>1 DEF Distinct
    <3> QED BY <1>1, <1>2, <3>1, <3>2 DEF Elems
  <2>2. ASSUME NEW x \in Elems(s) \ {Head(s)} PROVE x \in Elems(Tail(s))
    <3>1. PICK i \in 1..Len(s) : x = s[i] /\ i # 1
      BY <1>1 DEF Elems
    <3>2. i - 1 \in 1..(Len(s) - 1) /\ x = Tail(s)[i - 1]
      BY <1>1, <1>3, <3>1
    <3> QED BY <1>1, <3>2 DEF Elems
  <2> QED BY <2>1, <2>2
<1>7. Head(s) \in Elems(s)
  BY <1>1, <1>4 DEF Elems
<1> QED BY <1>1, <1>5, <1>6, <1>7

(* A queue without repetitions holds as many messages as it has places. *)
LEMMA DistinctCardinality ==
  ASSUME NEW S, NEW s \in Seq(S), Distinct(s)
  PROVE  Cardinality(Elems(s)) = Len(s)
<1>1. Len(s) \in Nat /\ DOMAIN s = 1..Len(s) /\ s \in [1..Len(s) -> S]
  OBVIOUS
<1>2. s \in [1..Len(s) -> Elems(s)]
  BY <1>1 DEF Elems
<1>3. \A x \in Elems(s) : \E i \in 1..Len(s) : s[i] = x
  BY <1>1 DEF Elems
<1>4. s \in Injection(1..Len(s), Elems(s)) /\ s \in Surjection(1..Len(s), Elems(s))
  BY <1>1, <1>2, <1>3 DEF Distinct, Injection, IsInjective, Surjection
<1>5. ExistsBijection(1..Len(s), Elems(s))
  BY <1>4 DEF ExistsBijection, Bijection
<1>6. IsFiniteSet(1..Len(s)) /\ Cardinality(1..Len(s)) = Len(s)
  BY <1>1, FS_Interval
<1> QED BY <1>5, <1>6, FS_Bijection

(* An empty queue has neither elements nor repetitions. *)
LEMMA EmptyElems == Elems(<< >>) = {} /\ Distinct(<< >>) /\ Len(<< >>) = 0 /\ << >> \in Seq(Msgs)
  BY DEF Elems, Distinct

-----------------------------------------------------------------------------
(* What the kinds of step do to threads and markers *)

ThreadType == [Threads -> [pc : ThreadSteps, msg : SUBSET Msgs, n : Nat]]

(* Goto moves one thread to another step and leaves its message alone. *)
LEMMA GotoEffect ==
  ASSUME thread \in ThreadType, NEW k \in Threads, NEW step \in ThreadSteps, Goto(k, step)
  PROVE  /\ thread' \in ThreadType
         /\ thread'[k].pc = step
         /\ \A j \in Threads : thread'[j].msg = thread[j].msg
         /\ \A j \in Threads : j # k => thread'[j] = thread[j]
BY DEF Goto, ThreadType

(* A thread that takes on a new state. *)
LEMMA SetEffect ==
  ASSUME thread \in ThreadType, NEW k \in Threads,
         NEW new \in [pc : ThreadSteps, msg : SUBSET Msgs, n : Nat],
         thread' = [thread EXCEPT ![k] = new]
  PROVE  /\ thread' \in ThreadType
         /\ thread'[k] = new
         /\ \A j \in Threads : j # k => thread'[j] = thread[j]
BY DEF ThreadType

(* The two states of a thread without a message. *)
LEMMA EmptyStates ==
  /\ Idle \in [pc : ThreadSteps, msg : SUBSET Msgs, n : Nat]
  /\ Draining \in [pc : ThreadSteps, msg : SUBSET Msgs, n : Nat]
  /\ Idle.msg = {} /\ Draining.msg = {} /\ Idle.pc = "idle" /\ Draining.pc = "draining"
BY DEF Idle, Draining, ThreadSteps

(* Markers, queues and messages in hand are as they were. *)
LEMMA MarkersKept ==
  ASSUME LocalInv, queue' = queue, active' = active,
         \A k \in Threads : thread'[k].msg = thread[k].msg
  PROVE  \A p \in Procs : MarkersExact(p)'
BY DEF LocalInv, MarkersExact

(* mark_message_finished clears the marker of the message in hand, and no  *)
(* other.                                                                  *)
LEMMA MarkersReleased ==
  ASSUME LocalInv, NEW k \in Threads, NEW new, new.msg = {},
         active' = [active EXCEPT ![Home[k]] = @ \ thread[k].msg],
         thread'[k] = new, \A j \in Threads : j # k => thread'[j] = thread[j],
         queue' = queue
  PROVE  \A p \in Procs : MarkersExact(p)'
<1> SUFFICES ASSUME NEW p \in Procs PROVE MarkersExact(p)'
  OBVIOUS
<1>1. MarkersExact(p) /\ active \in [Procs -> SUBSET Msgs] /\ Home \in [Threads -> Procs]
  BY InboundConstants DEF LocalInv, TypeOK
<1>2. CASE Home[k] # p
  <2>1. active'[p] = active[p]
    BY <1>1, <1>2
  <2>2. \A j \in Threads : Home[j] = p => thread'[j] = thread[j]
    BY <1>2
  <2> QED BY <1>1, <2>1, <2>2 DEF MarkersExact
<1>3. CASE Home[k] = p
  <2>1. active'[p] = active[p] \ thread[k].msg
    BY <1>1, <1>3
  <2>2. thread'[k].msg = {}
    OBVIOUS
  <2>3. ASSUME NEW m \in Msgs
        PROVE  m \in active'[p] <=> \/ m \in Elems(queue[p])
                                    \/ \E j \in Threads : Home[j] = p /\ m \in thread'[j].msg
    <3>1. m \in active[p] <=> \/ m \in Elems(queue[p])
                              \/ \E j \in Threads : Home[j] = p /\ m \in thread[j].msg
      BY <1>1 DEF MarkersExact
    <3>2. CASE m \in thread[k].msg
      <4>1. m \notin Elems(queue[p])
        BY <1>1, <1>3, <3>2 DEF MarkersExact
      <4>2. \A j \in Threads : Home[j] = p /\ j # k => m \notin thread[j].msg
        BY <1>1, <1>3, <3>2 DEF MarkersExact
      <4> QED BY <2>1, <2>2, <3>2, <4>1, <4>2
    <3>3. CASE m \notin thread[k].msg
      BY <2>1, <2>2, <3>1, <3>3
    <3> QED BY <3>2, <3>3
  <2> QED BY <1>1, <2>2, <2>3 DEF MarkersExact
<1> QED BY <1>2, <1>3

-----------------------------------------------------------------------------
(* Type correctness *)

(* A thread that lets go of its message. *)
LEMMA ReleaseTypes ==
  ASSUME TypeOK, NEW k \in Threads,
         NEW then \in [pc : ThreadSteps, msg : SUBSET Msgs, n : Nat], Release(k, then)
  PROVE  thread' \in ThreadType /\ active' \in [Procs -> SUBSET Msgs]
BY SetEffect, InboundConstants DEF TypeOK, Release, ThreadType

(* The status columns, whichever of them a step writes. *)
LEMMA RowTypes ==
  ASSUME TypeOK, NEW m \in Msgs, NEW to \in Statuses,
         \/ status' = [status EXCEPT ![m] = to] /\ stale' = stale \ {m}
         \/ UNCHANGED <<status, stale>>
  PROVE  status' \in [Msgs -> Statuses] /\ stale' \in SUBSET Msgs
BY DEF TypeOK

(* One more failure. *)
LEMMA FailureTypes ==
  ASSUME TypeOK, failures < MaxFailures, failures' = failures + 1
  PROVE  failures' \in 0..MaxFailures
BY InboundConstants DEF TypeOK

(* The steps of a thread keep the types. *)
LEMMA ThreadTypes ==
  ASSUME TypeOK, NEW k \in Threads, ThreadStep(k)
  PROVE  TypeOK'
<1> USE DEF ThreadType
<1>0. Home[k] \in Procs /\ thread \in ThreadType
  BY InboundConstants DEF TypeOK
<1>1. CASE Start(k)
  BY <1>0, <1>1, EmptyStates, SetEffect DEF Start, TypeOK, rows
<1>2. CASE Dequeue(k)
  <2>1. CASE queue[Home[k]] = << >>
    BY <1>0, <1>2, <2>1, EmptyStates, SetEffect DEF Dequeue, TypeOK, rows
  <2>2. CASE queue[Home[k]] # << >>
    <3>1. Head(queue[Home[k]]) \in Msgs /\ Tail(queue[Home[k]]) \in Seq(Msgs)
      BY <1>0, <2>2 DEF TypeOK
    <3>2. [pc |-> "claiming", n |-> 0, msg |-> {Head(queue[Home[k]])}]
            \in [pc : ThreadSteps, msg : SUBSET Msgs, n : Nat]
      BY <3>1 DEF ThreadSteps
    <3>3. thread' \in ThreadType
      BY <1>0, <1>2, <2>2, <3>2, SetEffect DEF Dequeue
    <3>4. queue' \in [Procs -> Seq(Msgs)]
      BY <1>0, <1>2, <2>2, <3>1 DEF Dequeue, TypeOK
    <3> QED BY <1>2, <3>3, <3>4 DEF Dequeue, TypeOK, rows
  <2> QED BY <2>1, <2>2
<1>3. ASSUME NEW m \in Msgs,
             \/ Claim(k, m) \/ ClaimConsumed(k, m) \/ ClaimLost(k, m)
             \/ Recheck(k, m) \/ Ignore(k, m)
      PROVE  TypeOK'
  <2>1. CASE Claim(k, m)
    <3>1. thread' \in ThreadType
      BY <1>0, <2>1, GotoEffect DEF Claim, ThreadSteps
    <3>2. status' \in [Msgs -> Statuses] /\ stale' \in SUBSET Msgs
      BY <2>1 DEF Claim, TypeOK, Statuses
    <3> QED BY <2>1, <3>1, <3>2 DEF Claim, TypeOK, local
  <2>2. CASE ClaimConsumed(k, m)
    <3>1. thread' \in ThreadType /\ active' \in [Procs -> SUBSET Msgs]
      BY <2>2, EmptyStates, ReleaseTypes DEF ClaimConsumed
    <3> QED BY <2>2, <3>1 DEF ClaimConsumed, TypeOK, rows
  <2>3. CASE ClaimLost(k, m)
    <3>1. thread' \in ThreadType
      BY <1>0, <2>3, GotoEffect DEF ClaimLost, ThreadSteps
    <3> QED BY <2>3, <3>1 DEF ClaimLost, TypeOK, rows, local
  <2>4. CASE Recheck(k, m)
    <3>1. thread' \in ThreadType /\ active' \in [Procs -> SUBSET Msgs]
      <4>1. CASE Claimable(m)
        <5>1. Goto(k, "processing") /\ active' = active
          BY <2>4, <4>1 DEF Recheck
        <5> QED BY <1>0, <5>1, GotoEffect DEF ThreadSteps, TypeOK
      <4>2. CASE ~Claimable(m)
        BY <2>4, <4>2, EmptyStates, ReleaseTypes DEF Recheck
      <4> QED BY <4>1, <4>2
    <3> QED BY <2>4, <3>1 DEF Recheck, TypeOK, rows
  <2>5. CASE Ignore(k, m)
    <3>1. thread' \in ThreadType
      BY <1>0, <2>5, GotoEffect DEF Ignore, ThreadSteps
    <3> QED BY <2>5, <3>1 DEF Ignore, TypeOK, rows, local
  <2> QED BY <1>3, <2>1, <2>2, <2>3, <2>4, <2>5
<1>4. ASSUME NEW m \in Msgs, NEW verdict \in Verdicts, Decide(k, m, verdict)
      PROVE  TypeOK'
  <2>1. PICK step \in ThreadSteps : Goto(k, step)
    BY <1>4 DEF Decide, ThreadSteps
  <2>2. thread' \in ThreadType
    BY <1>0, <2>1, GotoEffect
  <2>3. failures' \in 0..MaxFailures
    BY <1>4, FailureTypes DEF Decide, TypeOK
  <2> QED BY <1>4, <2>2, <2>3 DEF Decide, TypeOK, rows, local
<1>5. ASSUME NEW m \in Msgs,
             NumberArtifact(k, m) \/ FlushQuote(k, m) \/ QuoteRefused(k, m)
      PROVE  TypeOK'
  <2>1. CASE NumberArtifact(k, m)
    <3>1. artifacts[m] + 1 \in Nat
      BY DEF TypeOK
    <3>2. thread' \in ThreadType
      BY <1>0, <2>1, <3>1 DEF NumberArtifact, ThreadSteps
    <3> QED BY <2>1, <3>2 DEF NumberArtifact, TypeOK, rows, local
  <2>2. CASE FlushQuote(k, m)
    <3>1. PICK step \in ThreadSteps : Goto(k, step)
      BY <2>2 DEF FlushQuote, ThreadSteps
    <3>2. thread' \in ThreadType
      BY <1>0, <3>1, GotoEffect
    <3> QED BY <2>2, <3>2 DEF FlushQuote, TypeOK, rows, local
  <2>3. CASE QuoteRefused(k, m)
    <3>1. thread' \in ThreadType
      BY <1>0, <2>3, GotoEffect DEF QuoteRefused, ThreadSteps
    <3>2. failures' \in 0..MaxFailures
      BY <2>3, FailureTypes DEF QuoteRefused
    <3> QED BY <2>3, <3>1, <3>2 DEF QuoteRefused, TypeOK, rows, local
  <2> QED BY <1>5, <2>1, <2>2, <2>3
<1>6. ASSUME NEW m \in Msgs,
             \/ QuoteCommitted(k, m) \/ QuoteRolledBack(k, m)
             \/ Finalize(k, m) \/ Raise(k, m)
      PROVE  TypeOK'
  <2>1. CASE QuoteCommitted(k, m)
    <3>1. thread' \in ThreadType /\ active' \in [Procs -> SUBSET Msgs]
      BY <2>1, EmptyStates, ReleaseTypes DEF QuoteCommitted
    <3>2. status' \in [Msgs -> Statuses] /\ stale' \in SUBSET Msgs
      BY <2>1, RowTypes DEF QuoteCommitted, Statuses
    <3>3. thread[k].n \in Nat
      BY <1>0
    <3>4. [msg |-> m, n |-> thread[k].n, active |-> TRUE] \in [msg : Msgs, n : Nat, active : BOOLEAN]
      BY <3>3
    <3>5. quotes' \in SUBSET [msg : Msgs, n : Nat, active : BOOLEAN]
      BY <2>1, <3>4 DEF QuoteCommitted, TypeOK
    <3>6. artifacts' \in [Msgs -> Nat]
      BY <2>1, <3>3 DEF QuoteCommitted, TypeOK
    <3> QED BY <2>1, <3>1, <3>2, <3>5, <3>6 DEF QuoteCommitted, TypeOK
  <2>2. CASE QuoteRolledBack(k, m)
    <3>1. thread' \in ThreadType /\ active' \in [Procs -> SUBSET Msgs]
      BY <2>2, EmptyStates, ReleaseTypes DEF QuoteRolledBack
    <3>2. status' \in [Msgs -> Statuses] /\ stale' \in SUBSET Msgs
      BY <2>2, RowTypes DEF QuoteRolledBack, Statuses
    <3>3. failures' \in 0..MaxFailures
      BY <2>2, FailureTypes DEF QuoteRolledBack
    <3> QED BY <2>2, <3>1, <3>2, <3>3 DEF QuoteRolledBack, TypeOK
  <2>3. CASE Finalize(k, m)
    <3>1. thread' \in ThreadType /\ active' \in [Procs -> SUBSET Msgs]
      BY <2>3, EmptyStates, ReleaseTypes DEF Finalize
    <3>2. status' \in [Msgs -> Statuses] /\ stale' \in SUBSET Msgs
      BY <2>3 DEF Finalize, Statuses, TypeOK
    <3>3. artifacts' = artifacts \/ artifacts' = [artifacts EXCEPT ![m] = artifacts[m] + 1]
      BY <2>3 DEF Finalize
    <3>4. artifacts' \in [Msgs -> Nat]
      <4>1. CASE artifacts' = artifacts
        BY <4>1 DEF TypeOK
      <4>2. CASE artifacts' = [artifacts EXCEPT ![m] = artifacts[m] + 1]
        BY <4>2 DEF TypeOK
      <4> QED BY <3>3, <4>1, <4>2
    <3> QED BY <2>3, <3>1, <3>2, <3>4 DEF Finalize, TypeOK
  <2>4. CASE Raise(k, m)
    <3>1. thread' \in ThreadType /\ active' \in [Procs -> SUBSET Msgs]
      BY <2>4, EmptyStates, ReleaseTypes DEF Raise
    <3>2. status' \in [Msgs -> Statuses] /\ stale' \in SUBSET Msgs
      BY <2>4, RowTypes DEF Raise, Statuses
    <3>3. failures' \in 0..MaxFailures
      BY <2>4, FailureTypes DEF Raise
    <3> QED BY <2>4, <3>1, <3>2, <3>3 DEF Raise, TypeOK
  <2> QED BY <1>6, <2>1, <2>2, <2>3, <2>4
<1> QED BY <1>1, <1>2, <1>3, <1>4, <1>5, <1>6 DEF ThreadStep

(* Every step keeps the types. *)
LEMMA NextTypes == TypeOK /\ [Next]_vars => TypeOK'
<1> SUFFICES ASSUME TypeOK, [Next]_vars PROVE TypeOK'
  OBVIOUS
<1>1. ASSUME NEW p \in Procs, NEW m \in Msgs, Deliver(p, m) PROVE TypeOK'
  <2>1. delivered' \in [Msgs -> 0..MaxDeliveries]
    BY <1>1, InboundConstants DEF Deliver, TypeOK
  <2>2. /\ status' \in [Msgs -> Statuses] /\ stale' \in SUBSET Msgs
        /\ handler' \in [Procs -> SUBSET Msgs]
    <3>1. CASE Recoverable(m)
      <4>1. (IF status[m] = "failed" THEN "failed" ELSE "received") \in Statuses
        BY DEF Statuses
      <4>2. /\ status' = [status EXCEPT ![m] = IF status[m] = "failed" THEN "failed" ELSE "received"]
            /\ stale' = stale \ {m} /\ handler' = [handler EXCEPT ![p] = {m}]
        BY <1>1, <3>1 DEF Deliver
      <4>3. status' \in [Msgs -> Statuses]
        BY <4>1, <4>2 DEF TypeOK
      <4>4. stale' \in SUBSET Msgs /\ handler' \in [Procs -> SUBSET Msgs]
        BY <4>2 DEF TypeOK
      <4> QED BY <4>3, <4>4
    <3>2. CASE ~Recoverable(m)
      BY <1>1, <3>2 DEF Deliver, TypeOK
    <3> QED BY <3>1, <3>2
  <2> QED BY <1>1, <2>1, <2>2 DEF Deliver, TypeOK
<1>2. ASSUME NEW p \in Procs, NEW m \in Msgs, Enqueue(p, m) PROVE TypeOK'
  <2>1. handler' \in [Procs -> SUBSET Msgs]
    BY <1>2 DEF Enqueue, TypeOK
  <2>2. /\ queue' \in [Procs -> Seq(Msgs)] /\ active' \in [Procs -> SUBSET Msgs]
        /\ drains' \in [Procs -> Nat]
    <3>1. CASE m \in active[p]
      BY <1>2, <3>1 DEF Enqueue, TypeOK
    <3>2. CASE m \notin active[p]
      <4>0. queue[p] \in Seq(Msgs)
        BY DEF TypeOK
      <4>1. Evicted(p) # {} => queue[p] # << >>
        BY <4>0, EmptyElems, InboundConstants DEF Evicted
      <4>2. (IF Evicted(p) = {} THEN queue[p] ELSE Tail(queue[p])) \in Seq(Msgs)
        BY <4>0, <4>1
      <4>3. Append(IF Evicted(p) = {} THEN queue[p] ELSE Tail(queue[p]), m) \in Seq(Msgs)
        BY <4>2
      <4>4. queue' \in [Procs -> Seq(Msgs)]
        BY <1>2, <3>2, <4>3 DEF Enqueue, TypeOK
      <4>5. (active[p] \cup {m}) \ Evicted(p) \in SUBSET Msgs
        BY DEF TypeOK
      <4>6. /\ active' = [active EXCEPT ![p] = (active[p] \cup {m}) \ Evicted(p)]
            /\ drains' = [drains EXCEPT ![p] = @ + 1]
        BY <1>2, <3>2 DEF Enqueue
      <4>7. active \in [Procs -> SUBSET Msgs] /\ drains \in [Procs -> Nat]
        BY DEF TypeOK
      <4>8. active' \in [Procs -> SUBSET Msgs]
        BY <4>5, <4>6, <4>7
      <4>9. drains' \in [Procs -> Nat]
        BY <4>6, <4>7
      <4> QED BY <4>4, <4>8, <4>9
    <3> QED BY <3>1, <3>2
  <2> QED BY <1>2, <2>1, <2>2 DEF Enqueue, TypeOK, rows
<1>3. ASSUME NEW k \in Threads, ThreadStep(k) PROVE TypeOK'
  BY <1>3, ThreadTypes
<1>4. ASSUME NEW m \in Msgs, Stall(m) PROVE TypeOK'
  BY <1>4 DEF Stall, TypeOK, local
<1>5. ASSUME NEW p \in Procs, Crash(p) PROVE TypeOK'
  <2>1. failures' \in 0..MaxFailures
    BY <1>5, FailureTypes DEF Crash
  <2>2. thread' \in ThreadType
    BY <1>5, EmptyStates DEF Crash, ThreadType, TypeOK
  <2>3. /\ handler' \in [Procs -> SUBSET Msgs] /\ active' \in [Procs -> SUBSET Msgs]
        /\ drains' \in [Procs -> Nat] /\ queue' \in [Procs -> Seq(Msgs)]
    BY <1>5, EmptyElems DEF Crash, TypeOK
  <2> QED BY <1>5, <2>1, <2>2, <2>3 DEF Crash, TypeOK, rows, ThreadType
<1>6. ASSUME NEW q \in quotes, DeskRejects(q) PROVE TypeOK'
  <2>1. [q EXCEPT !.active = FALSE] \in [msg : Msgs, n : Nat, active : BOOLEAN]
    BY ZenonT(40) DEF TypeOK
  <2> QED BY <1>6, <2>1 DEF DeskRejects, TypeOK, local
<1>7. CASE UNCHANGED vars
  BY <1>7 DEF vars, rows, local, TypeOK
<1> QED BY <1>1, <1>2, <1>3, <1>4, <1>5, <1>6, <1>7 DEF Next

-----------------------------------------------------------------------------
(* The duplicate guard *)

(* A thread that moves on with its message, or only its numbers. *)
LEMMA MovedOn ==
  ASSUME LocalInv, TypeOK', NEW k \in Threads,
         thread[k].pc \notin {"idle", "draining"}, thread'[k].pc \notin {"idle", "draining"},
         \A j \in Threads : thread'[j].msg = thread[j].msg,
         \A j \in Threads : j # k => thread'[j] = thread[j],
         queue' = queue, active' = active
  PROVE  LocalInv'
<1>1. Unoccupied'
  BY DEF LocalInv, Unoccupied
<1> QED BY <1>1, MarkersKept DEF LocalInv

(* A thread that is done with its message. *)
LEMMA LetGo ==
  ASSUME LocalInv, TypeOK', NEW k \in Threads, NEW then \in {Idle, Draining},
         Release(k, then), queue' = queue
  PROVE  LocalInv'
<1>1. thread'[k] = then /\ \A j \in Threads : j # k => thread'[j] = thread[j]
  BY EmptyStates, SetEffect DEF Release, LocalInv, TypeOK, ThreadType
<1>2. then.msg = {}
  BY EmptyStates
<1>3. Unoccupied'
  BY <1>1, <1>2 DEF LocalInv, Unoccupied
<1>4. \A p \in Procs : MarkersExact(p)'
  BY <1>1, <1>2, MarkersReleased DEF Release
<1> QED BY <1>3, <1>4 DEF LocalInv

(* A message that is dequeued goes from the queue into the thread's hands. *)
LEMMA DequeueStep ==
  ASSUME LocalInv, TypeOK', NEW k \in Threads, Dequeue(k)
  PROVE  LocalInv'
<1>0. Home[k] \in Procs /\ thread \in ThreadType /\ thread[k].msg = {}
  BY InboundConstants DEF LocalInv, TypeOK, Dequeue, Unoccupied, ThreadType
<1>1. CASE queue[Home[k]] = << >>
  <2>1. thread' = [thread EXCEPT ![k] = Idle] /\ queue' = queue /\ active' = active
    BY <1>1 DEF Dequeue
  <2>2. thread'[k] = Idle /\ \A j \in Threads : j # k => thread'[j] = thread[j]
    BY <1>0, <2>1, EmptyStates, SetEffect
  <2>3. \A j \in Threads : thread'[j].msg = thread[j].msg
    BY <1>0, <2>2, EmptyStates
  <2>4. Unoccupied'
    BY <2>2, EmptyStates DEF LocalInv, Unoccupied
  <2> QED BY <2>1, <2>3, <2>4, MarkersKept DEF LocalInv
<1>2. CASE queue[Home[k]] # << >>
  <2> DEFINE h == Head(queue[Home[k]])
             new == [pc |-> "claiming", n |-> 0, msg |-> {h}]
  <2>1. /\ thread' = [thread EXCEPT ![k] = new]
        /\ queue' = [queue EXCEPT ![Home[k]] = Tail(@)]
        /\ active' = active
    BY <1>2 DEF Dequeue
  <2>2. queue[Home[k]] \in Seq(Msgs) /\ MarkersExact(Home[k]) /\ queue \in [Procs -> Seq(Msgs)]
    BY <1>0 DEF LocalInv, TypeOK
  <2>3. Distinct(queue[Home[k]])
    BY <2>2 DEF MarkersExact
  <2>4. /\ Distinct(Tail(queue[Home[k]])) /\ h \in Msgs /\ h \in Elems(queue[Home[k]])
        /\ Len(Tail(queue[Home[k]])) = Len(queue[Home[k]]) - 1
        /\ Len(queue[Home[k]]) \in Nat
        /\ Elems(Tail(queue[Home[k]])) = Elems(queue[Home[k]]) \ {h}
    BY <1>2, <2>2, <2>3, TailElems
  <2>5. new \in [pc : ThreadSteps, msg : SUBSET Msgs, n : Nat] /\ new.msg = {h} /\ new.pc = "claiming"
    BY <2>4 DEF ThreadSteps
  <2> HIDE DEF h, new
  <2>6. thread'[k] = new /\ \A j \in Threads : j # k => thread'[j] = thread[j]
    BY <1>0, <2>1, <2>5, SetEffect
  <2>7. Unoccupied'
    BY <2>5, <2>6 DEF LocalInv, Unoccupied
  <2>8. ASSUME NEW p \in Procs PROVE MarkersExact(p)'
    <3>1. CASE p # Home[k]
      <4>1. queue'[p] = queue[p] /\ active'[p] = active[p] /\ MarkersExact(p)
        BY <2>1, <2>2, <3>1 DEF LocalInv
      <4>2. \A j \in Threads : Home[j] = p => thread'[j] = thread[j]
        BY <2>6, <3>1
      <4> QED BY <4>1, <4>2 DEF MarkersExact
    <3>2. CASE p = Home[k]
      <4>1. queue'[p] = Tail(queue[p]) /\ active'[p] = active[p]
        BY <2>1, <2>2, <3>2
      <4>2. /\ Elems(queue'[p]) = Elems(queue[p]) \ {h} /\ Distinct(queue'[p])
            /\ h \in Elems(queue[p]) /\ thread'[k].msg = {h}
        BY <2>4, <2>5, <2>6, <3>2, <4>1
      <4>3. Len(queue'[p]) <= QueueMax
        BY <2>2, <2>4, <3>2, <4>1, InboundConstants DEF MarkersExact
      <4>4. \A m \in Msgs :
              m \in active'[p] <=> \/ m \in Elems(queue'[p])
                                   \/ \E j \in Threads : Home[j] = p /\ m \in thread'[j].msg
        <5> SUFFICES ASSUME NEW m \in Msgs
                     PROVE  m \in active'[p] <=>
                              \/ m \in Elems(queue'[p])
                              \/ \E j \in Threads : Home[j] = p /\ m \in thread'[j].msg
          OBVIOUS
        <5>1. m \in active[p] <=> \/ m \in Elems(queue[p])
                                  \/ \E j \in Threads : Home[j] = p /\ m \in thread[j].msg
          BY <2>2, <3>2 DEF MarkersExact
        <5> QED BY <1>0, <2>6, <3>2, <4>1, <4>2, <5>1
      <4>5. \A j \in Threads : Home[j] = p => Elems(queue'[p]) \cap thread'[j].msg = {}
        <5> SUFFICES ASSUME NEW j \in Threads, Home[j] = p
                     PROVE  Elems(queue'[p]) \cap thread'[j].msg = {}
          OBVIOUS
        <5>1. Elems(queue[p]) \cap thread[j].msg = {}
          BY <2>2, <3>2 DEF MarkersExact
        <5> QED BY <2>6, <4>2, <5>1
      <4>6. \A i, j \in Threads :
              Home[i] = p /\ Home[j] = p /\ i # j => thread'[i].msg \cap thread'[j].msg = {}
        <5> SUFFICES ASSUME NEW i \in Threads, NEW j \in Threads,
                            Home[i] = p, Home[j] = p, i # j
                     PROVE  thread'[i].msg \cap thread'[j].msg = {}
          OBVIOUS
        <5>1. /\ Elems(queue[p]) \cap thread[i].msg = {} /\ Elems(queue[p]) \cap thread[j].msg = {}
              /\ thread[i].msg \cap thread[j].msg = {}
          BY <2>2, <3>2 DEF MarkersExact
        <5> QED BY <2>6, <4>2, <5>1
      <4> QED BY <4>2, <4>3, <4>4, <4>5, <4>6 DEF MarkersExact
    <3> QED BY <3>1, <3>2
  <2> QED BY <2>7, <2>8 DEF LocalInv
<1> QED BY <1>1, <1>2

(* enqueue_message: a message that is accepted is new to the process, and  *)
(* the one it evicts loses its marker.                                     *)
LEMMA EnqueueStep ==
  ASSUME LocalInv, TypeOK', NEW p \in Procs, NEW m \in Msgs, Enqueue(p, m)
  PROVE  LocalInv'
<1>1. thread' = thread
  BY DEF Enqueue
<1>2. Unoccupied'
  BY <1>1 DEF LocalInv, Unoccupied
<1>3. CASE m \in active[p]
  <2>1. queue' = queue /\ active' = active
    BY <1>3 DEF Enqueue
  <2> QED BY <1>1, <1>2, <2>1, MarkersKept DEF LocalInv
<1>4. CASE m \notin active[p]
  <2> DEFINE q0 == IF Evicted(p) = {} THEN queue[p] ELSE Tail(queue[p])
  <2>1. /\ active' = [active EXCEPT ![p] = (active[p] \cup {m}) \ Evicted(p)]
        /\ queue' = [queue EXCEPT ![p] = Append(q0, m)]
    BY <1>4 DEF Enqueue
  <2>2. /\ queue[p] \in Seq(Msgs) /\ queue \in [Procs -> Seq(Msgs)]
        /\ active \in [Procs -> SUBSET Msgs]
        /\ MarkersExact(p) /\ Distinct(queue[p]) /\ Len(queue[p]) <= QueueMax
    BY DEF LocalInv, TypeOK, MarkersExact
  <2>3. /\ m \notin Elems(queue[p])
        /\ \A j \in Threads : Home[j] = p => m \notin thread[j].msg
    BY <1>4, <2>2 DEF MarkersExact
  <2>4. /\ q0 \in Seq(Msgs) /\ Distinct(q0) /\ Elems(q0) = Elems(queue[p]) \ Evicted(p)
        /\ Len(q0) + 1 <= QueueMax /\ Evicted(p) \subseteq Elems(queue[p])
    <3>1. CASE Len(queue[p]) >= QueueMax
      <4>1. queue[p] # << >>
        BY <3>1, EmptyElems, InboundConstants
      <4>2. Evicted(p) = {Head(queue[p])}
        BY <3>1 DEF Evicted
      <4>3. q0 = Tail(queue[p])
        BY <4>2
      <4>4. /\ Tail(queue[p]) \in Seq(Msgs) /\ Distinct(Tail(queue[p]))
            /\ Len(Tail(queue[p])) = Len(queue[p]) - 1 /\ Len(queue[p]) \in Nat \ {0}
            /\ Elems(Tail(queue[p])) = Elems(queue[p]) \ {Head(queue[p])}
            /\ Head(queue[p]) \in Elems(queue[p])
        BY <2>2, <4>1, TailElems
      <4>5. Len(Tail(queue[p])) + 1 = Len(queue[p])
        BY <4>4
      <4> QED BY <2>2, <4>2, <4>3, <4>4, <4>5
    <3>2. CASE ~(Len(queue[p]) >= QueueMax)
      <4>1. Evicted(p) = {} /\ q0 = queue[p]
        BY <3>2 DEF Evicted
      <4>2. Len(queue[p]) \in Nat
        BY <2>2
      <4>3. Len(queue[p]) + 1 <= QueueMax
        BY <3>2, <4>2, InboundConstants
      <4> QED BY <2>2, <4>1, <4>3
    <3> QED BY <3>1, <3>2
  <2> HIDE DEF q0
  <2>5. /\ Distinct(Append(q0, m)) /\ Len(Append(q0, m)) = Len(q0) + 1
        /\ Elems(Append(q0, m)) = Elems(q0) \cup {m}
    BY <2>3, <2>4, AppendElems
  <2>6. ASSUME NEW r \in Procs PROVE MarkersExact(r)'
    <3>1. CASE r # p
      <4>1. queue'[r] = queue[r] /\ active'[r] = active[r] /\ MarkersExact(r)
        BY <2>1, <2>2, <3>1 DEF LocalInv
      <4> QED BY <1>1, <4>1 DEF MarkersExact
    <3>2. CASE r = p
      <4>1. queue'[p] = Append(q0, m) /\ active'[p] = (active[p] \cup {m}) \ Evicted(p)
        BY <2>1, <2>2
      <4>2. Elems(queue'[p]) = (Elems(queue[p]) \ Evicted(p)) \cup {m}
        BY <2>4, <2>5, <4>1
      <4>3. \A j \in Threads : Home[j] = p => Elems(queue[p]) \cap thread[j].msg = {}
        BY <2>2 DEF MarkersExact
      <4>4. \A x \in Msgs :
              x \in active'[p] <=> \/ x \in Elems(queue'[p])
                                   \/ \E j \in Threads : Home[j] = p /\ x \in thread[j].msg
        <5> SUFFICES ASSUME NEW x \in Msgs
                     PROVE  x \in active'[p] <=>
                              \/ x \in Elems(queue'[p])
                              \/ \E j \in Threads : Home[j] = p /\ x \in thread[j].msg
          OBVIOUS
        <5>1. x \in active[p] <=> \/ x \in Elems(queue[p])
                                  \/ \E j \in Threads : Home[j] = p /\ x \in thread[j].msg
          BY <2>2 DEF MarkersExact
        <5>2. x = m => x \notin Evicted(p)
          BY <2>3, <2>4
        <5>3. x \in Evicted(p) => ~ \E j \in Threads : Home[j] = p /\ x \in thread[j].msg
          BY <2>4, <4>3
        <5> QED BY <4>1, <4>2, <5>1, <5>2, <5>3
      <4>5. \A j \in Threads : Home[j] = p => Elems(queue'[p]) \cap thread[j].msg = {}
        BY <2>3, <4>2, <4>3
      <4>6. Distinct(queue'[p]) /\ Len(queue'[p]) <= QueueMax
        BY <2>4, <2>5, <4>1
      <4>7. \A i, j \in Threads :
              Home[i] = p /\ Home[j] = p /\ i # j => thread[i].msg \cap thread[j].msg = {}
        BY <2>2 DEF MarkersExact
      <4> QED BY <1>1, <3>2, <4>4, <4>5, <4>6, <4>7 DEF MarkersExact
    <3> QED BY <3>1, <3>2
  <2> QED BY <1>2, <2>6 DEF LocalInv
<1> QED BY <1>3, <1>4

(* A crash empties the process: no marker outlives it. *)
LEMMA CrashStep ==
  ASSUME LocalInv, TypeOK', NEW p \in Procs, Crash(p)
  PROVE  LocalInv'
<1>1. /\ queue' = [queue EXCEPT ![p] = << >>] /\ active' = [active EXCEPT ![p] = {}]
      /\ thread' = [k \in Threads |-> IF Home[k] = p THEN Idle ELSE thread[k]]
      /\ queue \in [Procs -> Seq(Msgs)] /\ active \in [Procs -> SUBSET Msgs]
  BY DEF Crash, LocalInv, TypeOK
<1>2. Unoccupied'
  BY <1>1, EmptyStates DEF LocalInv, Unoccupied
<1>3. ASSUME NEW r \in Procs PROVE MarkersExact(r)'
  <2>1. CASE r # p
    <3>1. queue'[r] = queue[r] /\ active'[r] = active[r] /\ MarkersExact(r)
      BY <1>1, <2>1 DEF LocalInv
    <3>2. \A k \in Threads : Home[k] = r => thread'[k] = thread[k]
      BY <1>1, <2>1
    <3> QED BY <3>1, <3>2 DEF MarkersExact
  <2>2. CASE r = p
    <3>1. queue'[p] = << >> /\ active'[p] = {}
      BY <1>1
    <3>2. \A k \in Threads : Home[k] = p => thread'[k].msg = {}
      BY <1>1, EmptyStates
    <3>3. Len(queue'[p]) <= QueueMax
      BY <3>1, EmptyElems, InboundConstants
    <3> QED BY <2>2, <3>1, <3>2, <3>3, EmptyElems DEF MarkersExact
  <2> QED BY <2>1, <2>2
<1> QED BY <1>2, <1>3 DEF LocalInv

(* The steps of a thread keep the guard exact. *)
LEMMA ThreadLocal ==
  ASSUME LocalInv, TypeOK', NEW k \in Threads, ThreadStep(k)
  PROVE  LocalInv'
<1>0. thread \in ThreadType /\ thread[k].pc \in ThreadSteps
  BY DEF LocalInv, TypeOK, ThreadType
<1>1. CASE Start(k)
  <2>1. thread[k].msg = {} /\ queue' = queue /\ active' = active
    BY <1>1 DEF Start, LocalInv, Unoccupied
  <2>2. thread'[k] = Draining /\ \A j \in Threads : j # k => thread'[j] = thread[j]
    BY <1>0, <1>1, EmptyStates, SetEffect DEF Start
  <2>3. \A j \in Threads : thread'[j].msg = thread[j].msg
    BY <2>1, <2>2, EmptyStates
  <2>4. Unoccupied'
    BY <2>2, EmptyStates DEF LocalInv, Unoccupied
  <2> QED BY <2>1, <2>3, <2>4, MarkersKept DEF LocalInv
<1>2. CASE Dequeue(k)
  BY <1>2, DequeueStep
<1>3. ASSUME NEW m \in Msgs,
             \/ Claim(k, m) \/ ClaimLost(k, m) \/ Ignore(k, m)
             \/ NumberArtifact(k, m) \/ FlushQuote(k, m) \/ QuoteRefused(k, m)
             \/ \E verdict \in Verdicts : Decide(k, m, verdict)
      PROVE  LocalInv'
  <2>1. queue' = queue /\ active' = active /\ thread[k].pc \notin {"idle", "draining"}
    BY <1>3 DEF Claim, ClaimLost, Ignore, NumberArtifact, FlushQuote, QuoteRefused, Decide, local
  <2>2. CASE NumberArtifact(k, m)
    <3>1. /\ thread'[k].pc = "numbered" /\ \A j \in Threads : thread'[j].msg = thread[j].msg
          /\ \A j \in Threads : j # k => thread'[j] = thread[j]
      BY <1>0, <2>2 DEF NumberArtifact, ThreadType
    <3> QED BY <2>1, <3>1, MovedOn
  <2>3. CASE ~NumberArtifact(k, m)
    <3>1. PICK step \in ThreadSteps \ {"idle", "draining"} : Goto(k, step)
      BY <1>3, <2>3 DEF Claim, ClaimLost, Ignore, FlushQuote, QuoteRefused, Decide, ThreadSteps
    <3> QED BY <1>0, <2>1, <3>1, GotoEffect, MovedOn
  <2> QED BY <2>2, <2>3
<1>4. ASSUME NEW m \in Msgs, Recheck(k, m) PROVE LocalInv'
  <2>1. CASE Claimable(m)
    <3>1. /\ Goto(k, "processing") /\ queue' = queue /\ active' = active
          /\ thread[k].pc \notin {"idle", "draining"}
      BY <1>4, <2>1 DEF Recheck
    <3> QED BY <1>0, <3>1, GotoEffect, MovedOn DEF ThreadSteps
  <2>2. CASE ~Claimable(m)
    BY <1>4, <2>2, LetGo DEF Recheck
  <2> QED BY <2>1, <2>2
<1>5. ASSUME NEW m \in Msgs,
             \/ ClaimConsumed(k, m) \/ QuoteCommitted(k, m) \/ QuoteRolledBack(k, m)
             \/ Finalize(k, m) \/ Raise(k, m)
      PROVE  LocalInv'
  <2>1. queue' = queue /\ \E then \in {Idle, Draining} : Release(k, then)
    BY <1>5 DEF ClaimConsumed, QuoteCommitted, QuoteRolledBack, Finalize, Raise
  <2> QED BY <2>1, LetGo
<1> QED BY <1>1, <1>2, <1>3, <1>4, <1>5 DEF ThreadStep

(* The guard is exact after every step. *)
LEMMA NextLocal == LocalInv /\ [Next]_vars => LocalInv'
<1> SUFFICES ASSUME LocalInv, [Next]_vars PROVE LocalInv'
  OBVIOUS
<1>0. TypeOK'
  BY NextTypes DEF LocalInv
<1>1. ASSUME NEW p \in Procs, NEW m \in Msgs, Enqueue(p, m) PROVE LocalInv'
  BY <1>0, <1>1, EnqueueStep
<1>2. ASSUME NEW k \in Threads, ThreadStep(k) PROVE LocalInv'
  BY <1>0, <1>2, ThreadLocal
<1>3. ASSUME NEW p \in Procs, Crash(p) PROVE LocalInv'
  BY <1>0, <1>3, CrashStep
<1>4. ASSUME \/ \E p \in Procs, m \in Msgs : Deliver(p, m)
             \/ \E m \in Msgs : Stall(m)
             \/ \E q \in quotes : DeskRejects(q)
             \/ UNCHANGED vars
      PROVE  LocalInv'
  <2>1. queue' = queue /\ active' = active /\ thread' = thread
    BY <1>4 DEF Deliver, Stall, DeskRejects, vars, local
  <2>2. Unoccupied'
    BY <2>1 DEF LocalInv, Unoccupied
  <2> QED BY <1>0, <2>1, <2>2, MarkersKept DEF LocalInv
<1> QED BY <1>1, <1>2, <1>3, <1>4 DEF Next

(* It is exact to begin with. *)
LEMMA InitLocal == Init => LocalInv
<1> SUFFICES ASSUME Init PROVE LocalInv
  OBVIOUS
<1>1. TypeOK
  BY EmptyStates, EmptyElems, InboundConstants DEF Init, TypeOK, Statuses
<1>2. \A k \in Threads : thread[k].msg = {}
  BY EmptyStates DEF Init
<1>3. \A p \in Procs : queue[p] = << >> /\ active[p] = {}
  BY DEF Init
<1>4. Len(<< >>) <= QueueMax
  BY EmptyElems, InboundConstants
<1> QED BY <1>1, <1>2, <1>3, <1>4, EmptyElems DEF LocalInv, Unoccupied, MarkersExact

(* The types of the inbound pipeline's variables. *)
THEOREM InboundTypeCorrect == Spec => []TypeOK
<1>1. LocalInv => TypeOK
  BY DEF LocalInv
<1> QED BY <1>1, InitLocal, NextLocal, PTL DEF Spec

(* LocalInv is what the run checks, element by element. *)
LEMMA LocalIsExact == LocalInv => ActiveIsExact
<1> SUFFICES ASSUME LocalInv, NEW p \in Procs
             PROVE  /\ active[p] = QueueSet(p) \cup InFlight(p)
                    /\ QueueSet(p) \cap InFlight(p) = {}
                    /\ Cardinality(QueueSet(p)) = Len(queue[p])
                    /\ Len(queue[p]) <= QueueMax
                    /\ \A j, k \in Threads : Home[j] = p /\ Home[k] = p /\ j # k
                                             => thread[j].msg \cap thread[k].msg = {}
  BY DEF ActiveIsExact
<1>1. /\ MarkersExact(p) /\ active[p] \subseteq Msgs /\ queue[p] \in Seq(Msgs)
      /\ \A k \in Threads : thread[k].msg \subseteq Msgs
  BY DEF LocalInv, TypeOK
<1>2. QueueSet(p) = Elems(queue[p])
  BY DEF QueueSet, Elems
<1>3. \A x : x \in InFlight(p) <=> \E k \in Threads : Home[k] = p /\ x \in thread[k].msg
  BY DEF InFlight
<1>4. Elems(queue[p]) \subseteq Msgs
  BY <1>1 DEF Elems
<1>5. InFlight(p) \subseteq Msgs
  BY <1>1, <1>3
<1>6. active[p] = QueueSet(p) \cup InFlight(p)
  BY <1>1, <1>2, <1>3, <1>4, <1>5 DEF MarkersExact
<1>7. QueueSet(p) \cap InFlight(p) = {}
  BY <1>1, <1>2, <1>3 DEF MarkersExact
<1>8. Cardinality(QueueSet(p)) = Len(queue[p])
  BY <1>1, <1>2, DistinctCardinality DEF MarkersExact
<1> QED BY <1>1, <1>6, <1>7, <1>8 DEF MarkersExact

(* The duplicate guard of every process is exact, for any number of        *)
(* processes, threads and messages: whatever is evicted, fails or crashes, *)
(* no marker is left behind and no copy goes unmarked                      *)
(* (webhook_processor.enqueue_message, mark_message_finished).             *)
THEOREM ActiveIsExactHolds == Spec => []ActiveIsExact
BY LocalIsExact, InitLocal, NextLocal, PTL DEF Spec

-----------------------------------------------------------------------------
(* The rows, under exclusive claims *)

(* A thread past its claim works on a row that is not consumed, and no     *)
(* other thread is past a claim of that message.                           *)
LEMMA Owner ==
  ASSUME Exclusive, RowsInv, NEW k \in Threads, NEW m \in Msgs, m \in thread[k].msg,
         thread[k].pc \in Claimed
  PROVE  /\ status[m] # "processed"
         /\ \A j \in Threads : j # k /\ thread[j].pc \in Claimed => m \notin thread[j].msg
BY DEF RowsInv, OwnsRow, Exclusive

(* A row that was consumed stays so, step by step. *)
LEMMA ConsumedStays ==
  ASSUME Exclusive, RowsInv, [Next]_vars, NEW x \in Msgs, status[x] = "processed"
  PROVE  status'[x] = "processed"
<1>0. status \in [Msgs -> Statuses]
  BY DEF RowsInv, LocalInv, TypeOK
<1>1. ASSUME NEW p \in Procs, NEW m \in Msgs, Deliver(p, m) PROVE status'[x] = "processed"
  <2>1. CASE Recoverable(m)
    <3>1. m # x
      BY <2>1 DEF Recoverable
    <3> QED BY <1>0, <1>1, <2>1, <3>1 DEF Deliver
  <2>2. CASE ~Recoverable(m)
    BY <1>1, <2>2 DEF Deliver
  <2> QED BY <2>1, <2>2
<1>2. ASSUME NEW k \in Threads, NEW m \in Msgs, Claim(k, m) PROVE status'[x] = "processed"
  <2>1. m # x
    BY <1>2 DEF Claim, Claimable
  <2> QED BY <1>0, <1>2, <2>1 DEF Claim
<1>3. ASSUME NEW k \in Threads, NEW m \in Msgs,
             \/ QuoteCommitted(k, m) \/ QuoteRolledBack(k, m)
             \/ Finalize(k, m) \/ Raise(k, m)
      PROVE  status'[x] = "processed"
  <2>1. /\ m \in thread[k].msg
        /\ \/ status' = status
           \/ thread[k].pc \in Claimed /\ \E to : status' = [status EXCEPT ![m] = to]
    BY <1>3 DEF QuoteCommitted, QuoteRolledBack, Finalize, Raise, Claimed
  <2>2. status' = status \/ (m # x /\ \E to : status' = [status EXCEPT ![m] = to])
    BY <2>1, Owner
  <2> QED BY <1>0, <2>2
<1>4. ASSUME \/ \E p \in Procs, m \in Msgs : Enqueue(p, m)
             \/ \E m \in Msgs : Stall(m)
             \/ \E p \in Procs : Crash(p)
             \/ \E q \in quotes : DeskRejects(q)
             \/ UNCHANGED vars
      PROVE  status'[x] = "processed"
  BY <1>4 DEF Enqueue, Stall, Crash, DeskRejects, vars, rows
<1>5. ASSUME NEW k \in Threads, Start(k) \/ Dequeue(k) PROVE status'[x] = "processed"
  BY <1>5 DEF Start, Dequeue, rows
<1>6. ASSUME NEW k \in Threads, NEW m \in Msgs,
             \/ ClaimConsumed(k, m) \/ ClaimLost(k, m) \/ Recheck(k, m) \/ Ignore(k, m)
             \/ \E verdict \in Verdicts : Decide(k, m, verdict)
             \/ NumberArtifact(k, m) \/ FlushQuote(k, m) \/ QuoteRefused(k, m)
      PROVE  status'[x] = "processed"
  BY <1>6 DEF ClaimConsumed, ClaimLost, Recheck, Ignore, Decide, NumberArtifact, FlushQuote,
              QuoteRefused, rows
<1> QED BY <1>1, <1>2, <1>3, <1>4, <1>5, <1>6 DEF Next, ThreadStep

(* Steps that neither claim nor consume: no thread enters Claimed and no   *)
(* row becomes processed.                                                  *)
LEMMA OwnsKept ==
  ASSUME RowsInv,
         \A m \in Msgs : status'[m] = "processed" => status[m] = "processed",
         \A j \in Threads : thread'[j].pc \in Claimed =>
                              thread[j].pc \in Claimed /\ thread'[j].msg = thread[j].msg
  PROVE  OwnsRow'
BY DEF RowsInv, OwnsRow

(* Steps that leave the quotes alone. *)
LEMMA QuotesKept ==
  ASSUME Exclusive, RowsInv, [Next]_vars, quotes' = quotes,
         \A m \in Msgs : artifacts[m] <= artifacts'[m],
         artifacts' \in [Msgs -> Nat]
  PROVE  QuoteHasConsumedMessage' /\ QuotesDiffer'
<1>1. QuotesDiffer'
  BY DEF RowsInv, QuotesDiffer
<1>2. ASSUME NEW q \in quotes PROVE status'[q.msg] = "processed" /\ q.n <= artifacts'[q.msg]
  <2>1. q.msg \in Msgs /\ q.n \in Nat /\ artifacts[q.msg] \in Nat
    BY DEF RowsInv, LocalInv, TypeOK
  <2>2. status[q.msg] = "processed" /\ q.n <= artifacts[q.msg]
    BY DEF RowsInv, QuoteHasConsumedMessage
  <2>3. status'[q.msg] = "processed"
    BY <2>1, <2>2, ConsumedStays
  <2>4. artifacts[q.msg] <= artifacts'[q.msg] /\ artifacts'[q.msg] \in Nat
    BY <2>1
  <2> QED BY <2>1, <2>2, <2>3, <2>4
<1> QED BY <1>1, <1>2 DEF QuoteHasConsumedMessage

(* A step that writes neither quotes nor artifacts and consumes no row.    *)
LEMMA RowsKept ==
  ASSUME Exclusive, RowsInv, [Next]_vars,
         quotes' = quotes, artifacts' = artifacts,
         \A m \in Msgs : status'[m] = "processed" => status[m] = "processed",
         \A j \in Threads : thread'[j].pc \in Claimed =>
                              thread[j].pc \in Claimed /\ thread'[j].msg = thread[j].msg,
         \A j \in Threads : \A m, n \in thread'[j].msg : m = n
  PROVE  RowsInv'
<1>1. LocalInv'
  BY NextLocal DEF RowsInv
<1>2. OwnsRow'
  BY OwnsKept
<1>3. artifacts' \in [Msgs -> Nat] /\ \A m \in Msgs : artifacts[m] <= artifacts'[m]
  BY DEF RowsInv, LocalInv, TypeOK
<1>4. QuoteHasConsumedMessage' /\ QuotesDiffer'
  BY <1>3, QuotesKept
<1> QED BY <1>1, <1>2, <1>4 DEF RowsInv, OneInHand

(* The end of a message: its thread lets go of it, and whatever becomes of *)
(* its row, the others that are past a claim own other messages.           *)
LEMMA RowsReleased ==
  ASSUME Exclusive, RowsInv, [Next]_vars, NEW k \in Threads, NEW m \in Msgs,
         m \in thread[k].msg, NEW then \in {Idle, Draining}, Release(k, then),
         \/ status' = status
         \/ thread[k].pc \in Claimed /\ \E to : status' = [status EXCEPT ![m] = to]
  PROVE  OneInHand' /\ OwnsRow'
<1>0. status \in [Msgs -> Statuses] /\ thread \in ThreadType
  BY DEF RowsInv, LocalInv, TypeOK, ThreadType
<1>1. /\ thread'[k] = then /\ then.msg = {}
      /\ \A j \in Threads : j # k => thread'[j] = thread[j]
  BY <1>0, EmptyStates, SetEffect, ZenonT(40) DEF Release
<1>2. OneInHand'
  BY <1>1 DEF OneInHand, RowsInv
<1>3. ASSUME NEW j \in Threads, NEW x \in Msgs,
             thread'[j].pc \in Claimed, x \in thread'[j].msg
      PROVE  status'[x] # "processed"
  <2>1. j # k
    BY <1>1, <1>3
  <2>2. thread[j].pc \in Claimed /\ x \in thread[j].msg
    BY <1>1, <1>3, <2>1
  <2>3. thread[k].pc \in Claimed => x # m
    BY <2>1, <2>2, Owner
  <2>4. status[x] # "processed"
    BY <2>2, Owner
  <2> QED BY <1>0, <2>3, <2>4
<1> QED BY <1>2, <1>3 DEF OwnsRow

(* The steps of a thread. *)
LEMMA ThreadRows ==
  ASSUME Exclusive, RowsInv, NEW k \in Threads, ThreadStep(k), [Next]_vars
  PROVE  RowsInv'
<1>0. /\ thread \in ThreadType /\ status \in [Msgs -> Statuses] /\ artifacts \in [Msgs -> Nat]
      /\ \A j \in Threads : \A m, n \in thread[j].msg : m = n
      /\ LocalInv'
  BY NextLocal DEF RowsInv, LocalInv, TypeOK, ThreadType, OneInHand
<1>1. CASE Start(k)
  <2>1. thread'[k] = Draining /\ \A j \in Threads : j # k => thread'[j] = thread[j]
    BY <1>0, <1>1, EmptyStates, SetEffect DEF Start
  <2>2. quotes' = quotes /\ artifacts' = artifacts /\ status' = status
    BY <1>1 DEF Start, rows
  <2> QED BY <1>0, <2>1, <2>2, EmptyStates, RowsKept DEF Claimed
<1>2. CASE Dequeue(k)
  <2>1. quotes' = quotes /\ artifacts' = artifacts /\ status' = status
    BY <1>2 DEF Dequeue, rows
  <2>2. /\ \A j \in Threads : j # k => thread'[j] = thread[j]
        /\ thread'[k].pc \notin Claimed /\ \A m, n \in thread'[k].msg : m = n
    <3>1. CASE thread' = [thread EXCEPT ![k] = Idle]
      BY <1>0, <3>1, EmptyStates DEF ThreadType, Claimed
    <3>2. ASSUME NEW h, thread' = [thread EXCEPT ![k] = [pc |-> "claiming", n |-> 0, msg |-> {h}]]
          PROVE  /\ \A j \in Threads : j # k => thread'[j] = thread[j]
                 /\ thread'[k].pc \notin Claimed /\ \A m, n \in thread'[k].msg : m = n
      BY <1>0, <3>2 DEF ThreadType, Claimed
    <3> QED BY <1>2, <3>1, <3>2 DEF Dequeue
  <2> QED BY <1>0, <2>1, <2>2, RowsKept
<1>3. ASSUME NEW m \in Msgs, Claim(k, m) \/ (Recheck(k, m) /\ Claimable(m)) PROVE RowsInv'
  <2>1. /\ Goto(k, "processing") /\ m \in thread[k].msg /\ status[m] # "processed"
        /\ quotes' = quotes /\ artifacts' = artifacts
        /\ status' = status \/ status' = [status EXCEPT ![m] = "processing"]
    BY <1>3 DEF Claim, Recheck, Claimable, rows
  <2>2. /\ \A j \in Threads : thread'[j].msg = thread[j].msg
        /\ \A j \in Threads : j # k => thread'[j] = thread[j]
    BY <1>0, <2>1, GotoEffect DEF ThreadSteps
  <2>3. \A x \in Msgs : status'[x] = "processed" => status[x] = "processed"
    BY <1>0, <2>1
  <2>4. status'[m] # "processed"
    BY <2>1, <2>3
  <2>5. ASSUME NEW j \in Threads, NEW x \in Msgs,
               thread'[j].pc \in Claimed, x \in thread'[j].msg
        PROVE  status'[x] # "processed"
    <3>1. CASE j = k
      <4>1. x = m
        BY <1>0, <2>1, <2>2, <2>5, <3>1
      <4> QED BY <2>4, <4>1
    <3>2. CASE j # k
      BY <2>2, <2>3, <2>5, <3>2, Owner
    <3> QED BY <3>1, <3>2
  <2>6. OwnsRow'
    BY <2>5 DEF OwnsRow
  <2>7. OneInHand'
    BY <1>0, <2>2 DEF OneInHand
  <2>8. artifacts' \in [Msgs -> Nat] /\ \A x \in Msgs : artifacts[x] <= artifacts'[x]
    BY <1>0, <2>1
  <2>9. QuoteHasConsumedMessage' /\ QuotesDiffer'
    BY <2>1, <2>8, QuotesKept
  <2> QED BY <1>0, <2>6, <2>7, <2>9 DEF RowsInv
<1>4. ASSUME NEW m \in Msgs,
             \/ ClaimLost(k, m) \/ Ignore(k, m) \/ FlushQuote(k, m) \/ QuoteRefused(k, m)
             \/ \E verdict \in Verdicts : Decide(k, m, verdict)
      PROVE  RowsInv'
  <2>1. PICK step \in ThreadSteps : Goto(k, step) /\ (step \in Claimed => thread[k].pc \in Claimed)
    BY <1>4 DEF ClaimLost, Ignore, FlushQuote, QuoteRefused, Decide, Claimed, ThreadSteps
  <2>2. quotes' = quotes /\ artifacts' = artifacts /\ status' = status
    BY <1>4 DEF ClaimLost, Ignore, FlushQuote, QuoteRefused, Decide, rows
  <2>3. /\ thread'[k].pc = step /\ \A j \in Threads : thread'[j].msg = thread[j].msg
        /\ \A j \in Threads : j # k => thread'[j] = thread[j]
    BY <1>0, <2>1, GotoEffect
  <2> QED BY <1>0, <2>1, <2>2, <2>3, RowsKept
<1>5. ASSUME NEW m \in Msgs, NumberArtifact(k, m) PROVE RowsInv'
  <2>1. /\ thread[k].pc \in Claimed /\ \A j \in Threads : thread'[j].msg = thread[j].msg
        /\ \A j \in Threads : j # k => thread'[j] = thread[j]
    BY <1>0, <1>5 DEF NumberArtifact, ThreadType, Claimed
  <2>2. quotes' = quotes /\ artifacts' = artifacts /\ status' = status
    BY <1>5 DEF NumberArtifact, rows
  <2> QED BY <1>0, <2>1, <2>2, RowsKept
<1>6. ASSUME NEW m \in Msgs,
             \/ ClaimConsumed(k, m) \/ (Recheck(k, m) /\ ~Claimable(m))
             \/ QuoteRolledBack(k, m) \/ Finalize(k, m) \/ Raise(k, m)
      PROVE  RowsInv'
  <2>1. /\ m \in thread[k].msg /\ quotes' = quotes
        /\ \/ status' = status
           \/ thread[k].pc \in Claimed /\ \E to : status' = [status EXCEPT ![m] = to]
    BY <1>6 DEF ClaimConsumed, Recheck, QuoteRolledBack, Finalize, Raise, Claimed, rows
  <2>2. PICK then \in {Idle, Draining} : Release(k, then)
    BY <1>6 DEF ClaimConsumed, Recheck, QuoteRolledBack, Finalize, Raise
  <2>3. OneInHand' /\ OwnsRow'
    BY <2>1, <2>2, RowsReleased
  <2>4. artifacts' = artifacts \/ artifacts' = [artifacts EXCEPT ![m] = artifacts[m] + 1]
    BY <1>6 DEF ClaimConsumed, Recheck, QuoteRolledBack, Finalize, Raise, rows
  <2>5. artifacts' \in [Msgs -> Nat] /\ \A x \in Msgs : artifacts[x] <= artifacts'[x]
    <3>1. CASE artifacts' = artifacts
      BY <1>0, <3>1
    <3>2. CASE artifacts' = [artifacts EXCEPT ![m] = artifacts[m] + 1]
      BY <1>0, <3>2
    <3> QED BY <2>4, <3>1, <3>2
  <2>6. QuoteHasConsumedMessage' /\ QuotesDiffer'
    BY <2>1, <2>5, QuotesKept
  <2> QED BY <1>0, <2>3, <2>6 DEF RowsInv
<1>7. ASSUME NEW m \in Msgs, QuoteCommitted(k, m) PROVE RowsInv'
  <2> DEFINE new == [msg |-> m, n |-> thread[k].n, active |-> TRUE]
  <2>1. /\ m \in thread[k].msg /\ thread[k].pc \in Claimed /\ Release(k, Draining)
        /\ quotes' = quotes \cup {new}
        /\ artifacts' = [artifacts EXCEPT ![m] = thread[k].n]
        /\ status' = [status EXCEPT ![m] = "processed"]
    BY <1>7 DEF QuoteCommitted, Claimed
  <2>2. OneInHand' /\ OwnsRow'
    BY <2>1, RowsReleased
  <2>3. status[m] # "processed"
    BY <2>1, Owner
  <2>4. \A q \in quotes : q.msg # m
    BY <2>3 DEF RowsInv, QuoteHasConsumedMessage
  <2>5. new.msg = m /\ new.n = thread[k].n /\ thread[k].n \in Nat
    BY <1>0 DEF ThreadType
  <2>6. \A q \in quotes : q.msg \in Msgs
    BY DEF RowsInv, LocalInv, TypeOK
  <2> HIDE DEF new
  <2>7. ASSUME NEW q \in quotes' PROVE status'[q.msg] = "processed" /\ q.n <= artifacts'[q.msg]
    <3>1. CASE q = new
      <4>1. status'[m] = "processed" /\ artifacts'[m] = thread[k].n
        BY <1>0, <2>1
      <4> QED BY <2>5, <3>1, <4>1
    <3>2. CASE q \in quotes
      <4>1. status[q.msg] = "processed" /\ q.n <= artifacts[q.msg]
        BY <3>2 DEF RowsInv, QuoteHasConsumedMessage
      <4>2. status'[q.msg] = status[q.msg] /\ artifacts'[q.msg] = artifacts[q.msg]
        BY <1>0, <2>1, <2>4, <2>6, <3>2
      <4> QED BY <4>1, <4>2
    <3> QED BY <2>1, <3>1, <3>2
  <2>8. QuotesDiffer'
    BY <2>1, <2>4, <2>5 DEF RowsInv, QuotesDiffer
  <2> QED BY <1>0, <2>2, <2>7, <2>8 DEF RowsInv, QuoteHasConsumedMessage
<1> QED BY <1>1, <1>2, <1>3, <1>4, <1>5, <1>6, <1>7 DEF ThreadStep

(* Every step keeps the rows in order. *)
LEMMA NextRows == Exclusive /\ RowsInv /\ [Next]_vars => RowsInv'
<1> SUFFICES ASSUME Exclusive, RowsInv, [Next]_vars PROVE RowsInv'
  OBVIOUS
<1>0. /\ status \in [Msgs -> Statuses]
      /\ \A j \in Threads : \A m, n \in thread[j].msg : m = n
      /\ LocalInv'
  BY NextLocal DEF RowsInv, LocalInv, TypeOK, OneInHand
<1>1. ASSUME NEW p \in Procs, NEW m \in Msgs, Deliver(p, m) PROVE RowsInv'
  <2>1. quotes' = quotes /\ artifacts' = artifacts /\ thread' = thread
    BY <1>1 DEF Deliver
  <2>2. \A x \in Msgs : status'[x] = "processed" => status[x] = "processed"
    <3>1. CASE Recoverable(m)
      <4>1. status' = [status EXCEPT ![m] = IF @ = "failed" THEN "failed" ELSE "received"]
        BY <1>1, <3>1 DEF Deliver
      <4> QED BY <1>0, <4>1
    <3>2. CASE ~Recoverable(m)
      BY <1>1, <3>2 DEF Deliver
    <3> QED BY <3>1, <3>2
  <2> QED BY <1>0, <2>1, <2>2, RowsKept
<1>2. ASSUME \/ \E p \in Procs, m \in Msgs : Enqueue(p, m)
             \/ \E m \in Msgs : Stall(m)
             \/ UNCHANGED vars
      PROVE  RowsInv'
  <2>1. quotes' = quotes /\ artifacts' = artifacts /\ thread' = thread /\ status' = status
    BY <1>2 DEF Enqueue, Stall, vars, rows
  <2> QED BY <1>0, <2>1, RowsKept
<1>3. ASSUME NEW k \in Threads, ThreadStep(k) PROVE RowsInv'
  BY <1>3, ThreadRows
<1>4. ASSUME NEW p \in Procs, Crash(p) PROVE RowsInv'
  <2>1. /\ quotes' = quotes /\ artifacts' = artifacts /\ status' = status
        /\ thread' = [k \in Threads |-> IF Home[k] = p THEN Idle ELSE thread[k]]
    BY <1>4 DEF Crash, rows
  <2>2. \A j \in Threads : thread'[j] = thread[j] \/ (thread'[j] = Idle)
    BY <2>1
  <2> QED BY <1>0, <2>1, <2>2, EmptyStates, RowsKept DEF Claimed
<1>5. ASSUME NEW q \in quotes, DeskRejects(q) PROVE RowsInv'
  <2> DEFINE new == [q EXCEPT !.active = FALSE]
  <2>1. /\ quotes' = (quotes \ {q}) \cup {new}
        /\ artifacts' = artifacts /\ thread' = thread /\ status' = status
    BY <1>5 DEF DeskRejects
  <2>2. q \in [msg : Msgs, n : Nat, active : BOOLEAN]
    BY DEF RowsInv, LocalInv, TypeOK
  <2>3. new.msg = q.msg /\ new.n = q.n
    BY <2>2
  <2> HIDE DEF new
  <2>4. QuotesDiffer'
    BY <2>1, <2>3 DEF RowsInv, QuotesDiffer
  <2>5. QuoteHasConsumedMessage'
    BY <2>1, <2>3 DEF RowsInv, QuoteHasConsumedMessage
  <2>6. OwnsRow' /\ OneInHand'
    BY <2>1 DEF RowsInv, OwnsRow, OneInHand
  <2> QED BY <1>0, <2>4, <2>5, <2>6 DEF RowsInv
<1> QED BY <1>1, <1>2, <1>3, <1>4, <1>5 DEF Next

(* No thread has a message and there is no quote to begin with. *)
LEMMA InitRows == Init => RowsInv
<1> SUFFICES ASSUME Init PROVE RowsInv
  OBVIOUS
<1>1. quotes = {} /\ \A k \in Threads : thread[k].msg = {}
  BY EmptyStates DEF Init
<1> QED BY <1>1, InitLocal
        DEF RowsInv, OneInHand, OwnsRow, QuoteHasConsumedMessage, QuotesDiffer

(* The rows are in order for as long as the claims are exclusive. *)
LEMMA RowsUnderExclusion == Spec /\ []Exclusive => []RowsInv
BY InitRows, NextRows, PTL DEF Spec

(* With one quote at most of each message there is one quote at most. *)
LEMMA RowsOneQuote == RowsInv => OneQuotePerMessage
<1> SUFFICES ASSUME RowsInv, NEW m \in Msgs
             PROVE  Cardinality({q \in quotes : q.msg = m}) <= 1
  BY DEF OneQuotePerMessage
<1>1. CASE {q \in quotes : q.msg = m} = {}
  BY <1>1, FS_EmptySet
<1>2. CASE {q \in quotes : q.msg = m} # {}
  <2>1. PICK r : r \in {q \in quotes : q.msg = m}
    BY <1>2
  <2>2. {q \in quotes : q.msg = m} = {r}
    BY <2>1 DEF RowsInv, QuotesDiffer
  <2>3. Cardinality({r}) = 1
    BY FS_Singleton
  <2> QED BY <2>2, <2>3
<1> QED BY <1>1, <1>2

-----------------------------------------------------------------------------
(* Why the claims are exclusive *)

(* A step in which no thread passes a claim and no row under a claim is    *)
(* written.                                                                *)
LEMMA ClaimsKept ==
  ASSUME ClaimInv, RowsInv',
         \A j \in Threads : thread'[j].pc \in Claimed =>
                              thread[j].pc \in Claimed /\ thread'[j].msg = thread[j].msg,
         \A j \in Threads, m \in Msgs :
           thread'[j].pc \in Claimed /\ m \in thread'[j].msg => status'[m] = status[m]
  PROVE  ClaimInv'
<1>1. Exclusive'
  BY DEF ClaimInv, Exclusive
<1>2. Holding'
  BY DEF ClaimInv, Holding
<1> QED BY <1>1, <1>2 DEF ClaimInv

(* A row that can be recovered or claimed is under no claim. *)
LEMMA ClaimableIsFree ==
  ASSUME ClaimInv, Timely, NEW m \in Msgs, Recoverable(m) \/ Claimable(m),
         NEW k \in Threads, thread[k].pc \in Claimed
  PROVE  m \notin thread[k].msg
BY DEF ClaimInv, Holding, Timely, Recoverable, Claimable

(* The steps of a thread. *)
LEMMA ThreadClaims ==
  ASSUME ClaimInv, RowsInv', Timely, NEW k \in Threads, ThreadStep(k),
         thread[k].pc = "raced" => thread'[k].pc # "processing"
  PROVE  ClaimInv'
<1>0. /\ thread \in ThreadType /\ status \in [Msgs -> Statuses]
      /\ \A j \in Threads : \A m, n \in thread[j].msg : m = n
      /\ \A j \in Threads : thread[j].msg \subseteq Msgs
  BY DEF ClaimInv, RowsInv, LocalInv, TypeOK, ThreadType, OneInHand
<1>1. CASE Start(k)
  <2>1. thread'[k] = Draining /\ \A j \in Threads : j # k => thread'[j] = thread[j]
    BY <1>0, <1>1, EmptyStates, SetEffect DEF Start
  <2>2. status' = status
    BY <1>1 DEF Start, rows
  <2> QED BY <2>1, <2>2, EmptyStates, ClaimsKept DEF Claimed
<1>2. CASE Dequeue(k)
  <2>1. status' = status
    BY <1>2 DEF Dequeue, rows
  <2>2. thread'[k].pc \notin Claimed /\ \A j \in Threads : j # k => thread'[j] = thread[j]
    <3>1. CASE thread' = [thread EXCEPT ![k] = Idle]
      BY <1>0, <3>1, EmptyStates DEF ThreadType, Claimed
    <3>2. ASSUME NEW h, thread' = [thread EXCEPT ![k] = [pc |-> "claiming", n |-> 0, msg |-> {h}]]
          PROVE  thread'[k].pc \notin Claimed /\ \A j \in Threads : j # k => thread'[j] = thread[j]
      BY <1>0, <3>2 DEF ThreadType, Claimed
    <3> QED BY <1>2, <3>1, <3>2 DEF Dequeue
  <2> QED BY <2>1, <2>2, ClaimsKept
<1>3. ASSUME NEW m \in Msgs, Claim(k, m) PROVE ClaimInv'
  <2>1. /\ Goto(k, "processing") /\ m \in thread[k].msg /\ Claimable(m)
        /\ status' = [status EXCEPT ![m] = "processing"]
    BY <1>3 DEF Claim
  <2>2. /\ \A j \in Threads : thread'[j].msg = thread[j].msg
        /\ \A j \in Threads : j # k => thread'[j] = thread[j]
    BY <1>0, <2>1, GotoEffect DEF ThreadSteps
  <2>3. \A x \in thread'[k].msg : x = m
    BY <1>0, <2>1, <2>2
  <2>4. \A j \in Threads : j # k /\ thread'[j].pc \in Claimed => m \notin thread'[j].msg
    BY <2>1, <2>2, ClaimableIsFree
  <2>5. Exclusive'
    BY <2>2, <2>3, <2>4 DEF ClaimInv, Exclusive
  <2>6. Holding'
    BY <1>0, <2>1, <2>2, <2>3, <2>4 DEF ClaimInv, Holding
  <2> QED BY <2>5, <2>6 DEF ClaimInv
<1>4. ASSUME NEW m \in Msgs,
             \/ ClaimLost(k, m) \/ Ignore(k, m) \/ FlushQuote(k, m) \/ QuoteRefused(k, m)
             \/ \E verdict \in Verdicts : Decide(k, m, verdict)
      PROVE  ClaimInv'
  <2>1. PICK step \in ThreadSteps : Goto(k, step) /\ (step \in Claimed => thread[k].pc \in Claimed)
    BY <1>4 DEF ClaimLost, Ignore, FlushQuote, QuoteRefused, Decide, Claimed, ThreadSteps
  <2>2. status' = status
    BY <1>4 DEF ClaimLost, Ignore, FlushQuote, QuoteRefused, Decide, rows
  <2>3. /\ thread'[k].pc = step /\ \A j \in Threads : thread'[j].msg = thread[j].msg
        /\ \A j \in Threads : j # k => thread'[j] = thread[j]
    BY <1>0, <2>1, GotoEffect
  <2> QED BY <2>1, <2>2, <2>3, ClaimsKept
<1>5. ASSUME NEW m \in Msgs, NumberArtifact(k, m) PROVE ClaimInv'
  <2>1. /\ thread[k].pc \in Claimed /\ \A j \in Threads : thread'[j].msg = thread[j].msg
        /\ \A j \in Threads : j # k => thread'[j] = thread[j]
    BY <1>0, <1>5 DEF NumberArtifact, ThreadType, Claimed
  <2>2. status' = status
    BY <1>5 DEF NumberArtifact, rows
  <2> QED BY <2>1, <2>2, ClaimsKept
<1>6. ASSUME NEW m \in Msgs, Recheck(k, m) /\ Claimable(m) PROVE ClaimInv'
  <2>1. thread[k].pc = "raced" /\ Goto(k, "processing")
    BY <1>6 DEF Recheck
  <2>2. thread'[k].pc = "processing"
    BY <1>0, <2>1, GotoEffect DEF ThreadSteps
  <2> QED BY <2>1, <2>2
<1>7. ASSUME NEW m \in Msgs,
             \/ ClaimConsumed(k, m) \/ (Recheck(k, m) /\ ~Claimable(m)) \/ QuoteCommitted(k, m)
             \/ QuoteRolledBack(k, m) \/ Finalize(k, m) \/ Raise(k, m)
      PROVE  ClaimInv'
  <2>1. /\ m \in thread[k].msg
        /\ \/ status' = status
           \/ thread[k].pc \in Claimed /\ \E to : status' = [status EXCEPT ![m] = to]
    BY <1>7 DEF ClaimConsumed, Recheck, QuoteCommitted, QuoteRolledBack, Finalize, Raise, Claimed, rows
  <2>2. PICK then \in {Idle, Draining} : Release(k, then)
    BY <1>7 DEF ClaimConsumed, Recheck, QuoteCommitted, QuoteRolledBack, Finalize, Raise
  <2>3. thread'[k] = then /\ \A j \in Threads : j # k => thread'[j] = thread[j]
    BY <1>0, <2>2, EmptyStates, SetEffect, ZenonT(40) DEF Release
  <2>4. thread'[k].pc \notin Claimed
    BY <2>3, EmptyStates DEF Claimed
  <2>5. ASSUME NEW j \in Threads, NEW x \in Msgs, thread'[j].pc \in Claimed, x \in thread'[j].msg
        PROVE  status'[x] = status[x]
    <3>1. j # k /\ thread'[j] = thread[j]
      BY <2>3, <2>4, <2>5
    <3>2. thread[k].pc \in Claimed => x # m
      BY <2>1, <2>5, <3>1 DEF ClaimInv, Exclusive
    <3> QED BY <1>0, <2>1, <3>2
  <2> QED BY <2>3, <2>4, <2>5, ClaimsKept
<1> QED BY <1>1, <1>2, <1>3, <1>4, <1>5, <1>6, <1>7 DEF ThreadStep

(* Every step keeps the claims exclusive, unless the cutoff has overtaken  *)
(* a live attempt or the step is one that goes on without a claim.         *)
LEMMA NextClaims ==
  ASSUME ClaimInv, Timely, [Next]_vars, [WithClaim]_vars
  PROVE  ClaimInv'
<1>0. RowsInv' /\ status \in [Msgs -> Statuses]
  BY NextRows DEF ClaimInv, RowsInv, LocalInv, TypeOK
<1>1. ASSUME NEW p \in Procs, NEW m \in Msgs, Deliver(p, m) PROVE ClaimInv'
  <2>1. thread' = thread
    BY <1>1 DEF Deliver
  <2>2. CASE Recoverable(m)
    <3>1. \E to : status' = [status EXCEPT ![m] = to]
      BY <1>1, <2>2 DEF Deliver
    <3>2. \A k \in Threads : thread[k].pc \in Claimed => m \notin thread[k].msg
      BY <2>2, ClaimableIsFree
    <3> QED BY <1>0, <2>1, <3>1, <3>2, ClaimsKept
  <2>3. CASE ~Recoverable(m)
    <3>1. status' = status
      BY <1>1, <2>3 DEF Deliver
    <3> QED BY <1>0, <2>1, <3>1, ClaimsKept
  <2> QED BY <2>2, <2>3
<1>2. ASSUME \/ \E p \in Procs, m \in Msgs : Enqueue(p, m)
             \/ \E m \in Msgs : Stall(m)
             \/ \E q \in quotes : DeskRejects(q)
             \/ UNCHANGED vars
      PROVE  ClaimInv'
  <2>1. thread' = thread /\ status' = status
    BY <1>2 DEF Enqueue, Stall, DeskRejects, vars, rows
  <2> QED BY <1>0, <2>1, ClaimsKept
<1>3. ASSUME NEW k \in Threads, ThreadStep(k) PROVE ClaimInv'
  <2>1. CASE UNCHANGED vars
    BY <1>2, <2>1
  <2>2. CASE ~UNCHANGED vars
    BY <1>0, <1>3, <2>2, ThreadClaims DEF WithClaim
  <2> QED BY <2>1, <2>2
<1>4. ASSUME NEW p \in Procs, Crash(p) PROVE ClaimInv'
  <2>1. /\ status' = status
        /\ thread' = [k \in Threads |-> IF Home[k] = p THEN Idle ELSE thread[k]]
    BY <1>4 DEF Crash, rows
  <2>2. \A j \in Threads : thread'[j] = thread[j] \/ (thread'[j] = Idle)
    BY <2>1
  <2> QED BY <1>0, <2>1, <2>2, EmptyStates, ClaimsKept DEF Claimed
<1> QED BY <1>1, <1>2, <1>3, <1>4 DEF Next

(* For any number of processes and threads, two threads are past the claim *)
(* of one message only after the cutoff has overtaken a live attempt or a  *)
(* thread has gone on without a claim (_claim_durable_message): crashes,   *)
(* exceptions, redeliveries and lost races alone do not bring it about.    *)
THEOREM ClaimsExclude == Spec /\ []Timely /\ ClaimedOnly => []Exclusive
<1>1. Init => ClaimInv
  <2> SUFFICES ASSUME Init PROVE ClaimInv
    OBVIOUS
  <2>1. \A k \in Threads : thread[k].msg = {}
    BY EmptyStates DEF Init
  <2> QED BY <2>1, InitRows DEF ClaimInv, Exclusive, Holding
<1>2. ClaimInv /\ Timely /\ [Next]_vars /\ [WithClaim]_vars => ClaimInv'
  BY NextClaims
<1>3. ClaimInv => Exclusive
  BY DEF ClaimInv
<1> QED BY <1>1, <1>2, <1>3, PTL DEF Spec, ClaimedOnly

(* In one process the duplicate guard alone makes the claims exclusive.    *)
LEMMA OneProcessExcludes == ASSUME OneProcess PROVE Spec => []Exclusive
<1>1. LocalInv => Exclusive
  <2> SUFFICES ASSUME LocalInv, NEW j \in Threads, NEW k \in Threads, j # k
               PROVE  thread[j].msg \cap thread[k].msg = {}
    BY DEF Exclusive
  <2>1. Home[j] = Home[k] /\ Home[k] \in Procs
    BY InboundConstants DEF OneProcess
  <2>2. MarkersExact(Home[k])
    BY <2>1 DEF LocalInv
  <2> QED BY <2>1, <2>2 DEF MarkersExact
<1> QED BY <1>1, InitLocal, NextLocal, PTL DEF Spec

-----------------------------------------------------------------------------
(* The theorems about rows, for any number of processes *)

(* A quote is on record exactly when its message is consumed, under an     *)
(* attempt number that is recorded too (_finalize_auto_quote_success       *)
(* commits them together).                                                 *)
THEOREM QuoteHasConsumedMessageHolds ==
  Spec /\ []Timely /\ ClaimedOnly => []QuoteHasConsumedMessage
<1>1. RowsInv => QuoteHasConsumedMessage
  BY DEF RowsInv
<1> QED BY <1>1, ClaimsExclude, RowsUnderExclusion, PTL

(* A provider message becomes at most one quote, however often it is       *)
(* delivered, to whatever processes, retried after a failure or taken over *)
(* from a process that crashed.                                            *)
THEOREM OneQuotePerMessageHolds ==
  Spec /\ []Timely /\ ClaimedOnly => []OneQuotePerMessage
BY RowsOneQuote, ClaimsExclude, RowsUnderExclusion, PTL

(* The status of a consumed row never changes again: no redelivery, second *)
(* process or failure path writes over it (_persist_message_for_enqueue,   *)
(* _claim_durable_message and the unconditional write of                   *)
(* _finalize_durable_message).                                             *)
THEOREM ConsumedIsFinalHolds ==
  Spec /\ []Timely /\ ClaimedOnly => ConsumedIsFinal
<1>1. Exclusive /\ RowsInv /\ [Next]_vars =>
        [\A m \in Msgs : status[m] = "processed" => status'[m] = "processed"]_vars
  BY ConsumedStays
<1> QED BY <1>1, ClaimsExclude, RowsUnderExclusion, PTL DEF Spec, ConsumedIsFinal

(* The same of one process without a word about the cutoff or the recheck: *)
(* there an attempt that is overtaken is taken over by nobody else.        *)
THEOREM OneProcessIsEnough ==
  ASSUME OneProcess
  PROVE  Spec => []OneQuotePerMessage /\ []QuoteHasConsumedMessage /\ ConsumedIsFinal
<1>1. Exclusive /\ RowsInv /\ [Next]_vars =>
        [\A m \in Msgs : status[m] = "processed" => status'[m] = "processed"]_vars
  BY ConsumedStays
<1>2. RowsInv => QuoteHasConsumedMessage
  BY DEF RowsInv
<1>3. Spec => []Exclusive
  BY OneProcessExcludes
<1> QED BY <1>1, <1>2, <1>3, RowsOneQuote, RowsUnderExclusion, PTL DEF Spec, ConsumedIsFinal
=============================================================================
