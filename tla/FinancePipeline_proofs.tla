----------------------- MODULE FinancePipeline_proofs -----------------------
(***************************************************************************)
(* Proofs about FinancePipeline and MarketData for any days, holidays,     *)
(* prices, ingesters, contracts, workers and bounds.                       *)
(***************************************************************************)
EXTENDS FinancePipeline, WellFoundedInduction, TLAPS

-----------------------------------------------------------------------------
(* The calendar *)

(* A set of numbers that is not empty has a smallest one. *)
LEMMA SmallestNumber ==
  ASSUME NEW T \in SUBSET Nat, T # {}
  PROVE  \E n \in T : \A m \in T : n <= m
<1>1. PICK n \in T : \A m \in T : ~(<<m, n>> \in OpToRel(<, Nat))
  BY NatLessThanWellFounded, WFMin
<1>2. ASSUME NEW m \in T PROVE n <= m
  <2>1. m < n => <<m, n>> \in OpToRel(<, Nat)
    BY DEF OpToRel
  <2>2. ~(m < n)
    BY <1>1, <2>1
  <2>3. m \in Nat /\ n \in Nat
    OBVIOUS
  <2> QED BY <2>2, <2>3
<1> QED BY <1>2

\* The business days up to d; day 0 stands for "none".
BusinessDays(d) == {0} \cup {e \in 0 .. d : IsBusinessDay(e)}

Last(d) == Max(BusinessDays(d))

(* A day that is no business day adds none. *)
LEMMA SameDays ==
  ASSUME NEW d \in Nat, ~(d = 0 \/ IsBusinessDay(d))
  PROVE  d - 1 \in Nat /\ BusinessDays(d) = BusinessDays(d - 1)
<1>1. d - 1 \in Nat
  OBVIOUS
<1>2. \A e \in 0 .. d : e \in 0 .. d - 1 \/ e = d
  BY <1>1
<1>3. \A e \in 0 .. d - 1 : e \in 0 .. d
  BY <1>1
<1> QED BY <1>1, <1>2, <1>3 DEF BusinessDays

(* There is a last business day up to every day. *)
LEMMA LastExists ==
  ASSUME NEW d \in Nat
  PROVE  \E x \in BusinessDays(d) : \A y \in BusinessDays(d) : x >= y
<1> DEFINE Bad == {n \in Nat : ~ \E x \in BusinessDays(n) : \A y \in BusinessDays(n) : x >= y}
<1> SUFFICES ASSUME Bad # {} PROVE FALSE
  OBVIOUS
<1>1. PICK n \in Bad : \A m \in Bad : n <= m
  <2>1. Bad \in SUBSET Nat
    OBVIOUS
  <2> HIDE DEF Bad
  <2> QED BY <2>1, SmallestNumber
<1>2. CASE n = 0 \/ IsBusinessDay(n)
  <2>1. n \in BusinessDays(n) /\ \A y \in BusinessDays(n) : n >= y
    BY <1>2 DEF BusinessDays
  <2> QED BY <1>1, <2>1
<1>3. CASE ~(n = 0 \/ IsBusinessDay(n))
  <2>1. n - 1 \in Nat /\ BusinessDays(n) = BusinessDays(n - 1)
    BY <1>3, SameDays
  <2>2. n - 1 \in Bad
    BY <1>1, <2>1
  <2>3. n <= n - 1
    BY <1>1, <2>2
  <2> QED BY <2>1, <2>3
<1> QED BY <1>2, <1>3

(* The last business day satisfies the equation of the loop. *)
LEMMA LastSteps ==
  ASSUME NEW d \in Nat
  PROVE  Last(d) = IF d = 0 \/ IsBusinessDay(d) THEN d ELSE Last(d - 1)
<1>1. CASE d = 0 \/ IsBusinessDay(d)
  <2>1. d \in BusinessDays(d) /\ \A y \in BusinessDays(d) : d >= y /\ y \in Nat
    BY <1>1 DEF BusinessDays
  <2>2. /\ Max(BusinessDays(d)) \in BusinessDays(d)
        /\ \A y \in BusinessDays(d) : Max(BusinessDays(d)) >= y
    BY LastExists DEF Max
  <2> QED BY <1>1, <2>1, <2>2 DEF Last
<1>2. CASE ~(d = 0 \/ IsBusinessDay(d))
  BY <1>2, SameDays DEF Last
<1> QED BY <1>1, <1>2

(* The loop of _prior_business_day ends at the last business day. *)
LEMMA WalkBackIsLast ==
  ASSUME NEW d \in Nat
  PROVE  WalkBack[d] = Last(d)
<1> DEFINE E(f, n) == IF n = 0 \/ IsBusinessDay(n) THEN n ELSE f[n - 1]
           g == [n \in Nat |-> Last(n)]
<1>1. g = [n \in Nat |-> E(g, n)]
  <2>1. ASSUME NEW n \in Nat PROVE Last(n) = E(g, n)
    BY LastSteps
  <2> QED BY <2>1
<1>2. WalkBack = [n \in Nat |-> E(WalkBack, n)]
  BY <1>1 DEF WalkBack
<1>3. \A n \in Nat : WalkBack[n] = E(WalkBack, n)
  <2> HIDE DEF E
  <2> QED BY <1>2
<1> DEFINE Bad == {n \in Nat : WalkBack[n] # Last(n)}
<1> SUFFICES ASSUME Bad # {} PROVE FALSE
  OBVIOUS
<1>4. PICK n \in Bad : \A m \in Bad : n <= m
  <2>1. Bad \in SUBSET Nat
    OBVIOUS
  <2> HIDE DEF Bad
  <2> QED BY <2>1, SmallestNumber
<1>5. ~(n = 0 \/ IsBusinessDay(n))
  BY <1>3, <1>4, LastSteps
<1>6. n - 1 \in Nat /\ ~(n <= n - 1)
  BY <1>5
<1>7. WalkBack[n - 1] = Last(n - 1)
  BY <1>4, <1>6
<1> QED BY <1>3, <1>4, <1>5, <1>7, LastSteps

(* _prior_business_day of the run date is the last business day before it, *)
(* and the price the services read is the one stored for that day.         *)
LEMMA PriceIsOfDayBefore ==
  PriceD1(RunDate) # 0 => DayBefore \in Days /\ PriceD1(RunDate) = table[DayBefore]
<1>1. RunDate - 1 \in Nat
  BY FinanceConstants
<1>2. PriorBusinessDay(RunDate) = DayBefore
  BY <1>1, WalkBackIsLast DEF PriorBusinessDay, DayBefore, Last, BusinessDays
<1> QED BY <1>2 DEF PriceD1

-----------------------------------------------------------------------------
(* The inductive invariant *)

Fields == {"pc", "found", "run", "todo", "terms", "val", "pl", "base"}

RunStatus == {"none", "partial", "completed"}

IsRun(r) ==
  /\ r = [status |-> r.status, done |-> r.done, flags |-> r.flags,
            scope |-> r.scope, closings |-> r.closings]
  /\ r.status \in RunStatus /\ r.done \in Nat /\ r.closings \in Nat

IsWork(x) ==
  /\ x = [f \in Fields |-> x[f]]
  /\ IsRun(x.run)
  /\ x.pl = [c \in Contracts |-> x.pl[c]]
  /\ \A c \in Contracts : x.pl[c] = None \/ x.pl[c].kind = "pl"

FinTypeOK ==
  /\ book = [c \in Contracts |-> book[c]]
  /\ \A c \in Contracts : book[c] = [status |-> book[c].status, terms |-> book[c].terms]
  /\ pl = [c \in Contracts |-> pl[c]]
  /\ \A c \in Contracts : pl[c] = None \/ pl[c].kind = "pl"
  /\ IsRun(run)
  /\ wk = [w \in Workers |-> wk[w]]
  /\ \A w \in Workers : IsWork(wk[w])
  /\ table = [d \in Days |-> table[d]]

\* What a worker may be doing at each point of the run.
Working(x) ==
  /\ x.pc = "loop" => x.run.done \in {1, 2}
  /\ x.pc = "ledger" => x.run.done = 3 /\ x.val.kind = "baseline" /\ "kind" \in DOMAIN x.val
  /\ x.pc = "flush" => \/ x.val.kind = "pl" /\ x.run.done = 2 /\ x.val.of = Min(x.todo)
                       \/ x.val.kind = "baseline" /\ x.run.done = 3
  /\ x.pc = "commit" => x.run.status = "partial"

\* At most one worker is past the lock, and it works on the run as it is.
OneHolder == \A v, w \in Workers : Holds(v) /\ Holds(w) => v = w

HolderView ==
  \A w \in Workers :
    Holds(w) /\ run.status = "completed" => wk[w].pc = "step" /\ wk[w].run = run

\* A price that was read stays what the table holds for the day before.
Provable(v) == v.kind = "pl" /\ v.price # 0 => DayBefore \in Days /\ v.price = table[DayBefore]

PricesProvable ==
  /\ \A c \in Contracts : Provable(pl[c])
  /\ \A w \in Workers : Provable(wk[w].val) /\ \A c \in Contracts : Provable(wk[w].pl[c])

\* Contract c is dealt with in the open transaction x.
Covered(x, c) == pl[c] # None \/ x.pl[c] # None \/ Missing(c) \in x.run.flags

\* The contracts the run r owes an answer about.
Due(r) == Active \cap r.scope

WorkCovers(x) ==
  /\ x.run.done >= 3 => \A c \in Due(x.run) : Covered(x, c)
  /\ x.pc \in {"loop", "flush"} /\ x.run.done = 2 => \A c \in Due(x.run) \ x.todo : Covered(x, c)

\* A contract that is not booked yet is in no run's scope, so that booking one
\* gives no run more to answer for.
ScopesBooked ==
  /\ run.scope \subseteq Booked
  /\ \A w \in Workers : wk[w].run.scope \subseteq Booked

Coverage ==
  /\ \A w \in Workers : Holds(w) => WorkCovers(wk[w])
  /\ run.done >= 3 => \A c \in Due(run) : pl[c] # None \/ Missing(c) \in run.flags

RunInv ==
  /\ FinTypeOK
  /\ \A w \in Workers : Working(wk[w])
  /\ OneHolder
  /\ HolderView
  /\ run.status = "completed" => run.done = Steps
  /\ PricesProvable
  /\ ScopesBooked
  /\ Coverage

-----------------------------------------------------------------------------
(* What the bookkeeping of a run does to the open transaction *)

(* A step that completes. *)
LEMMA StepDoneEffect ==
  ASSUME NEW x, IsWork(x), NEW flags
  PROVE  LET y == StepDone(x, flags)
         IN  /\ IsWork(y)
             /\ y.pc = "step" /\ y.val = None /\ y.pl = x.pl
             /\ y.run.done = x.run.done + 1 /\ y.run.status = x.run.status
             /\ y.run.flags = x.run.flags \cup flags /\ y.run.scope = x.run.scope
<1> DEFINE r == [status |-> x.run.status, done |-> x.run.done + 1, flags |-> x.run.flags \cup flags,
                 scope |-> x.run.scope, closings |-> x.run.closings]
           y == StepDone(x, flags)
<1>0. x = [f \in Fields |-> x[f]] /\ DOMAIN x = Fields
  BY DEF IsWork
<1>1. DOMAIN y = Fields
  BY <1>0 DEF StepDone
<1>2. y.pc = "step" /\ y.val = None /\ y.pl = x.pl
  BY <1>0 DEF StepDone, Fields
<1>3. y.run = [x.run EXCEPT !.done = @ + 1, !.flags = @ \cup flags]
  BY <1>0 DEF StepDone, Fields
<1>4. y.run = r
  BY <1>3 DEF IsWork, IsRun
<1>5. y = [f \in Fields |-> y[f]]
  BY <1>0, <1>1 DEF StepDone
<1>6. IsRun(r)
  BY DEF IsRun, IsWork
<1>7. IsWork(y)
  BY <1>2, <1>4, <1>5, <1>6 DEF IsWork
<1> QED BY <1>2, <1>4, <1>7

(* A step that raises. *)
LEMMA StepFailedEffect ==
  ASSUME NEW x, IsWork(x)
  PROVE  LET y == StepFailed(x)
         IN  /\ IsWork(y)
             /\ y.pc = "commit" /\ y.pl = x.pl /\ y.val = x.val
             /\ y.run.done = x.run.done /\ y.run.status = "partial" /\ y.run.flags = x.run.flags
             /\ y.run.scope = x.run.scope
<1> DEFINE r == [status |-> "partial", done |-> x.run.done, flags |-> x.run.flags,
                 scope |-> x.run.scope, closings |-> x.run.closings]
           y == StepFailed(x)
<1>0. x = [f \in Fields |-> x[f]] /\ DOMAIN x = Fields
  BY DEF IsWork
<1>1. y.pc = "commit" /\ y.val = x.val /\ y.pl = x.pl
  BY <1>0 DEF StepFailed, Fields
<1>2. y.run = [x.run EXCEPT !.status = "partial"]
  BY <1>0 DEF StepFailed, Fields
<1>3. y.run = r
  BY <1>2 DEF IsWork, IsRun
<1>4. y = [f \in Fields |-> y[f]]
  BY <1>0 DEF StepFailed
<1>5. IsRun(r)
  BY DEF IsRun, IsWork, RunStatus
<1>6. IsWork(y)
  BY <1>1, <1>3, <1>4, <1>5 DEF IsWork
<1> QED BY <1>1, <1>3, <1>6

(* The start of pl_snapshot, which fixes the run's scope. *)
LEMMA StartedEffect ==
  ASSUME NEW x, IsWork(x), x.run.scope \subseteq Booked
  PROVE  LET y == Started(x)
         IN  /\ IsWork(y)
             /\ y.pc = x.pc /\ y.val = x.val /\ y.pl = x.pl
             /\ y.run.done = x.run.done /\ y.run.scope \subseteq Booked
<1> DEFINE y == [x EXCEPT !.run.scope = Booked]
           r == [status |-> x.run.status, done |-> x.run.done, flags |-> x.run.flags,
                 scope |-> Booked, closings |-> x.run.closings]
<1>0. x = [f \in Fields |-> x[f]] /\ DOMAIN x = Fields
  BY DEF IsWork
<1>1. y.pc = x.pc /\ y.val = x.val /\ y.pl = x.pl
  BY <1>0 DEF Fields
<1>2. y.run = [x.run EXCEPT !.scope = Booked]
  BY <1>0 DEF Fields
<1>3. y.run = r
  BY <1>2, ZenonT(40) DEF IsWork, IsRun
<1>4. y = [f \in Fields |-> y[f]]
  BY <1>0
<1>5. IsRun(r)
  BY DEF IsRun, IsWork
<1>6. IsWork(y)
  BY <1>1, <1>3, <1>4, <1>5 DEF IsWork
<1>7. y.run.done = x.run.done /\ y.run.scope = Booked
  BY <1>3
<1>8. Started(x) = y \/ Started(x) = x
  BY DEF Started
<1> HIDE DEF y
<1> QED BY <1>1, <1>6, <1>7, <1>8

(* The loop goes on to the next contract, or ends the step with the last. *)
LEMMA Next1Effect ==
  ASSUME NEW x, IsWork(x), NEW flags
  PROVE  LET y == Next1(x, flags)
         IN  /\ IsWork(y) /\ y.pl = x.pl /\ y.val = None
             /\ y.run.status = x.run.status /\ y.run.scope = x.run.scope
             /\ y.run.flags = x.run.flags \cup flags
             /\ \/ /\ y.pc = "loop" /\ y.run.done = x.run.done
                   /\ y.todo = x.todo \ {Min(x.todo)}
                \/ /\ y.pc = "step" /\ y.run.done = x.run.done + 1
                   /\ x.todo \ {Min(x.todo)} = {}
<1> DEFINE rest == x.todo \ {Min(x.todo)}
           y == [x EXCEPT !.pc = "loop", !.todo = rest, !.val = None, !.run.flags = @ \cup flags]
           r == [status |-> x.run.status, done |-> x.run.done, flags |-> x.run.flags \cup flags,
                 scope |-> x.run.scope, closings |-> x.run.closings]
<1>0. x = [f \in Fields |-> x[f]] /\ DOMAIN x = Fields
  BY DEF IsWork
<1>1. y.pc = "loop" /\ y.val = None /\ y.pl = x.pl /\ y.todo = rest
  <2> HIDE DEF rest
  <2> QED BY <1>0 DEF Fields
<1>2. y.run = [x.run EXCEPT !.flags = @ \cup flags]
  BY <1>0 DEF Fields
<1>3. y.run = r
  BY <1>2, ZenonT(40) DEF IsWork, IsRun
<1>4. y = [f \in Fields |-> y[f]]
  BY <1>0
<1>5. IsRun(r)
  BY DEF IsRun, IsWork
<1>6. IsWork(y)
  BY <1>1, <1>3, <1>4, <1>5 DEF IsWork
<1>7. Next1(x, flags) = IF rest = {} THEN StepDone(y, {}) ELSE y
  BY DEF Next1
<1> HIDE DEF rest, y
<1>8. CASE rest = {}
  <2>1. /\ IsWork(StepDone(y, {}))
        /\ StepDone(y, {}).pc = "step" /\ StepDone(y, {}).val = None
        /\ StepDone(y, {}).pl = y.pl /\ StepDone(y, {}).run.done = y.run.done + 1
        /\ StepDone(y, {}).run.status = y.run.status /\ StepDone(y, {}).run.scope = y.run.scope
        /\ StepDone(y, {}).run.flags = y.run.flags \cup {}
    BY <1>6, StepDoneEffect
  <2>2. Next1(x, flags) = StepDone(y, {})
    BY <1>7, <1>8
  <2>3. /\ y.run.status = x.run.status /\ y.run.done = x.run.done /\ y.run.scope = x.run.scope
        /\ y.run.flags = x.run.flags \cup flags
    BY <1>3
  <2>4. StepDone(y, {}).run.flags = x.run.flags \cup flags
    BY <2>1, <2>3
  <2>5. x.todo \ {Min(x.todo)} = {}
    BY <1>8 DEF rest
  <2> QED BY <1>1, <2>1, <2>2, <2>3, <2>4, <2>5
<1>9. CASE rest # {}
  <2>1. Next1(x, flags) = y
    BY <1>7, <1>9
  <2>2. /\ y.run.status = x.run.status /\ y.run.done = x.run.done /\ y.run.scope = x.run.scope
        /\ y.run.flags = x.run.flags \cup flags
    BY <1>3
  <2>3. y.todo = x.todo \ {Min(x.todo)}
    BY <1>1 DEF rest
  <2> QED BY <1>1, <1>6, <2>1, <2>2, <2>3
<1> QED BY <1>8, <1>9

\* y is x with the row v of contract c.
Flushed(x, c, v, y) ==
  /\ IsWork(y) /\ y.pc = x.pc /\ y.run = x.run /\ y.todo = x.todo /\ y.val = x.val
  /\ \A d \in Contracts : y.pl[d] = IF d = c THEN v ELSE x.pl[d]

(* A snapshot that is flushed joins the rows of the transaction. *)
LEMMA FlushEffect ==
  ASSUME NEW x, IsWork(x), NEW c, NEW v, v.kind = "pl"
  PROVE  Flushed(x, c, v, [x EXCEPT !.pl[c] = v])
<1> DEFINE y == [x EXCEPT !.pl[c] = v]
<1>0. x = [f \in Fields |-> x[f]] /\ DOMAIN x = Fields
  BY DEF IsWork
<1>1. y.pc = x.pc /\ y.run = x.run /\ y.todo = x.todo /\ y.val = x.val
  BY <1>0 DEF Fields
<1>2. y.pl = [x.pl EXCEPT ![c] = v]
  BY <1>0 DEF Fields
<1>3. y = [f \in Fields |-> y[f]]
  BY <1>0
<1>4. y.pl = [d \in Contracts |-> IF d = c THEN v ELSE x.pl[d]]
  BY <1>2 DEF IsWork
<1>5. \A d \in Contracts : y.pl[d] = IF d = c THEN v ELSE x.pl[d]
  BY <1>4
<1>6. y.pl = [d \in Contracts |-> y.pl[d]]
  BY <1>4
<1> HIDE DEF y
<1>7. IsWork(y)
  BY <1>1, <1>3, <1>5, <1>6 DEF IsWork
<1>8. Flushed(x, c, v, y)
  BY <1>1, <1>5, <1>7 DEF Flushed
<1> QED BY <1>8 DEF y

(* A worker with nothing open. *)
LEMMA NoWorkEffect ==
  /\ IsWork(NoWork) /\ NoWork.pc = "idle" /\ NoWork.val = None /\ NoWork.run.scope = {}
  /\ \A c \in Contracts : NoWork.pl[c] = None
  /\ None.kind = "none"
<1>1. NoWork = [f \in Fields |-> NoWork[f]]
  BY DEF NoWork, Fields
<1>2. NoWork.pc = "idle" /\ NoWork.val = None /\ NoWork.run = NoRun /\ NoWork.pl = [c \in Contracts |-> None]
  BY DEF NoWork
<1>3. IsRun(NoRun) /\ NoRun.scope = {}
  BY DEF IsRun, NoRun, RunStatus
<1>4. None.kind = "none"
  BY DEF None
<1> QED BY <1>1, <1>2, <1>3, <1>4 DEF IsWork

-----------------------------------------------------------------------------
(* The kinds of step *)

(* A step of one worker that commits nothing: what is to be shown of its   *)
(* new transaction y.                                                      *)
LEMMA WorkerStep ==
  ASSUME RunInv, NEW w \in Workers, NEW y, IsWork(y), Working(y),
         Work(w, y), UNCHANGED <<book, pl, run, table>>,
         y.pc \notin {"idle", "wait"} => Holds(w) \/ \A v \in Workers : ~Holds(v),
         y.pc \notin {"idle", "wait"} /\ run.status = "completed" => y.pc = "step" /\ y.run = run,
         Provable(y.val), \A c \in Contracts : Provable(y.pl[c]),
         y.run.scope \subseteq Booked,
         y.pc \notin {"idle", "wait"} => WorkCovers(y)
  PROVE  RunInv'
<1>1. wk'[w] = y /\ \A v \in Workers : v # w => wk'[v] = wk[v]
  BY DEF Work, RunInv, FinTypeOK
<1>2. wk' = [v \in Workers |-> wk'[v]]
  BY DEF Work, RunInv, FinTypeOK
<1>3. FinTypeOK'
  BY <1>1, <1>2 DEF RunInv, FinTypeOK
<1>4. \A v \in Workers : Working(wk[v])'
  BY <1>1 DEF RunInv
<1>5. /\ Holds(w)' <=> y.pc \notin {"idle", "wait"}
      /\ \A v \in Workers : v # w => (Holds(v)' <=> Holds(v))
  BY <1>1 DEF Holds
<1>6. OneHolder'
  BY <1>5 DEF RunInv, OneHolder
<1>7. HolderView'
  BY <1>1, <1>5 DEF RunInv, HolderView
<1>8. PricesProvable'
  <2>1. \A u : Provable(u)' <=> Provable(u)
    BY DEF Provable
  <2>2. \A c \in Contracts : Provable(pl[c])
    BY DEF RunInv, PricesProvable
  <2>3. \A v \in Workers : Provable(wk'[v].val) /\ \A c \in Contracts : Provable(wk'[v].pl[c])
    BY <1>1 DEF RunInv, PricesProvable
  <2>4. \A v \in Workers : Provable(wk[v].val)' /\ \A c \in Contracts : Provable(wk[v].pl[c])'
    BY <2>3 DEF Provable
  <2>5. \A c \in Contracts : Provable(pl[c])'
    BY <2>2 DEF Provable
  <2> QED BY <2>4, <2>5 DEF PricesProvable
<1>9. Coverage'
  <2>1. Active' = Active
    BY DEF Active
  <2>2. \A v \in Workers : WorkCovers(wk[v])' <=> WorkCovers(wk'[v])
    BY <2>1 DEF WorkCovers, Covered, Due
  <2> QED BY <1>1, <1>5, <2>1, <2>2 DEF RunInv, Coverage, Due
<1>10. ScopesBooked'
  <2>1. Booked' = Booked
    BY DEF Booked
  <2> QED BY <1>1, <2>1 DEF RunInv, ScopesBooked
<1> QED BY <1>3, <1>4, <1>6, <1>7, <1>8, <1>9, <1>10 DEF RunInv

(* A step outside the runs: contracts may be booked or settled, snapshots   *)
(* and prices may appear, and none of these goes once it is there.          *)
LEMMA OutsideStep ==
  ASSUME RunInv, UNCHANGED <<run, wk>>,
         book' = [c \in Contracts |-> book'[c]],
         \A c \in Contracts : book'[c] = [status |-> book'[c].status, terms |-> book'[c].terms],
         \A c \in Contracts : book[c].status # "none" => book'[c].status # "none",
         \A c \in Contracts : book'[c].status = "active" => book[c].status \in {"none", "active"},
         pl' = [c \in Contracts |-> pl'[c]],
         \A c \in Contracts : pl'[c] = pl[c] \/ (pl[c] = None /\ pl'[c].kind = "pl" /\ Provable(pl'[c])),
         table' = [d \in Days |-> table'[d]],
         \A d \in Days : table[d] # 0 => table'[d] = table[d]
  PROVE  RunInv'
<1>1. FinTypeOK'
  BY DEF RunInv, FinTypeOK
<1>2. /\ \A v \in Workers : Working(wk[v])'
      /\ OneHolder' /\ HolderView'
      /\ (run.status = "completed" => run.done = Steps)'
  BY DEF RunInv, OneHolder, HolderView, Holds
<1>3. ASSUME NEW u, Provable(u)
      PROVE  u.kind = "pl" /\ u.price # 0 => DayBefore \in Days /\ u.price = table'[DayBefore]
  BY <1>3 DEF Provable
<1>4. \A c \in Contracts : Provable(pl'[c])
  BY DEF RunInv, PricesProvable
<1>5. \A w \in Workers : Provable(wk[w].val) /\ \A c \in Contracts : Provable(wk[w].pl[c])
  BY DEF RunInv, PricesProvable
<1>6. PricesProvable'
  BY <1>3, <1>4, <1>5 DEF PricesProvable, Provable
<1>7. /\ Booked \subseteq Booked' /\ Active' \cap Booked \subseteq Active
      /\ run.scope \subseteq Booked /\ \A w \in Workers : wk[w].run.scope \subseteq Booked
  BY DEF Active, Booked, RunInv, ScopesBooked
<1>8. \A c \in Contracts : pl[c] # None => pl'[c] # None
  OBVIOUS
<1>9. Active \subseteq Contracts
  BY DEF Active
<1>10. \A w \in Workers : WorkCovers(wk[w]) => WorkCovers(wk[w])'
  <2>1. \A w \in Workers : Due(wk[w].run)' \subseteq Due(wk[w].run)
    BY <1>7 DEF Due
  <2>2. \A w \in Workers : Due(wk[w].run) \subseteq Contracts
    BY <1>9 DEF Due
  <2> QED BY <1>8, <2>1, <2>2 DEF WorkCovers, Covered
<1>11. Coverage'
  <2>1. Due(run)' \subseteq Due(run) /\ Due(run) \subseteq Contracts
    BY <1>7, <1>9 DEF Due
  <2> QED BY <1>8, <1>10, <2>1 DEF RunInv, Coverage, Holds
<1>12. ScopesBooked'
  BY <1>7 DEF ScopesBooked
<1> QED BY <1>1, <1>2, <1>6, <1>11, <1>12 DEF RunInv

-----------------------------------------------------------------------------
(* Prices, the book and the snapshot routes *)

(* What an ingester stores stays stored: no replay, correction or race of  *)
(* two ingesters rewrites a price.                                         *)
LEMMA TableGrows ==
  ASSUME table = [d \in Days |-> table[d]], MdNext
  PROVE  /\ table' = [d \in Days |-> table'[d]]
         /\ \A d \in Days : table[d] # 0 => table'[d] = table[d]
<1>1. ASSUME NEW i \in Ingesters, Insert(i) 
      PROVE  /\ table' = [d \in Days |-> table'[d]]
             /\ \A d \in Days : table[d] # 0 => table'[d] = table[d]
  <2> DEFINE rows == ingest[i].rows
  <2>1. CASE Stored(rows) # {}
    BY <1>1, <2>1 DEF Insert
  <2>2. CASE Stored(rows) = {}
    <3>1. table' = [d \in Days |-> IF d \in DOMAIN rows THEN rows[d] ELSE table[d]]
      BY <1>1, <2>2 DEF Insert
    <3>2. \A d \in Days : d \in DOMAIN rows => table[d] = 0
      BY <2>2 DEF Stored
    <3> HIDE DEF rows
    <3> QED BY <3>1, <3>2
  <2> QED BY <2>1, <2>2
<1>2. CASE table' = table
  BY <1>2
<1>3. table' = table \/ \E i \in Ingesters : Insert(i)
  BY DEF MdNext, Publish, Correct, FetchByTask, FetchBulk, FetchDaily, Fetch, FetchFails,
         Ingest, Classify, CoolDown
<1> QED BY <1>1, <1>2, <1>3

(* A price that is read now is provable. *)
LEMMA PlValueProvable ==
  ASSUME NEW c, NEW realized, NEW terms
  PROVE  /\ PlValue(c, realized, terms).kind = "pl"
         /\ PlValue(c, realized, terms).of = c
         /\ Provable(PlValue(c, realized, terms))
<1>1. /\ PlValue(c, realized, terms).kind = "pl" /\ PlValue(c, realized, terms).of = c
      /\ PlValue(c, realized, terms).price = IF terms # 0 THEN PriceD1(RunDate) ELSE 0
  BY DEF PlValue
<1> QED BY <1>1, PriceIsOfDayBefore DEF Provable

(* The steps of the price tables. *)
LEMMA PriceStep == ASSUME RunInv, MdNext, UNCHANGED finVars PROVE RunInv'
<1>1. /\ table' = [d \in Days |-> table'[d]]
      /\ \A d \in Days : table[d] # 0 => table'[d] = table[d]
  BY TableGrows DEF RunInv, FinTypeOK
<1>2. book' = book /\ pl' = pl /\ run' = run /\ wk' = wk
  BY DEF finVars
<1>3. /\ book = [c \in Contracts |-> book[c]] /\ pl = [c \in Contracts |-> pl[c]]
      /\ \A c \in Contracts : book[c] = [status |-> book[c].status, terms |-> book[c].terms]
  BY DEF RunInv, FinTypeOK
<1> QED BY <1>1, <1>2, <1>3, OutsideStep

(* Booking, settling and amending contracts, and the first halves of the routes. *)
LEMMA BookStep ==
  ASSUME RunInv, UNCHANGED priceVars,
         \/ \E c \in Contracts : Book(c) \/ Settle(c) \/ Amend(c) \/ PostPlLoad(c)
         \/ PostBaseLoad
  PROVE  RunInv'
<1>1. pl' = pl /\ run' = run /\ wk' = wk /\ table' = table
  BY DEF Book, Settle, Amend, PostPlLoad, PostBaseLoad, priceVars
<1>2. /\ book = [c \in Contracts |-> book[c]] /\ pl = [c \in Contracts |-> pl[c]]
      /\ \A c \in Contracts : book[c] = [status |-> book[c].status, terms |-> book[c].terms]
      /\ table = [d \in Days |-> table[d]]
  BY DEF RunInv, FinTypeOK
<1>3. /\ book' = [c \in Contracts |-> book'[c]]
      /\ \A c \in Contracts : book'[c] = [status |-> book'[c].status, terms |-> book'[c].terms]
      /\ \A c \in Contracts : book[c].status # "none" => book'[c].status # "none"
      /\ \A c \in Contracts : book'[c].status = "active" => book[c].status \in {"none", "active"}
  <2>1. CASE book' = book
    BY <1>2, <2>1
  <2>2. ASSUME NEW c \in Contracts, Book(c) \/ Settle(c) \/ Amend(c)
        PROVE  /\ book' = [d \in Contracts |-> book'[d]]
               /\ \A d \in Contracts : book'[d] = [status |-> book'[d].status, terms |-> book'[d].terms]
               /\ \A d \in Contracts : book[d].status # "none" => book'[d].status # "none"
               /\ \A d \in Contracts :
                    book'[d].status = "active" => book[d].status \in {"none", "active"}
    <3>1. PICK new : /\ new = [status |-> new.status, terms |-> new.terms]
                     /\ new.status # "none"
                     /\ new.status = "active" => book[c].status \in {"none", "active"}
                     /\ book' = [book EXCEPT ![c] = new]
      <4>1. book[c] = [status |-> book[c].status, terms |-> book[c].terms]
        BY <1>2
      <4>2. CASE Book(c)
        <5> DEFINE n == [status |-> "active", terms |-> book[c].terms]
        <5>1. n = [status |-> n.status, terms |-> n.terms] /\ n.status = "active"
          OBVIOUS
        <5>2. book[c].status = "none" /\ book' = [book EXCEPT ![c] = [book[c] EXCEPT !.status = "active"]]
          BY <4>2 DEF Book
        <5>3. [book[c] EXCEPT !.status = "active"] = n
          BY <4>1
        <5> HIDE DEF n
        <5>4. n.status # "none"
          BY <5>1
        <5>5. book' = [book EXCEPT ![c] = n]
          BY <5>2, <5>3
        <5> QED BY <5>1, <5>2, <5>4, <5>5
      <4>3. CASE Settle(c)
        <5> DEFINE n == [status |-> "settled", terms |-> book[c].terms]
        <5>1. n = [status |-> n.status, terms |-> n.terms] /\ n.status = "settled"
          OBVIOUS
        <5>2. book' = [book EXCEPT ![c] = [book[c] EXCEPT !.status = "settled"]]
          BY <4>3 DEF Settle
        <5>3. [book[c] EXCEPT !.status = "settled"] = n
          BY <4>1
        <5> HIDE DEF n
        <5>4. n.status # "none" /\ n.status # "active"
          BY <5>1
        <5>5. book' = [book EXCEPT ![c] = n]
          BY <5>2, <5>3
        <5> QED BY <5>1, <5>4, <5>5
      <4>4. CASE Amend(c)
        <5> DEFINE n == [status |-> "active", terms |-> book[c].terms + 1]
        <5>1. n = [status |-> n.status, terms |-> n.terms] /\ n.status = "active"
          OBVIOUS
        <5>2. /\ book[c].status = "active"
              /\ book' = [book EXCEPT ![c] = [book[c] EXCEPT !.terms = book[c].terms + 1]]
          BY <4>4 DEF Amend
        <5>3. [book[c] EXCEPT !.terms = book[c].terms + 1] = n
          BY <4>1, <5>2
        <5> HIDE DEF n
        <5>4. n.status # "none"
          BY <5>1
        <5>5. book' = [book EXCEPT ![c] = n]
          BY <5>2, <5>3
        <5> QED BY <5>1, <5>2, <5>4, <5>5
      <4> QED BY <2>2, <4>2, <4>3, <4>4
    <3>2. \A d \in Contracts : book'[d] = IF d = c THEN new ELSE book[d]
      BY <1>2, <3>1
    <3>4. book' = [d \in Contracts |-> book'[d]]
      BY <1>2, <3>1
    <3>5. \A d \in Contracts : book'[d] = [status |-> book'[d].status, terms |-> book'[d].terms]
      BY <1>2, <3>1, <3>2
    <3> QED BY <3>1, <3>2, <3>4, <3>5
  <2> QED BY <2>1, <2>2 DEF PostPlLoad, PostBaseLoad
<1> QED BY <1>1, <1>2, <1>3, OutsideStep

(* The second halves of the routes. *)
LEMMA PostStep ==
  ASSUME RunInv, UNCHANGED mdVars, PostPl \/ PostBase
  PROVE  RunInv'
<1>1. book' = book /\ run' = run /\ wk' = wk /\ table' = table
  BY DEF PostPl, PostBase, mdVars
<1>2. /\ book = [c \in Contracts |-> book[c]] /\ pl = [c \in Contracts |-> pl[c]]
      /\ \A c \in Contracts : book[c] = [status |-> book[c].status, terms |-> book[c].terms]
      /\ table = [d \in Days |-> table[d]]
  BY DEF RunInv, FinTypeOK
<1>3. /\ pl' = [c \in Contracts |-> pl'[c]]
      /\ \A c \in Contracts :
           pl'[c] = pl[c] \/ (pl[c] = None /\ pl'[c].kind = "pl" /\ Provable(pl'[c]))
  <2>1. CASE pl' = pl
    BY <1>2, <2>1
  <2>2. CASE pl' # pl
    <3> DEFINE c == poster.val.of
               v == PlValue(c, poster.val.realized, Terms[c])
    <3>1. pl[c] = None /\ pl' = [pl EXCEPT ![c] = v]
      BY <2>2 DEF PostPl, PostBase
    <3>2. v.kind = "pl" /\ Provable(v)
      BY PlValueProvable
    <3> HIDE DEF c, v
    <3> QED BY <1>2, <3>1, <3>2
  <2> QED BY <2>1, <2>2
<1> QED BY <1>1, <1>2, <1>3, OutsideStep

-----------------------------------------------------------------------------
(* The steps of a worker *)

(* What the invariant says of a worker that is past the lock and has work  *)
(* left to do.                                                             *)
LEMMA HolderFacts ==
  ASSUME RunInv, NEW w \in Workers, Holds(w)
  PROVE  /\ IsWork(wk[w]) /\ Working(wk[w]) /\ WorkCovers(wk[w])
         /\ Provable(wk[w].val) /\ \A c \in Contracts : Provable(wk[w].pl[c])
         /\ wk[w].pc # "step" \/ wk[w].run.done # Steps => run.status # "completed"
         /\ wk[w].run.done \in Nat /\ wk[w].run.scope \subseteq Booked
<1>1. /\ IsWork(wk[w]) /\ Working(wk[w]) /\ WorkCovers(wk[w])
      /\ Provable(wk[w].val) /\ \A c \in Contracts : Provable(wk[w].pl[c])
  BY DEF RunInv, FinTypeOK, Coverage, PricesProvable
<1>2. wk[w].pc # "step" \/ wk[w].run.done # Steps => run.status # "completed"
  BY DEF RunInv, HolderView
<1>3. wk[w].run.done \in Nat
  BY <1>1 DEF IsWork, IsRun
<1>4. wk[w].run.scope \subseteq Booked
  BY DEF RunInv, ScopesBooked
<1> QED BY <1>1, <1>2, <1>3, <1>4

(* A worker past the lock moves to the transaction y of an open run. *)
LEMMA HolderStep ==
  ASSUME RunInv, NEW w \in Workers, Holds(w),
         wk[w].pc # "step" \/ wk[w].run.done # Steps,
         NEW y, Work(w, y), UNCHANGED <<book, pl, run, table>>,
         IsWork(y), Working(y), Provable(y.val),
         \A c \in Contracts : Provable(y.pl[c]), y.run.scope \subseteq Booked,
         y.pc \notin {"idle", "wait"} => WorkCovers(y)
  PROVE  RunInv'
BY HolderFacts, WorkerStep

(* The run is given up, rolled back, or its process dies. *)
LEMMA GiveUpStep ==
  ASSUME RunInv, NEW w \in Workers, Work(w, NoWork), UNCHANGED <<book, pl, run, table>>
  PROVE  RunInv'
<1>1. /\ Working(NoWork) /\ Provable(NoWork.val) /\ \A c \in Contracts : Provable(NoWork.pl[c])
  BY NoWorkEffect DEF Working, Provable
<1> QED BY <1>1, NoWorkEffect, WorkerStep

(* A step of the run is done, under the coverage it owes. *)
LEMMA StepDoneStep ==
  ASSUME RunInv, NEW w \in Workers, Holds(w),
         wk[w].pc # "step" \/ wk[w].run.done # Steps,
         NEW x, IsWork(x), \A c \in Contracts : Provable(x.pl[c]), x.run.scope \subseteq Booked,
         x.run.done >= 2 => \A c \in Due(x.run) : Covered(x, c),
         NEW flags, Work(w, StepDone(x, flags)), UNCHANGED <<book, pl, run, table>>
  PROVE  RunInv'
<1> DEFINE y == StepDone(x, flags)
<1>1. /\ IsWork(y) /\ y.pc = "step" /\ y.val = None /\ y.pl = x.pl
      /\ y.run.done = x.run.done + 1 /\ y.run.flags = x.run.flags \cup flags
      /\ y.run.scope = x.run.scope
  BY StepDoneEffect
<1>2. x.run.done \in Nat
  BY DEF IsWork, IsRun
<1>3. Work(w, y)
  OBVIOUS
<1> HIDE DEF y
<1>4. Working(y) /\ Provable(y.val) /\ \A c \in Contracts : Provable(y.pl[c])
  BY <1>1, NoWorkEffect DEF Working, Provable
<1>5. y.run.done >= 3 => x.run.done >= 2
  BY <1>1, <1>2
<1>6. Due(y.run) = Due(x.run) /\ \A c \in Due(x.run) : Covered(x, c) => Covered(y, c)
  BY <1>1 DEF Covered, Due
<1>7. WorkCovers(y)
  BY <1>1, <1>5, <1>6 DEF WorkCovers
<1> QED BY <1>1, <1>3, <1>4, <1>7, HolderStep

(* The loop is through with one contract. *)
LEMMA LoopStep ==
  ASSUME RunInv, NEW w \in Workers, Holds(w), wk[w].pc # "step",
         NEW x, IsWork(x), \A c \in Contracts : Provable(x.pl[c]), x.run.done \in {1, 2},
         x.run.scope \subseteq Booked,
         NEW flags,
         x.run.done = 2 =>
           \A c \in Due(x.run) \ (x.todo \ {Min(x.todo)}) :
             Covered(x, c) \/ Missing(c) \in flags,
         Work(w, Next1(x, flags)), UNCHANGED <<book, pl, run, table>>
  PROVE  RunInv'
<1> DEFINE y == Next1(x, flags)
<1>1. /\ IsWork(y) /\ y.pl = x.pl /\ y.val = None /\ y.run.scope = x.run.scope
      /\ y.run.flags = x.run.flags \cup flags
      /\ \/ /\ y.pc = "loop" /\ y.run.done = x.run.done
            /\ y.todo = x.todo \ {Min(x.todo)}
         \/ /\ y.pc = "step" /\ y.run.done = x.run.done + 1
            /\ x.todo \ {Min(x.todo)} = {}
  BY Next1Effect
<1>2. Work(w, y)
  OBVIOUS
<1> HIDE DEF y
<1>3. Working(y) /\ Provable(y.val) /\ \A c \in Contracts : Provable(y.pl[c])
  BY <1>1, NoWorkEffect DEF Working, Provable
<1>4. /\ Due(y.run) = Due(x.run)
      /\ \A c \in Due(x.run) : Covered(x, c) \/ Missing(c) \in flags => Covered(y, c)
  BY <1>1 DEF Covered, Due
<1>5. CASE y.pc = "loop"
  <2>1. y.run.done = x.run.done /\ y.todo = x.todo \ {Min(x.todo)}
    BY <1>1, <1>5
  <2>2. ~(y.run.done >= 3)
    BY <2>1
  <2>3. WorkCovers(y)
    BY <1>4, <1>5, <2>1, <2>2 DEF WorkCovers
  <2> QED BY <1>1, <1>2, <1>3, <2>3, HolderStep
<1>6. CASE y.pc = "step"
  <2>1. y.run.done = x.run.done + 1 /\ x.todo \ {Min(x.todo)} = {}
    BY <1>1, <1>6
  <2>2. y.run.done >= 3 => x.run.done = 2
    BY <2>1
  <2>3. x.run.done = 2 => \A c \in Due(x.run) : Covered(x, c) \/ Missing(c) \in flags
    BY <2>1
  <2>4. WorkCovers(y)
    BY <1>4, <1>6, <2>2, <2>3 DEF WorkCovers
  <2> QED BY <1>1, <1>2, <1>3, <2>4, HolderStep
<1> QED BY <1>1, <1>5, <1>6

(* A step fails: the run becomes partial and what it covered stays covered. *)
LEMMA StepFailedStep ==
  ASSUME RunInv, NEW w \in Workers, Holds(w),
         wk[w].pc # "step" \/ wk[w].run.done # Steps,
         Work(w, StepFailed(wk[w])), UNCHANGED <<book, pl, run, table>>
  PROVE  RunInv'
<1> DEFINE x == wk[w]
           y == StepFailed(x)
<1>0. /\ IsWork(x) /\ WorkCovers(x) /\ Provable(x.val) /\ \A c \in Contracts : Provable(x.pl[c])
      /\ x.run.scope \subseteq Booked
  BY HolderFacts
<1>1. /\ IsWork(y) /\ y.pc = "commit" /\ y.pl = x.pl /\ y.val = x.val
      /\ y.run.done = x.run.done /\ y.run.status = "partial" /\ y.run.flags = x.run.flags
      /\ y.run.scope = x.run.scope
  BY <1>0, StepFailedEffect
<1>2. Work(w, y)
  OBVIOUS
<1> HIDE DEF y, x
<1>3. Working(y)
  BY <1>1 DEF Working
<1>4. WorkCovers(y)
  BY <1>0, <1>1 DEF WorkCovers, Covered, Due
<1> QED BY <1>0, <1>1, <1>2, <1>3, <1>4, HolderStep

(* Entering, waiting and taking the lock. *)
LEMMA LockStep ==
  ASSUME RunInv, NEW w \in Workers, Enter(w) \/ Lock(w), UNCHANGED mdVars
  PROVE  RunInv'
<1>0. UNCHANGED <<book, pl, run, table>>
  BY DEF Enter, Lock, mdVars
<1>1. /\ IsRun(run) /\ IsWork(wk[w]) /\ Provable(wk[w].val)
      /\ \A c \in Contracts : Provable(wk[w].pl[c])
      /\ run.scope \subseteq Booked
  BY DEF RunInv, FinTypeOK, PricesProvable, ScopesBooked
<1>2. CASE Enter(w)
  <2> DEFINE y == [NoWork EXCEPT !.pc = "wait", !.run = run]
  <2>1. IsWork(y) /\ y.pc = "wait" /\ y.pl = NoWork.pl /\ y.val = NoWork.val /\ y.run = run
    BY <1>1, NoWorkEffect DEF IsWork, Fields
  <2>2. Work(w, y)
    BY <1>2 DEF Enter
  <2> HIDE DEF y
  <2>3. Working(y) /\ Provable(y.val) /\ \A c \in Contracts : Provable(y.pl[c])
    BY <2>1, NoWorkEffect DEF Working, Provable
  <2> QED BY <1>0, <1>1, <2>1, <2>2, <2>3, WorkerStep
<1>3. CASE Lock(w)
  <2> DEFINE y == [wk[w] EXCEPT !.pc = "step", !.run = run]
  <2>1. IsWork(y) /\ y.pc = "step" /\ y.run = run /\ y.pl = wk[w].pl /\ y.val = wk[w].val
    BY <1>1 DEF IsWork, Fields
  <2>2. Work(w, y) \/ Work(w, NoWork)
    BY <1>3 DEF Lock
  <2>3. \A v \in Workers : ~Holds(v)
    BY <1>3 DEF Lock
  <2> HIDE DEF y
  <2>4. Working(y) /\ Provable(y.val) /\ \A c \in Contracts : Provable(y.pl[c])
    BY <1>1, <2>1 DEF Working
  <2>5. WorkCovers(y)
    BY <2>1 DEF RunInv, Coverage, WorkCovers, Covered
  <2>6. CASE Work(w, y)
    BY <1>0, <1>1, <2>1, <2>3, <2>4, <2>5, <2>6, WorkerStep
  <2> QED BY <1>0, <2>2, <2>6, GiveUpStep
<1> QED BY <1>2, <1>3

(* The beginning of a loop over the active contracts. *)
LEMMA BeginStep ==
  ASSUME RunInv, NEW w \in Workers, Begin(w), UNCHANGED mdVars
  PROVE  RunInv'
<1>0. UNCHANGED <<book, pl, run, table>>
  BY DEF Begin, mdVars
<1>1. /\ Holds(w) /\ wk[w].run.done # Steps /\ wk[w].run.done \in 0 .. 2
  BY DEF Begin, Holds, Steps
<1>2. /\ IsWork(wk[w]) /\ Provable(wk[w].val) /\ \A c \in Contracts : Provable(wk[w].pl[c])
      /\ wk[w].run.scope \subseteq Booked
  BY <1>1, HolderFacts
<1> DEFINE x == IF wk[w].run.done = 0 THEN StepDone(wk[w], {}) ELSE Started(wk[w])
<1>3. Work(w, IF Active = {} THEN StepDone(x, {})
              ELSE [x EXCEPT !.pc = "loop", !.todo = Active, !.terms = Terms])
  BY DEF Begin
<1>4. /\ IsWork(x) /\ x.run.done \in {1, 2} /\ x.pl = wk[w].pl /\ Provable(x.val)
      /\ x.run.scope \subseteq Booked
  <2>1. CASE wk[w].run.done = 0
    BY <1>2, <2>1, StepDoneEffect, NoWorkEffect DEF Provable
  <2>2. CASE wk[w].run.done # 0
    <3>1. x = Started(wk[w])
      BY <2>2
    <3> QED BY <1>1, <1>2, <2>2, <3>1, StartedEffect
  <2> QED BY <2>1, <2>2
<1> HIDE DEF x
<1>5. CASE Active = {}
  <2>1. Work(w, StepDone(x, {})) /\ Due(x.run) = {}
    BY <1>3, <1>5 DEF Due
  <2> QED BY <1>0, <1>1, <1>2, <1>4, <2>1, StepDoneStep
<1>6. CASE Active # {}
  <2> DEFINE y == [x EXCEPT !.pc = "loop", !.todo = Active, !.terms = Terms]
  <2>1. Work(w, y)
    BY <1>3, <1>6
  <2>2. IsRun(x.run)
    BY <1>4 DEF IsWork
  <2>3. IsWork(y) /\ y.pc = "loop" /\ y.todo = Active /\ y.run = x.run /\ y.pl = x.pl /\ y.val = x.val
    BY <1>4, <2>2 DEF IsWork, Fields
  <2> HIDE DEF y
  <2>4. Working(y) /\ Provable(y.val) /\ \A c \in Contracts : Provable(y.pl[c])
    BY <1>2, <1>4, <2>3 DEF Working
  <2>5. ~(y.run.done >= 3)
    BY <1>4, <2>3
  <2>6. WorkCovers(y)
    BY <2>3, <2>5 DEF WorkCovers, Due
  <2> QED BY <1>0, <1>1, <1>4, <2>1, <2>3, <2>4, <2>6, HolderStep
<1> QED BY <1>5, <1>6

(* The loop of mtm_computation. *)
LEMMA MtmStep ==
  ASSUME RunInv, NEW w \in Workers, Mtm(w), UNCHANGED mdVars
  PROVE  RunInv'
<1>1. /\ Holds(w) /\ wk[w].pc # "step" /\ wk[w].run.done = 1
      /\ UNCHANGED <<book, pl, run, table>>
      /\ \E flags : Work(w, Next1(wk[w], flags))
  BY DEF Mtm, Holds, mdVars
<1>2. IsWork(wk[w]) /\ wk[w].run.scope \subseteq Booked /\ \A c \in Contracts : Provable(wk[w].pl[c])
  BY <1>1, HolderFacts
<1> QED BY <1>1, <1>2, LoopStep

(* create_pl_snapshot: a contract leaves the loop with a row or a flag. *)
LEMMA PlLoadStep ==
  ASSUME RunInv, NEW w \in Workers, PlLoad(w), UNCHANGED mdVars
  PROVE  RunInv'
<1> DEFINE x == wk[w]
           c == Min(x.todo)
           v == PlValue(c, c \in Ledger, x.terms[c])
<1>1. /\ Holds(w) /\ x.pc = "loop" /\ x.run.done = 2
      /\ UNCHANGED <<book, pl, run, table>>
      /\ Work(w, IF v.price = 0 THEN Next1(x, {Missing(c)})
                 ELSE IF pl[c] = None THEN [x EXCEPT !.pc = "flush", !.val = v]
                 ELSE IF pl[c] = v THEN Next1(x, {})
                 ELSE StepFailed(x))
  BY DEF PlLoad, Holds, mdVars
<1>2. /\ IsWork(x) /\ WorkCovers(x) /\ \A d \in Contracts : Provable(x.pl[d])
      /\ x.run.scope \subseteq Booked
  BY <1>1, HolderFacts
<1>3. v.kind = "pl" /\ v.of = c /\ Provable(v)
  <2> DEFINE held == c \in Ledger
             terms == x.terms[c]
  <2>1. v = PlValue(c, held, terms)
    OBVIOUS
  <2> HIDE DEF c, held, terms, v
  <2> QED BY <2>1, PlValueProvable
<1>4. \A d \in Due(x.run) \ x.todo : Covered(x, d)
  BY <1>1, <1>2 DEF WorkCovers
<1> HIDE DEF v
<1>5. CASE v.price = 0
  <2>1. Work(w, Next1(x, {Missing(c)}))
    BY <1>1, <1>5
  <2>2. \A d \in Due(x.run) \ (x.todo \ {c}) : Covered(x, d) \/ Missing(d) \in {Missing(c)}
    BY <1>4
  <2> QED BY <1>1, <1>2, <2>1, <2>2, LoopStep
<1>6. CASE v.price # 0 /\ pl[c] = None
  <2> DEFINE y == [x EXCEPT !.pc = "flush", !.val = v]
  <2>1. Work(w, y)
    BY <1>1, <1>6
  <2>2. IsRun(x.run)
    BY <1>2 DEF IsWork
  <2>3. IsWork(y) /\ y.pc = "flush" /\ y.val = v /\ y.run = x.run /\ y.pl = x.pl /\ y.todo = x.todo
    BY <1>2, <2>2 DEF IsWork, Fields
  <2> HIDE DEF y
  <2>4. Working(y)
    BY <1>1, <1>3, <2>3 DEF Working
  <2>5. ~(y.run.done >= 3)
    BY <1>1, <2>3
  <2>6. WorkCovers(y)
    BY <1>4, <2>3, <2>5 DEF WorkCovers, Covered
  <2>7. wk[w].pc # "step"
    BY <1>1
  <2> QED BY <1>1, <1>2, <1>3, <2>1, <2>3, <2>4, <2>6, <2>7, HolderStep
<1>7. CASE v.price # 0 /\ pl[c] # None /\ pl[c] = v
  <2>1. Work(w, Next1(x, {}))
    BY <1>1, <1>7
  <2>2. \A d \in Due(x.run) \ (x.todo \ {c}) : Covered(x, d)
    BY <1>4, <1>7 DEF Covered
  <2> QED BY <1>1, <1>2, <2>1, <2>2, LoopStep
<1>8. CASE v.price # 0 /\ pl[c] # None /\ pl[c] # v
  <2>1. Work(w, StepFailed(wk[w])) /\ wk[w].pc # "step"
    BY <1>1, <1>8
  <2> QED BY <1>1, <2>1, StepFailedStep
<1> QED BY <1>5, <1>6, <1>7, <1>8

(* The cashflow baseline up to its row. *)
LEMMA BaselineStep ==
  ASSUME RunInv, NEW w \in Workers, BaselineLoad(w) \/ BaselineLedger(w), UNCHANGED mdVars
  PROVE  RunInv'
<1> DEFINE x == wk[w]
<1>1. /\ Holds(w) /\ (x.pc # "step" \/ x.run.done # Steps) /\ UNCHANGED <<book, pl, run, table>>
  BY DEF BaselineLoad, BaselineLedger, Stepping, Holds, Steps, mdVars
<1>2. /\ IsWork(x) /\ Working(x) /\ WorkCovers(x) /\ \A d \in Contracts : Provable(x.pl[d])
      /\ x.run.scope \subseteq Booked
  BY <1>1, HolderFacts
<1>3. x.run.done = 3
  <2>1. CASE BaselineLoad(w)
    BY <2>1, SMT DEF BaselineLoad, Stepping
  <2>2. CASE BaselineLedger(w)
    <3>1. x.pc = "ledger"
      BY <2>2 DEF BaselineLedger
    <3> QED BY <1>2, <3>1, Zenon DEF Working
  <2> QED BY <2>1, <2>2
<1>4. \A c \in Due(x.run) : Covered(x, c)
  BY <1>2, <1>3 DEF WorkCovers
<1>5. IsRun(x.run)
  BY <1>2 DEF IsWork
<1>6. ASSUME Work(w, StepDone(x, {})) PROVE RunInv'
  BY <1>1, <1>2, <1>4, <1>6, StepDoneStep
<1>7. ASSUME Work(w, StepFailed(x)) PROVE RunInv'
  BY <1>1, <1>7, StepFailedStep
<1>8. ASSUME NEW y, IsWork(y), Work(w, y), y.run = x.run, y.pl = x.pl, y.val.kind = "baseline",
             y.pc = "flush" \/ (y.pc = "ledger" /\ "kind" \in DOMAIN y.val)
      PROVE  RunInv'
  <2>1. Working(y) /\ Provable(y.val) /\ \A c \in Contracts : Provable(y.pl[c])
    BY <1>2, <1>3, <1>8 DEF Working, Provable
  <2>2. WorkCovers(y)
    BY <1>3, <1>4, <1>8 DEF WorkCovers, Covered
  <2> QED BY <1>1, <1>2, <1>8, <2>1, <2>2, HolderStep
<1>9. CASE BaselineLoad(w)
  <2> DEFINE v == BaseValue(Unrealized, {})
             y == [x EXCEPT !.pc = "ledger", !.found = base # None, !.val = v]
  <2>1. Work(w, StepDone(x, {})) \/ Work(w, StepFailed(x)) \/ Work(w, y)
    BY <1>9 DEF BaselineLoad
  <2>2. v.kind = "baseline" /\ "kind" \in DOMAIN v
    BY DEF BaseValue
  <2>3. \A u, b : LET z == [x EXCEPT !.pc = "ledger", !.found = b, !.val = u]
                  IN  IsWork(z) /\ z.pc = "ledger" /\ z.val = u /\ z.run = x.run /\ z.pl = x.pl
    BY <1>2, <1>5, ZenonT(40) DEF IsWork, Fields
  <2> HIDE DEF v
  <2>4. IsWork(y) /\ y.pc = "ledger" /\ y.val = v /\ y.run = x.run /\ y.pl = x.pl
    BY <2>3, Zenon
  <2> HIDE DEF y
  <2> QED BY <1>6, <1>7, <1>8, <2>1, <2>2, <2>4
<1>10. CASE BaselineLedger(w)
  <2> DEFINE v == [x.val EXCEPT !.entries = Ledger]
             y == [x EXCEPT !.pc = "flush", !.val = v]
  <2>1. Work(w, StepDone(x, {})) \/ Work(w, StepFailed(x)) \/ Work(w, y)
    BY <1>10 DEF BaselineLedger
  <2>2. x.val.kind = "baseline" /\ "kind" \in DOMAIN x.val
    BY <1>2, <1>10 DEF BaselineLedger, Working
  <2>3. v.kind = "baseline"
    BY <2>2
  <2> HIDE DEF v
  <2>4. IsWork(y) /\ y.pc = "flush" /\ y.val = v /\ y.run = x.run /\ y.pl = x.pl
    BY <1>2, <1>5 DEF IsWork, Fields
  <2> HIDE DEF y
  <2> QED BY <1>6, <1>7, <1>8, <2>1, <2>3, <2>4
<1> QED BY <1>9, <1>10

(* The INSERT of a snapshot. *)
LEMMA FlushStep ==
  ASSUME RunInv, NEW w \in Workers, Flush(w), UNCHANGED mdVars
  PROVE  RunInv'
<1> DEFINE x == wk[w]
           v == x.val
           z == [x EXCEPT !.pl[v.of] = v]
           b == [x EXCEPT !.base = v]
<1>1. /\ Holds(w) /\ x.pc = "flush" /\ wk[w].pc # "step" /\ UNCHANGED <<book, pl, run, table>>
  BY DEF Flush, Holds, mdVars
<1>2. /\ IsWork(x) /\ Working(x) /\ WorkCovers(x) /\ Provable(x.val) /\ x.run.scope \subseteq Booked
      /\ \A d \in Contracts : Provable(x.pl[d])
  BY <1>1, HolderFacts
<1>3. \/ Work(w, NoWork)
      \/ v.kind = "pl" /\ Work(w, Next1(z, {}))
      \/ v.kind # "pl" /\ Work(w, StepDone(b, {}))
  BY DEF Flush
<1>4. \/ v.kind = "pl" /\ x.run.done = 2 /\ v.of = Min(x.todo)
      \/ v.kind = "baseline" /\ x.run.done = 3
  BY <1>1, <1>2 DEF Working
<1>5. CASE v.kind = "pl" /\ Work(w, Next1(z, {}))
  <2>1. /\ IsWork(z) /\ z.run = x.run /\ z.todo = x.todo
        /\ \A d \in Contracts : z.pl[d] = IF d = v.of THEN v ELSE x.pl[d]
    <3>1. IsWork(x) /\ v.kind = "pl"
      BY <1>2, <1>5
    <3>2. Flushed(x, v.of, v, z)
      <4> HIDE DEF v, x
      <4> QED BY <3>1, FlushEffect, Zenon DEF z
    <3> HIDE DEF v, x, z
    <3> QED BY <3>2 DEF Flushed
  <2>2. Work(w, Next1(z, {})) /\ z.run.done = 2 /\ v.of = Min(x.todo) /\ v # None /\ Provable(v)
    BY <1>2, <1>4, <1>5, <2>1, NoWorkEffect
  <2> HIDE DEF z, v
  <2>3. \A d \in Contracts : Provable(z.pl[d])
    BY <1>2, <2>1, <2>2
  <2>4. \A d \in Due(x.run) \ x.todo : Covered(x, d)
    BY <1>1, <1>2, <2>1, <2>2 DEF WorkCovers
  <2>5. Due(x.run) \subseteq Contracts
    BY DEF Active, Due
  <2>6. \A d \in Due(z.run) \ (z.todo \ {Min(z.todo)}) : Covered(z, d)
    BY <2>1, <2>2, <2>4, <2>5 DEF Covered
  <2> QED BY <1>1, <1>2, <2>1, <2>2, <2>3, <2>6, LoopStep
<1>6. CASE v.kind # "pl" /\ Work(w, StepDone(b, {}))
  <2>1. IsRun(x.run) /\ x.run.done = 3
    BY <1>2, <1>4, <1>6 DEF IsWork
  <2>2. IsWork(b) /\ b.run = x.run /\ b.pl = x.pl
    BY <1>2, <2>1 DEF IsWork, Fields
  <2>3. Work(w, StepDone(b, {}))
    BY <1>6
  <2> HIDE DEF b
  <2>4. \A d \in Due(b.run) : Covered(b, d)
    BY <1>2, <2>1, <2>2 DEF WorkCovers, Covered
  <2> QED BY <1>1, <1>2, <2>2, <2>3, <2>4, StepDoneStep
<1> QED BY <1>1, <1>3, <1>5, <1>6, GiveUpStep

(* The risk flags. *)
LEMMA RiskFlagsStep ==
  ASSUME RunInv, NEW w \in Workers, RiskFlags(w), UNCHANGED mdVars
  PROVE  RunInv'
<1>1. /\ Holds(w) /\ wk[w].pc = "step" /\ wk[w].run.done = 5 - 1
      /\ UNCHANGED <<book, pl, run, table>>
      /\ \E flags : Work(w, StepDone(wk[w], flags))
  BY DEF RiskFlags, Stepping, Holds, mdVars
<1>2. /\ IsWork(wk[w]) /\ WorkCovers(wk[w]) /\ \A d \in Contracts : Provable(wk[w].pl[d])
      /\ wk[w].run.scope \subseteq Booked
  BY <1>1, HolderFacts
<1>3. wk[w].run.done # Steps /\ wk[w].run.done >= 3
  BY <1>1 DEF Steps
<1>4. \A c \in Due(wk[w].run) : Covered(wk[w], c)
  BY <1>2, <1>3 DEF WorkCovers
<1> QED BY <1>1, <1>2, <1>3, <1>4, StepDoneStep

\* What ClosedDayIsFinal says of one step.
SameDay == run = [run' EXCEPT !.closings = run.closings]

(* The commit publishes a run whose contracts are all dealt with, or one    *)
(* that is partial; a run that was completed before is closed once more,    *)
(* and nothing else of it changes.                                          *)
LEMMA CommitStep ==
  ASSUME RunInv, NEW w \in Workers, Commit(w), UNCHANGED mdVars
  PROVE  RunInv' /\ (run.status = "completed" => SameDay)
<1> DEFINE x == wk[w]
<1>1. /\ Holds(w) /\ book' = book /\ table' = table /\ run' = Final(x)
      /\ x.pc = "commit" \/ (x.pc = "step" /\ x.run.done \in {5, Steps})
      /\ pl' = [c \in Contracts |-> IF x.pl[c] # None THEN x.pl[c] ELSE pl[c]]
      /\ wk' = [wk EXCEPT ![w] = NoWork]
  BY DEF Commit, Holds, Work, mdVars
<1>2. /\ IsWork(x) /\ Working(x) /\ WorkCovers(x) /\ \A d \in Contracts : Provable(x.pl[d])
      /\ IsRun(x.run) /\ x.run.done \in Nat /\ x.run.scope \subseteq Booked
  BY <1>1, HolderFacts DEF IsWork
<1>3. x.run = [status |-> x.run.status, done |-> x.run.done, flags |-> x.run.flags,
               scope |-> x.run.scope, closings |-> x.run.closings]
  BY <1>2 DEF IsRun
<1>4. /\ IsRun(run') /\ run'.flags = x.run.flags /\ run'.scope = x.run.scope
      /\ run'.done >= 3 => x.run.done >= 3
      /\ run'.status = "completed" => run'.done = Steps
      /\ run.status = "completed" => SameDay
  <2>1. CASE x.pc = "commit"
    <3>1. run' = x.run /\ x.run.status = "partial"
      BY <1>1, <1>2, <2>1 DEF Final, Working
    <3>2. run.status # "completed"
      BY <1>1, <2>1, HolderFacts
    <3> QED BY <1>2, <3>1, <3>2
  <2>2. CASE x.pc = "step" /\ x.run.done \in {5, Steps}
    <3>1. run' = [x.run EXCEPT !.status = "completed", !.done = Steps,
                               !.closings = x.run.closings + 1]
      BY <1>1, <2>2 DEF Final
    <3>2. run' = [status |-> "completed", done |-> Steps, flags |-> x.run.flags,
                  scope |-> x.run.scope, closings |-> x.run.closings + 1]
      BY <1>3, <3>1
    <3>3. IsRun(run')
      BY <1>2, <3>2 DEF IsRun, RunStatus, Steps
    <3>4. x.run.done >= 3
      BY <2>2 DEF Steps
    <3>5. run.status = "completed" => x.run = run /\ run.done = Steps
      BY <1>1 DEF RunInv, HolderView
    <3>6. run.status = "completed" => SameDay
      <4>1. SUFFICES ASSUME run.status = "completed" PROVE SameDay
        OBVIOUS
      <4>2. run = [status |-> "completed", done |-> Steps, flags |-> x.run.flags,
                   scope |-> x.run.scope, closings |-> run.closings]
        BY <1>3, <3>5, <4>1
      <4> QED BY <3>2, <4>2 DEF SameDay
    <3>7. run'.flags = x.run.flags /\ run'.scope = x.run.scope /\ run'.done = Steps
      BY <3>2
    <3> QED BY <3>3, <3>4, <3>6, <3>7
  <2> QED BY <1>1, <2>1, <2>2
<1>5. /\ wk'[w] = NoWork /\ \A v \in Workers : v # w => wk'[v] = wk[v]
      /\ wk' = [v \in Workers |-> wk'[v]]
  BY <1>1 DEF RunInv, FinTypeOK
<1>6. FinTypeOK'
  <2>1. pl' = [c \in Contracts |-> pl'[c]]
    BY <1>1
  <2>2. \A c \in Contracts : pl'[c] = None \/ pl'[c].kind = "pl"
    BY <1>1, <1>2 DEF IsWork, RunInv, FinTypeOK
  <2>3. \A v \in Workers : IsWork(wk'[v])
    BY <1>5, NoWorkEffect DEF RunInv, FinTypeOK
  <2> QED BY <1>1, <1>4, <1>5, <2>1, <2>2, <2>3 DEF RunInv, FinTypeOK
<1>7. \A v \in Workers : ~Holds(v)'
  BY <1>1, <1>5, NoWorkEffect DEF Holds, RunInv, OneHolder
<1>8. \A v \in Workers : Working(wk[v])'
  BY <1>5, NoWorkEffect DEF RunInv, Working
<1>9. OneHolder' /\ HolderView'
  BY <1>7 DEF OneHolder, HolderView
<1>10. PricesProvable'
  <2>1. \A c \in Contracts : Provable(pl'[c])
    BY <1>1, <1>2 DEF RunInv, PricesProvable
  <2>2. \A v \in Workers : Provable(wk'[v].val) /\ \A c \in Contracts : Provable(wk'[v].pl[c])
    <3>1. Provable(None)
      BY NoWorkEffect DEF Provable
    <3> QED BY <1>5, <3>1, NoWorkEffect DEF RunInv, PricesProvable
  <2> QED BY <1>1, <2>1, <2>2 DEF PricesProvable, Provable
<1>11. Coverage'
  <2>1. Due(run)' = Due(x.run) /\ Due(x.run) \subseteq Contracts
    BY <1>1, <1>4 DEF Active, Due
  <2>2. run'.done >= 3 => \A c \in Due(x.run) : pl'[c] # None \/ Missing(c) \in run'.flags
    BY <1>1, <1>2, <1>4, <2>1 DEF WorkCovers, Covered
  <2> QED BY <1>7, <2>1, <2>2 DEF Coverage
<1>12. ScopesBooked'
  <2>1. Booked' = Booked
    BY <1>1 DEF Booked
  <2> QED BY <1>2, <1>4, <1>5, <2>1, NoWorkEffect DEF RunInv, ScopesBooked
<1> QED BY <1>4, <1>6, <1>8, <1>9, <1>10, <1>11, <1>12 DEF RunInv

-----------------------------------------------------------------------------
(* The theorems *)

(* No run, no work and no snapshot to begin with. *)
LEMMA FinanceInitInv == FinanceInit => RunInv
<1> SUFFICES ASSUME FinanceInit PROVE RunInv
  OBVIOUS
<1>1. /\ table = [d \in Days |-> 0]
      /\ book = [c \in Contracts |->
                   [status |-> IF c \in Opening THEN "active" ELSE "none", terms |-> 1]]
      /\ pl = [c \in Contracts |-> None] /\ run = NoRun /\ wk = [w \in Workers |-> NoWork]
  BY DEF FinanceInit, MdInit, FinInit
<1>2. IsRun(NoRun) /\ NoRun.status = "none" /\ NoRun.done = 0 /\ NoRun.scope = {}
  BY DEF IsRun, NoRun, RunStatus
<1>3. /\ book = [c \in Contracts |-> book[c]] /\ pl = [c \in Contracts |-> pl[c]]
      /\ table = [d \in Days |-> table[d]] /\ wk = [w \in Workers |-> wk[w]]
  BY <1>1
<1>4. \A c \in Contracts : book[c] = [status |-> book[c].status, terms |-> book[c].terms]
  BY <1>1
<1>5. \A c \in Contracts : pl[c] = None
  BY <1>1
<1>6. \A w \in Workers : wk[w] = NoWork
  BY <1>1
<1>7. FinTypeOK
  BY <1>1, <1>2, <1>3, <1>4, <1>5, <1>6, NoWorkEffect DEF FinTypeOK
<1>8. \A w \in Workers : ~Holds(w) /\ Working(wk[w])
  BY <1>6, NoWorkEffect DEF Holds, Working
<1>9. PricesProvable
  BY <1>5, <1>6, NoWorkEffect DEF PricesProvable, Provable
<1>10. OneHolder /\ HolderView /\ Coverage
  BY <1>1, <1>2, <1>8 DEF OneHolder, HolderView, Coverage
<1>11. ScopesBooked
  BY <1>1, <1>2, <1>6, NoWorkEffect DEF ScopesBooked
<1> QED BY <1>1, <1>2, <1>7, <1>8, <1>9, <1>10, <1>11 DEF RunInv

(* Every step keeps the invariant and leaves a completed run alone. *)
LEMMA FinanceNextInv ==
  RunInv /\ [FinanceNext]_vars => RunInv' /\ (run.status = "completed" => SameDay)
<1> SUFFICES ASSUME RunInv, [FinanceNext]_vars
             PROVE  RunInv' /\ (run.status = "completed" => SameDay)
  OBVIOUS
<1>0. run' = run => SameDay
  <2>1. run = [status |-> run.status, done |-> run.done, flags |-> run.flags,
               scope |-> run.scope, closings |-> run.closings]
    BY DEF RunInv, FinTypeOK, IsRun
  <2> QED BY <2>1 DEF SameDay
<1>1. CASE MdNext /\ UNCHANGED finVars
  BY <1>0, <1>1, PriceStep DEF finVars
<1>2. CASE Disturbance /\ UNCHANGED priceVars
  <2>1. CASE \/ \E c \in Contracts : Settle(c) \/ Amend(c) \/ PostPlLoad(c)
             \/ PostBaseLoad
    <3>1. RunInv'
      BY <1>2, <2>1, BookStep
    <3>2. run' = run
      BY <2>1 DEF Settle, Amend, PostPlLoad, PostBaseLoad
    <3> QED BY <1>0, <3>1, <3>2
  <2>2. ASSUME NEW w \in Workers, Crash(w) PROVE RunInv' /\ run' = run
    <3>1. Work(w, NoWork) /\ UNCHANGED <<book, pl, run, table>>
      BY <1>2, <2>2 DEF Crash, priceVars
    <3> QED BY <3>1, GiveUpStep
  <2> QED BY <1>0, <1>2, <2>1, <2>2 DEF Disturbance
<1>3. CASE Progress /\ UNCHANGED mdVars
  <2>1. CASE PostPl \/ PostBase
    <3>1. run' = run
      BY <2>1 DEF PostPl, PostBase
    <3> QED BY <1>0, <1>3, <2>1, <3>1, PostStep
  <2>0. CASE \E c \in Contracts : Book(c)
    <3>1. RunInv'
      BY <1>3, <2>0, BookStep DEF mdVars, priceVars
    <3>2. run' = run
      BY <2>0 DEF Book
    <3> QED BY <1>0, <3>1, <3>2
  <2>2. ASSUME NEW w \in Workers, Enter(w) \/ Lock(w) PROVE RunInv' /\ run' = run
    <3>1. run' = run
      BY <2>2 DEF Enter, Lock
    <3> QED BY <1>3, <2>2, <3>1, LockStep
  <2>3. ASSUME NEW w \in Workers, Executing(w)
        PROVE  RunInv' /\ (run.status = "completed" => SameDay)
    <3>1. CASE Commit(w)
      BY <1>3, <3>1, CommitStep
    <3>2. CASE ~Commit(w)
      <4>1. run' = run
        BY <2>3, <3>2
           DEF Executing, Begin, Mtm, PlLoad, BaselineLoad, BaselineLedger, Flush, RiskFlags
      <4>2. RunInv'
        BY <1>3, <2>3, <3>2, BeginStep, MtmStep, PlLoadStep, BaselineStep, FlushStep, RiskFlagsStep
           DEF Executing
      <4> QED BY <1>0, <4>1, <4>2
    <3> QED BY <3>1, <3>2
  <2> QED BY <1>0, <1>3, <2>0, <2>1, <2>2, <2>3 DEF Progress
<1>4. CASE UNCHANGED vars
  <2>1. /\ book' = book /\ pl' = pl /\ run' = run /\ wk' = wk /\ table' = table
    BY <1>4 DEF vars, finVars, mdVars
  <2>2. /\ book = [c \in Contracts |-> book[c]] /\ pl = [c \in Contracts |-> pl[c]]
        /\ \A c \in Contracts : book[c] = [status |-> book[c].status, terms |-> book[c].terms]
        /\ table = [d \in Days |-> table[d]]
    BY DEF RunInv, FinTypeOK
  <2> QED BY <1>0, <2>1, <2>2, OutsideStep
<1> QED BY <1>1, <1>2, <1>3, <1>4 DEF FinanceNext

(* The inductive invariant: one worker holds the run's row and works on the *)
(* run as committed, prices once read stay provable, and the contracts      *)
(* behind a step are dealt with.                                            *)
THEOREM RunInvHolds == FinanceSpec => []RunInv
BY FinanceInitInv, FinanceNextInv, PTL DEF FinanceSpec

(* A P&L snapshot's price stays the stored settlement of the last business  *)
(* day before the run date, for any calendar, any number of ingesters and   *)
(* any corrections of the provider's page.                                  *)
THEOREM SnapshotsProvableHolds == FinanceSpec => []SnapshotsProvable
<1>1. RunInv => SnapshotsProvable
  BY DEF RunInv, FinTypeOK, PricesProvable, Provable, SnapshotsProvable
<1> QED BY <1>1, RunInvHolds, PTL

(* A completed run leaves no active contract that was booked when its       *)
(* pl_snapshot step started without a snapshot or a flag, whatever workers  *)
(* crashed, failed a step or resumed a partial run before, and whatever was *)
(* booked, settled, amended or posted meanwhile.                            *)
THEOREM ClosedDayCoveredHolds == FinanceSpec => []ClosedDayCovered
<1>1. RunInv => ClosedDayCovered
  BY DEF RunInv, Coverage, ClosedDayCovered, Due, Steps
<1> QED BY <1>1, RunInvHolds, PTL

(* A completed run keeps its status, steps, flags and scope, although a     *)
(* second worker may have found it partial, waited for its row and closed   *)
(* it once more (run_daily_pipeline).                                       *)
THEOREM ClosedDayIsFinalHolds == FinanceSpec => ClosedDayIsFinal
<1>1. RunInv /\ [FinanceNext]_vars => [run.status = "completed" => SameDay]_vars
  BY FinanceNextInv
<1> QED BY <1>1, RunInvHolds, PTL DEF FinanceSpec, ClosedDayIsFinal, SameDay
=============================================================================
