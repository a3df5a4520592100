-------------------------- MODULE EmailQueueProofs --------------------------
(***************************************************************************)
(* Proofs about EmailQueue for every set of emails and controllers and     *)
(* every limit: type correctness, the accounting of emails, the ownership  *)
(* and the use of the worker thread; and what the queue makes of each      *)
(* email: how often the callback is invoked for it, that it is delivered   *)
(* at most once, how far the queue can grow beyond its limit, what the     *)
(* statistics say, that no retry comes early, the order of first attempts, *)
(* and that all of it together implements MailDelivery.                    *)
(***************************************************************************)
EXTENDS EmailQueueRefinement, FiniteSetTheorems, SequenceTheorems, TLAPS

(***************************************************************************)
(* Lemmas about the operators                                              *)
(***************************************************************************)
\* Powers of two are natural numbers: 2^n counts the subsets of 1..n.
LEMMA PowerType ==
  ASSUME NEW n \in Nat PROVE 2^n \in Nat
<1>1. IsFiniteSet(1..n) /\ Cardinality(1..n) = n
  BY FS_Interval
<1>2. QED
  BY <1>1, FS_SUBSET, FS_CardinalityType

\* The delay of a retry stays a number of ticks (updateRetryInfo).
LEMMA NextDelayType ==
  ASSUME NEW d \in Nat, NEW n \in Nat \ {0} PROVE NextDelay(d, n) \in Nat
<1>1. n - 1 \in Nat
  OBVIOUS
<1>2. 2^(n - 1) \in Nat
  BY <1>1, PowerType
<1> DEFINE p == 2^(n - 1)
<1> HIDE DEF p
<1>3. p \in Nat
  BY <1>2 DEF p
<1>4. d * p \in Nat
  BY <1>3
<1>5. NextDelay(d, n) \in {d * p, DelayCap}
  BY Zenon DEF NextDelay, p
<1>6. QED
  BY <1>4, <1>5, QueueAssumption

\* push_back adds one element.
LEMMA AppendRange ==
  ASSUME NEW S, NEW s \in Seq(S), NEW e \in S
  PROVE  /\ Range(Append(s, e)) = Range(s) \cup {e}
         /\ IsInjective(s) /\ e \notin Range(s) => IsInjective(Append(s, e))
<1> DEFINE t == Append(s, e)
<1>1. /\ DOMAIN s = 1..Len(s) /\ Len(s) \in Nat
      /\ DOMAIN t = 1..(Len(s) + 1)
      /\ \A i \in 1..Len(s) : t[i] = s[i]
      /\ t[Len(s) + 1] = e
  OBVIOUS
<1> HIDE DEF t
<1>2. \A x \in Range(t) : x \in Range(s) \cup {e}
  BY <1>1 DEF Range
<1>3. \A x \in Range(s) : x \in Range(t)
  BY <1>1 DEF Range
<1>4. e \in Range(t)
  BY <1>1, Len(s) + 1 \in DOMAIN t DEF Range
<1>5. IsInjective(s) /\ e \notin Range(s) => IsInjective(t)
  BY <1>1 DEF IsInjective, Range
<1>6. QED
  BY <1>2, <1>3, <1>4, <1>5 DEF t

\* Going on to the next item of the batch removes exactly the item in hand.
LEMMA TailRange ==
  ASSUME NEW S, NEW s \in Seq(S), s # <<>>, IsInjective(s)
  PROVE  /\ Range(Tail(s)) = Range(s) \ {Head(s)}
         /\ IsInjective(Tail(s))
         /\ Head(s) \in Range(s)
<1> DEFINE t == Tail(s)
<1>1. /\ DOMAIN s = 1..Len(s) /\ Len(s) \in Nat /\ Len(s) > 0 /\ Head(s) = s[1]
      /\ t \in Seq(S) /\ Len(t) = Len(s) - 1
      /\ DOMAIN t = 1..(Len(s) - 1)
      /\ \A i \in 1..(Len(s) - 1) : t[i] = s[i + 1]
  BY HeadTailProperties
<1> HIDE DEF t
<1>2. Head(s) \in Range(s)
  BY <1>1 DEF Range
<1>3. \A x \in Range(t) : x \in Range(s) \ {Head(s)}
  <2> SUFFICES ASSUME NEW i \in 1..(Len(s) - 1)
               PROVE  t[i] \in Range(s) \ {Head(s)}
    BY <1>1 DEF Range
  <2>1. t[i] = s[i + 1] /\ i + 1 \in DOMAIN s /\ 1 \in DOMAIN s /\ i + 1 # 1
    BY <1>1
  <2>2. QED
    BY <2>1, <1>1 DEF Range, IsInjective
<1>4. \A x \in Range(s) : x # Head(s) => x \in Range(t)
  <2> SUFFICES ASSUME NEW i \in 1..Len(s), s[i] # s[1]
               PROVE  s[i] \in Range(t)
    BY <1>1 DEF Range
  <2>1. i - 1 \in 1..(Len(s) - 1) /\ t[i - 1] = s[i]
    BY <1>1
  <2>2. QED
    BY <2>1, <1>1 DEF Range
<1>5. IsInjective(t)
  <2> SUFFICES ASSUME NEW i \in 1..(Len(s) - 1), NEW j \in 1..(Len(s) - 1), i # j
               PROVE  t[i] # t[j]
    BY <1>1 DEF IsInjective
  <2>1. QED
    BY <1>1, i + 1 \in DOMAIN s, j + 1 \in DOMAIN s, i + 1 # j + 1 DEF IsInjective
<1>6. QED
  BY <1>2, <1>3, <1>4, <1>5 DEF t

(***************************************************************************)
(* Type correctness                                                        *)
(***************************************************************************)
\* processEmail and the re-push have an item in hand.
HandInv == wpc \in {"calling", "requeue"} => batch # <<>>

TypeInv == TypeOK /\ HandInv

LEMMA ItemTypes ==
  ASSUME TypeOK
  PROVE  /\ \A p \in Priorities : NewItem(p) \in Items
         /\ \A e \in Emails : updateRetryInfo(item[e]) \in Items
<1>1. IsFiniteSet(Accepted)
  BY QueueAssumption, FS_Subset DEF Accepted
<1>2. Cardinality(Accepted) \in Nat
  BY <1>1, FS_CardinalityType
<1>3. \A p \in Priorities : NewItem(p) \in Items
  BY <1>2, QueueAssumption DEF NewItem, Items, Statuses
<1>4. ASSUME NEW e \in Emails PROVE updateRetryInfo(item[e]) \in Items
  <2>1. item[e] \in Items
    BY DEF TypeOK
  <2>2. /\ item[e].retry_count + 1 \in Nat \ {0}
        /\ item[e].retry_delay \in Nat
    BY <2>1 DEF Items
  <2>3. NextDelay(item[e].retry_delay, item[e].retry_count + 1) \in Nat
    BY <2>2, NextDelayType
  <2>4. QED
    BY <2>1, <2>2, <2>3 DEF updateRetryInfo, Items
<1>5. QED
  BY <1>3, <1>4

\* The item in hand and what processEmail makes of it.
LEMMA HandTypes ==
  ASSUME TypeOK, batch # <<>>
  PROVE  /\ Head(batch) \in Emails /\ Tail(batch) \in Seq(Emails)
         /\ \A st \in Statuses : [item EXCEPT ![Head(batch)].status = st] \in [Emails -> Items]
         /\ [item EXCEPT ![Head(batch)].status = "PROCESSING",
                         ![Head(batch)].elapsed = 0] \in [Emails -> Items]
         /\ [item EXCEPT ![Head(batch)] = [updateRetryInfo(@) EXCEPT !.status = "RETRY"]]
              \in [Emails -> Items]
<1>1. Head(batch) \in Emails /\ Tail(batch) \in Seq(Emails)
  BY HeadTailProperties DEF TypeOK
<1>2. item[Head(batch)] \in Items /\ item \in [Emails -> Items]
  BY <1>1 DEF TypeOK
<1>3. updateRetryInfo(item[Head(batch)]) \in Items
  BY <1>1, ItemTypes
<1> HIDE DEF updateRetryInfo
<1>4. \A q \in Items, st \in Statuses : [q EXCEPT !.status = st] \in Items
  BY DEF Items
<1>5. \A q \in Items : [[q EXCEPT !.status = "PROCESSING"] EXCEPT !.elapsed = 0] \in Items
  BY DEF Items, Statuses
<1>6. "RETRY" \in Statuses
  BY DEF Statuses
<1>7. \A st \in Statuses : [item EXCEPT ![Head(batch)].status = st] \in [Emails -> Items]
  BY <1>1, <1>2, <1>4
<1>8. [item EXCEPT ![Head(batch)] = [updateRetryInfo(@) EXCEPT !.status = "RETRY"]]
              \in [Emails -> Items]
  BY <1>1, <1>2, <1>3, <1>4, <1>6
<1>9. [item EXCEPT ![Head(batch)].status = "PROCESSING", ![Head(batch)].elapsed = 0]
              \in [Emails -> Items]
  BY <1>1, <1>2, <1>5
<1>10. QED
  BY <1>1, <1>7, <1>8, <1>9

LEMMA CallerType ==
  ASSUME TypeInv, Caller PROVE TypeInv'
<1> USE DEF TypeInv, HandInv
<1>1. ASSUME NEW e \in Emails, NEW p \in Priorities, Enqueue(e, p) PROVE TypeInv'
  <2>1. NewItem(p) \in Items
    BY ItemTypes
  <2>2. item' \in [Emails -> Items] /\ queue' \subseteq Emails
    BY <1>1, <2>1 DEF Enqueue, TypeOK
  <2>3. wpc' = wpc \/ wpc' = "woken"
    BY <1>1 DEF Enqueue, NotifyWorker
  <2>4. QED
    BY <1>1, <2>2, <2>3 DEF Enqueue, TypeOK, WorkerPoints, controlVars, counterVars, historyVars
<1>2. ASSUME NEW e \in Emails, EnqueueRejected(e) PROVE TypeInv'
  BY <1>2 DEF EnqueueRejected, TypeOK, queueVars, workerVars, controlVars, counterVars
<1>3. ASSUME NEW e \in Emails, Dequeue(e) PROVE TypeInv'
  BY <1>3 DEF Dequeue, PopTop, TypeOK, workerVars, controlVars, counterVars
<1>4. QED
  BY <1>1, <1>2, <1>3 DEF Caller

LEMMA ControllerType ==
  ASSUME TypeInv, NEW c \in Controllers, ControllerCall(c) \/ ControllerStep(c)
  PROVE  TypeInv'
<1> USE DEF TypeInv, HandInv, TypeOK, Go, ControllerPoints, WorkerPoints,
            queueVars, workerVars, counterVars, historyVars
<1>1. CASE SetSendCallback(c) BY <1>1 DEF SetSendCallback
<1>2. CASE StartCheck(c) BY <1>2 DEF StartCheck
<1>3. CASE StopCheck(c) BY <1>3 DEF StopCheck
<1>4. CASE DestroyBegin(c) BY <1>4 DEF DestroyBegin
<1>5. CASE StartSet(c) BY <1>5 DEF StartSet
<1>6. CASE StartSpawn(c) BY <1>6 DEF StartSpawn
<1>7. CASE StopSet(c) BY <1>7 DEF StopSet
<1>8. CASE StopNotify(c) BY <1>8 DEF StopNotify, NotifyWorker
<1>9. CASE StopJoinable(c) BY <1>9 DEF StopJoinable
<1>10. CASE JoinEnter(c) BY <1>10 DEF JoinEnter
<1>11. CASE JoinReturn(c) BY <1>11 DEF JoinReturn, Joined
<1>12. QED
  BY <1>1, <1>2, <1>3, <1>4, <1>5, <1>6, <1>7, <1>8, <1>9, <1>10, <1>11
     DEF ControllerCall, ControllerStep

\* A round of the gathering loop moves one item from the queue to the batch, or
\* none.
LEMMA GatherStep ==
  ASSUME WorkerGather
  PROVE  \E e \in queue :
           \/ queue' = queue /\ batch' = batch
           \/ queue' = queue \ {e} /\ batch' = Append(batch, e)
<1>1. PICK e \in queue :
        \/ IsTop(e) /\ NotReady(e) /\ UNCHANGED <<queue, batch>>
        \/ PopTop(e) /\ ~NotReady(e) /\ batch' = Append(batch, e)
  BY Zenon DEF WorkerGather
<1>2. \/ queue' = queue /\ batch' = batch
      \/ queue' = queue \ {e} /\ batch' = Append(batch, e)
  BY <1>1 DEF PopTop
<1>3. QED
  BY <1>2

LEMMA WorkerType ==
  ASSUME TypeInv, WorkerStep \/ SpuriousWakeup PROVE TypeInv'
<1> USE DEF TypeInv, HandInv, WorkerGo, WorkerOnly, WorkerPoints,
            queueVars, controlVars, counterVars, historyVars
<1>1. CASE WorkerCheck BY <1>1 DEF WorkerCheck, TypeOK
<1>2. CASE WorkerLock BY <1>2 DEF WorkerLock, TypeOK
<1>3. CASE WorkerBlock BY <1>3 DEF WorkerBlock, TypeOK
<1>4. CASE SpuriousWakeup BY <1>4 DEF SpuriousWakeup, TypeOK
<1>5. CASE WorkerReady BY <1>5 DEF WorkerReady, TypeOK
<1>6. CASE WorkerGather
  <2>1. tries' \in 0..BatchSize
    BY <1>6, QueueAssumption DEF WorkerGather, MoreToGather, TypeOK
  <2>2. queue' \subseteq Emails /\ batch' \in Seq(Emails)
    <3>1. PICK e \in queue :
            \/ queue' = queue /\ batch' = batch
            \/ queue' = queue \ {e} /\ batch' = Append(batch, e)
      BY <1>6, GatherStep
    <3>2. queue \subseteq Emails /\ e \in Emails /\ batch \in Seq(Emails)
      BY DEF TypeOK
    <3>3. QED
      BY <3>1, <3>2
  <2>3. wpc' = "gather" /\ UNCHANGED <<controlVars, item, counterVars, historyVars>>
    BY <1>6 DEF WorkerGather
  <2>4. QED
    BY <2>1, <2>2, <2>3 DEF TypeOK
<1>7. CASE WorkerUnlock BY <1>7, QueueAssumption DEF WorkerUnlock, TypeOK
<1>8. CASE BatchDone BY <1>8 DEF BatchDone, TypeOK
<1>9. CASE BatchAbandoned
  <2>1. dropped' \subseteq Emails
    BY <1>9 DEF BatchAbandoned, InBatch, Range, TypeOK
  <2>2. QED
    BY <1>9, <2>1 DEF BatchAbandoned, TypeOK
<1>10. ASSUME MarkFailed, batch # <<>>, WorkerGo(wpc, "process") PROVE TypeInv'
  <2>1. item' \in [Emails -> Items] /\ batch' \in Seq(Emails)
    BY <1>10, HandTypes DEF MarkFailed, Verdict, Statuses
  <2>2. failures' \in Nat
    BY <1>10 DEF MarkFailed, TypeOK
  <2>3. QED
    BY <1>10, <2>1, <2>2 DEF MarkFailed, Verdict, TypeOK
<1>11. CASE SendUnconfigured BY <1>10, <1>11 DEF SendUnconfigured
<1>12. CASE SendFails BY <1>10, <1>12 DEF SendFails
<1>13. CASE SendThrows BY <1>10, <1>13 DEF SendThrows
<1>14. CASE SendBegin
  <2>1. item' \in [Emails -> Items] /\ attempts' \in [Emails -> Nat]
    BY <1>14, HandTypes DEF SendBegin, TypeOK
  <2>2. QED
    BY <1>14, <2>1 DEF SendBegin, TypeOK
<1>15. CASE SendSucceeds
  <2>1. item' \in [Emails -> Items] /\ batch' \in Seq(Emails)
    BY <1>15, HandTypes DEF SendSucceeds, Verdict, Statuses
  <2>2. delivered' \in [Emails -> Nat] /\ processed' \in Nat
    BY <1>15, HandTypes DEF SendSucceeds, Deliver, TypeOK
  <2>3. QED
    BY <1>15, <2>1, <2>2 DEF SendSucceeds, Verdict, Deliver, TypeOK
<1>16. CASE SendRetry
  <2>1. item' \in [Emails -> Items] /\ retries' \in Nat
    BY <1>16, HandTypes, SMTT(30) DEF SendRetry, TypeOK
  <2>2. QED
    BY <1>16, <2>1 DEF SendRetry, TypeOK
<1>17. CASE Requeue
  <2>1. queue' \subseteq Emails /\ batch' \in Seq(Emails)
    BY <1>17, HandTypes DEF Requeue, TypeOK
  <2>2. QED
    BY <1>17, <2>1 DEF Requeue, TypeOK
<1>18. QED
  BY <1>1, <1>2, <1>3, <1>4, <1>5, <1>6, <1>7, <1>8, <1>9, <1>11, <1>12, <1>13,
     <1>14, <1>15, <1>16, <1>17
     DEF WorkerStep, ProcessStep

LEMMA TickType ==
  ASSUME TypeInv, Tick PROVE TypeInv'
<1>1. \A q \in Items : [q EXCEPT !.elapsed = @ + 1] \in Items
  BY DEF Items
<1>2. item' \in [Emails -> Items]
  BY <1>1 DEF Tick, TypeInv, TypeOK
<1>3. QED
  BY <1>2 DEF Tick, TypeInv, TypeOK, HandInv, workerVars, controlVars, counterVars,
              historyVars

LEMMA NextType ==
  ASSUME TypeInv, [Next]_vars PROVE TypeInv'
<1>1. CASE DestroyEnd
  BY <1>1 DEF DestroyEnd, TypeInv, TypeOK, HandInv, queueVars, workerVars, counterVars,
              historyVars
<1>2. CASE UNCHANGED vars
  BY <1>2 DEF vars, TypeInv, TypeOK, HandInv, queueVars, workerVars, controlVars,
              counterVars, historyVars
<1>3. QED
  BY <1>1, <1>2, CallerType, ControllerType, WorkerType, TickType DEF Next

LEMMA InitType == Init => TypeInv
<1>1. NoItem \in Items
  BY QueueAssumption DEF NoItem, Items, Statuses
<1>2. ASSUME Init PROVE item \in [Emails -> Items] /\ tries \in 0..BatchSize
  BY <1>1, <1>2, QueueAssumption DEF Init
<1>3. ASSUME Init PROVE batch \in Seq(Emails)
  BY <1>3 DEF Init
<1>4. ASSUME Init PROVE /\ cpc \in [Controllers -> ControllerPoints]
                        /\ attempts \in [Emails -> Nat] /\ delivered \in [Emails -> Nat]
  BY <1>4 DEF Init, ControllerPoints
<1>5. ASSUME Init PROVE TypeInv
  <2>1. wpc \in WorkerPoints /\ HandInv
    BY <1>5 DEF Init, WorkerPoints, HandInv
  <2>2. QED
    BY <1>2, <1>3, <1>4, <1>5, <2>1 DEF Init, TypeInv, TypeOK
<1>6. QED
  BY <1>5

\* Type correctness: the variables of the queue keep the types the code gives
\* them, and the worker has an item in hand whenever it processes one.
THEOREM TypeCorrect == Spec => []TypeOK
<1>1. Spec => []TypeInv
  BY InitType, NextType, PTL DEF Spec
<1>2. TypeInv => TypeOK
  BY DEF TypeInv
<1>3. QED
  BY <1>1, <1>2, PTL

(***************************************************************************)
(* The worker thread has an owner                                          *)
(***************************************************************************)
\* A step of the worker is made by a live worker and leaves the handle alone.
LEMMA WorkerSteps ==
  ASSUME WorkerStep \/ SpuriousWakeup
  PROVE  wpc # "exited" /\ UNCHANGED controlVars
BY DEF WorkerStep, ProcessStep, WorkerCheck, WorkerLock, WorkerBlock, WorkerReady,
       WorkerGather, WorkerUnlock, BatchDone, BatchAbandoned, SendUnconfigured,
       SendBegin, SendSucceeds, SendFails, SendThrows, SendRetry, Requeue,
       SpuriousWakeup, WorkerOnly, WorkerGo

LEMMA OwnedStep ==
  ASSUME OwnedWorker, [Next]_vars PROVE OwnedWorker'
<1> USE DEF OwnedWorker
<1>1. CASE Caller
  BY <1>1 DEF Caller, Enqueue, EnqueueRejected, Dequeue, NotifyWorker, workerVars,
              controlVars
<1>2. ASSUME NEW c \in Controllers, ControllerCall(c) \/ ControllerStep(c)
      PROVE  OwnedWorker'
  BY <1>2 DEF ControllerCall, ControllerStep, SetSendCallback, StartCheck, StopCheck,
              DestroyBegin, StartSet, StartSpawn, StopSet, StopNotify, StopJoinable,
              JoinEnter, JoinReturn, Joined, NotifyWorker, workerVars
<1>3. CASE WorkerStep \/ SpuriousWakeup
  BY <1>3, WorkerSteps DEF controlVars
<1>4. CASE DestroyEnd \/ Tick \/ UNCHANGED vars
  BY <1>4 DEF DestroyEnd, Tick, vars, workerVars, controlVars
<1>5. QED
  BY <1>1, <1>2, <1>3, <1>4 DEF Next

\* A controller moves the worker only by starting it or by ending its wait.
LEMMA ControllerMovesWorker ==
  ASSUME OwnedWorker, NEW c \in Controllers, ControllerCall(c) \/ ControllerStep(c)
  PROVE  wpc' = wpc \/ (wpc = "exited" /\ wpc' = "check") \/ (wpc = "waiting" /\ wpc' = "woken")
<1>1. CASE StartSpawn(c)
  BY <1>1, Zenon DEF StartSpawn, OwnedWorker
<1>2. CASE StopNotify(c)
  BY <1>2 DEF StopNotify, NotifyWorker
<1>3. CASE ControllerCall(c)
  BY <1>3 DEF ControllerCall, SetSendCallback, StartCheck, StopCheck, DestroyBegin,
              workerVars
<1>4. CASE StartSet(c) \/ StopSet(c) \/ StopJoinable(c) \/ JoinEnter(c) \/ JoinReturn(c)
  BY <1>4 DEF StartSet, StopSet, StopJoinable, JoinEnter, JoinReturn
<1>5. QED
  BY <1>1, <1>2, <1>3, <1>4 DEF ControllerStep

\* At most one worker thread runs for the queue, and whoever stops the queue
\* can join it: for any number of threads that race in start() and stop().
THEOREM WorkerOwned == Spec => []OwnedWorker
<1>1. Init => OwnedWorker
  BY DEF Init, OwnedWorker
<1>2. QED
  BY <1>1, OwnedStep, PTL DEF Spec

(***************************************************************************)
(* The accounting of emails                                                *)
(***************************************************************************)
Waiting(e) == item[e].status \in {"PENDING", "RETRY"}

\* The inductive form of Accounted: the status of an item tells its place.
PlacesInv ==
  /\ \A e \in queue \cup taken \cup dropped : Waiting(e)
  /\ \A e \in InBatch : IF wpc = "calling" /\ e = Head(batch)
                        THEN item[e].status = "PROCESSING"
                        ELSE Waiting(e)
  /\ \A e \in Emails : item[e].status \in {"PENDING", "RETRY", "PROCESSING"}
                         => e \in queue \cup InBatch \cup taken \cup dropped
  /\ queue \cap InBatch = {}
  /\ (queue \cup InBatch) \cap (taken \cup dropped) = {}
  /\ taken \cap dropped = {}
  /\ IsInjective(batch)
  /\ rejected \cap Accepted = {}

LEMMA PlacesAccount ==
  ASSUME TypeInv, PlacesInv PROVE Accounted
<1>1. InBatch \subseteq Emails
  BY DEF InBatch, Range, TypeInv, TypeOK
<1>2. \A e \in Emails : item[e].status \in Statuses
  BY DEF TypeInv, TypeOK, Items
<1>3. \A e \in InBatch : item[e].status \in {"PENDING", "RETRY", "PROCESSING"}
  BY DEF PlacesInv, Waiting
<1>4. \A e \in queue \cup taken \cup dropped : item[e].status \in {"PENDING", "RETRY"}
  BY DEF PlacesInv, Waiting
<1>5. /\ queue \subseteq Emails /\ taken \subseteq Emails /\ dropped \subseteq Emails
  BY DEF TypeInv, TypeOK
<1>6. Accepted = queue \cup InBatch \cup Sent \cup Failed \cup taken \cup dropped
  BY <1>1, <1>2, <1>3, <1>4, <1>5 DEF Accepted, Sent, Failed, Statuses, PlacesInv
<1>7. /\ queue \cap (Sent \cup Failed) = {}
      /\ InBatch \cap (Sent \cup Failed) = {}
      /\ (Sent \cup Failed) \cap (taken \cup dropped) = {}
  BY <1>3, <1>4 DEF Sent, Failed
<1>8. QED
  BY <1>6, <1>7 DEF Accounted, PlacesInv

\* A step that moves no email and starts or ends no send.
LEMMA PlacesFrame ==
  ASSUME PlacesInv,
         UNCHANGED <<queue, batch, taken, dropped, rejected>>,
         \A e \in Emails : item'[e].status = item[e].status,
         queue \cup taken \cup dropped \cup InBatch \subseteq Emails,
         (wpc' = "calling") <=> (wpc = "calling")
  PROVE  PlacesInv'
<1>1. InBatch' = InBatch /\ Accepted' = Accepted
  BY DEF InBatch, Accepted
<1>2. QED
  BY <1>1 DEF PlacesInv, Waiting

LEMMA Located ==
  ASSUME TypeInv PROVE queue \cup taken \cup dropped \cup InBatch \subseteq Emails
BY DEF TypeInv, TypeOK, InBatch, Range

LEMMA CallerPlaces ==
  ASSUME TypeInv, PlacesInv, Caller PROVE PlacesInv'
<1>1. ASSUME NEW e \in Emails, NEW p \in Priorities, Enqueue(e, p) PROVE PlacesInv'
  <2>1. item[e].status = "NONE" /\ e \notin rejected /\ wpc # "gather"
    BY <1>1 DEF Enqueue, Fresh, Accepted, WorkerHoldsMutex
  <2>2. e \notin queue \cup InBatch \cup taken \cup dropped
    BY <2>1 DEF PlacesInv, Waiting
  <2>3. /\ \A f \in Emails : f # e => item'[f] = item[f]
        /\ item'[e].status = "PENDING"
    BY <1>1 DEF Enqueue, NewItem, TypeInv, TypeOK
  <2>4. (wpc' = "calling") <=> (wpc = "calling")
    BY <1>1 DEF Enqueue, NotifyWorker
  <2>5. /\ queue' = queue \cup {e}
        /\ UNCHANGED <<batch, taken, dropped, rejected>>
        /\ InBatch' = InBatch
    BY <1>1 DEF Enqueue, historyVars, InBatch
  <2>6. Accepted' = Accepted \cup {e}
    BY <2>3 DEF Accepted
  <2>7. QED
    BY <2>1, <2>2, <2>3, <2>4, <2>5, <2>6, Located DEF PlacesInv, Waiting
<1>2. ASSUME NEW e \in Emails, EnqueueRejected(e) PROVE PlacesInv'
  BY <1>2 DEF EnqueueRejected, Fresh, PlacesInv, Waiting, InBatch, Accepted, queueVars,
              workerVars
<1>3. ASSUME NEW e \in Emails, Dequeue(e) PROVE PlacesInv'
  <2>1. /\ e \in queue /\ queue' = queue \ {e} /\ taken' = taken \cup {e}
        /\ UNCHANGED <<item, batch, dropped, rejected, wpc>>
        /\ InBatch' = InBatch /\ Accepted' = Accepted
    BY <1>3 DEF Dequeue, PopTop, IsTop, workerVars, InBatch, Accepted
  <2>2. QED
    BY <2>1 DEF PlacesInv, Waiting
<1>4. QED
  BY <1>1, <1>2, <1>3 DEF Caller

LEMMA ControllerPlaces ==
  ASSUME TypeInv, PlacesInv, OwnedWorker,
         NEW c \in Controllers, ControllerCall(c) \/ ControllerStep(c)
  PROVE  PlacesInv'
<1>1. UNCHANGED <<queueVars, historyVars>>
  BY DEF ControllerCall, ControllerStep, SetSendCallback, StartCheck, StopCheck,
         DestroyBegin, StartSet, StartSpawn, StopSet, StopNotify, StopJoinable,
         JoinEnter, JoinReturn, Go
<1>2. (wpc' = "calling") <=> (wpc = "calling")
  BY ControllerMovesWorker
<1>3. QED
  BY <1>1, <1>2, Located, PlacesFrame DEF queueVars, historyVars

\* A verdict removes the item in hand from the batch and from the accounting.
LEMMA VerdictPlaces ==
  ASSUME TypeInv, PlacesInv, batch # <<>>, NEW st \in {"SENT", "FAILED"}, Verdict(st),
         WorkerGo(wpc, "process")
  PROVE  PlacesInv'
<1> DEFINE h == Head(batch)
<1>1. /\ h \in InBatch /\ h \in Emails
      /\ InBatch' = InBatch \ {h}
      /\ IsInjective(batch')
  BY TailRange, HeadTailProperties DEF Verdict, TypeInv, TypeOK, PlacesInv, InBatch
<1>2. /\ \A f \in Emails : f # h => item'[f] = item[f]
      /\ item'[h].status = st
  BY <1>1 DEF Verdict, TypeInv, TypeOK, Items
<1>3. UNCHANGED <<queue, taken, dropped, rejected>> /\ wpc' = "process"
  BY DEF Verdict, WorkerGo
<1>4. Accepted' = Accepted
  <2>1. item[h].status # "NONE"
    BY <1>1 DEF PlacesInv, Waiting
  <2>2. QED
    BY <1>1, <1>2, <2>1 DEF Accepted
<1> HIDE DEF h
<1>5. \A e \in InBatch' : Waiting(e)'
  BY <1>1, <1>2, Located DEF PlacesInv, Waiting, h
<1>6. \A e \in (queue \cup taken \cup dropped)' : Waiting(e)'
  BY <1>1, <1>2, <1>3, Located DEF PlacesInv, Waiting
<1>7. \A e \in Emails : item'[e].status \in {"PENDING", "RETRY", "PROCESSING"}
                          => e \in (queue \cup InBatch \cup taken \cup dropped)'
  BY <1>1, <1>2, <1>3 DEF PlacesInv
<1>8. QED
  BY <1>1, <1>3, <1>4, <1>5, <1>6, <1>7 DEF PlacesInv

LEMMA GatherPlaces ==
  ASSUME TypeInv, PlacesInv, WorkerGather PROVE PlacesInv'
<1>1. PICK e \in queue :
        \/ queue' = queue /\ batch' = batch
        \/ queue' = queue \ {e} /\ batch' = Append(batch, e)
  BY GatherStep
<1>2. UNCHANGED <<item, taken, dropped, rejected>> /\ wpc = "gather" /\ wpc' = "gather"
  BY DEF WorkerGather, WorkerGo, historyVars
<1>3. CASE queue' = queue /\ batch' = batch
  BY <1>2, <1>3, Located, PlacesFrame
<1>4. CASE queue' = queue \ {e} /\ batch' = Append(batch, e)
  <2>1. e \in Emails /\ batch \in Seq(Emails) /\ e \notin Range(batch)
    BY DEF TypeInv, TypeOK, PlacesInv, InBatch
  <2>2. InBatch' = InBatch \cup {e} /\ IsInjective(batch')
    BY <1>4, <2>1, AppendRange DEF InBatch, PlacesInv
  <2>3. Accepted' = Accepted
    BY <1>2 DEF Accepted
  <2>4. QED
    BY <1>2, <1>4, <2>1, <2>2, <2>3 DEF PlacesInv, Waiting
<1>5. QED
  BY <1>1, <1>3, <1>4

LEMMA AbandonPlaces ==
  ASSUME TypeInv, PlacesInv, BatchAbandoned PROVE PlacesInv'
<1>1. /\ UNCHANGED <<queue, item, taken, rejected>>
      /\ dropped' = dropped \cup InBatch /\ batch' = <<>> /\ wpc = "process" /\ wpc' = "check"
  BY DEF BatchAbandoned, WorkerGo
<1>2. InBatch' = {} /\ IsInjective(batch') /\ Accepted' = Accepted
  BY <1>1 DEF InBatch, Range, IsInjective, Accepted
<1>3. \A e \in InBatch : Waiting(e)
  BY <1>1 DEF PlacesInv
<1>4. QED
  BY <1>1, <1>2, <1>3 DEF PlacesInv, Waiting

\* The steps between taking an item in hand and its verdict or re-push.
LEMMA SendPlaces ==
  ASSUME TypeInv, PlacesInv, SendBegin \/ SendRetry \/ Requeue PROVE PlacesInv'
<1> DEFINE h == Head(batch)
<1>1. batch # <<>>
  BY DEF SendBegin, SendRetry, Requeue, TypeInv, HandInv, WorkerGo
<1>2. /\ h \in InBatch /\ h \in Emails
      /\ Range(Tail(batch)) = InBatch \ {h} /\ IsInjective(Tail(batch))
  BY <1>1, TailRange, HeadTailProperties DEF TypeInv, TypeOK, PlacesInv, InBatch
<1>3. item \in [Emails -> Items] /\ item[h].status # "NONE"
  BY <1>2 DEF PlacesInv, Waiting, TypeInv, TypeOK
<1>4. CASE SendBegin
  <2>1. /\ \A f \in Emails : f # h => item'[f] = item[f]
        /\ item'[h].status = "PROCESSING"
    BY <1>2, <1>3, <1>4 DEF SendBegin, Items
  <2>2. /\ UNCHANGED <<queue, batch, taken, dropped, rejected>> /\ InBatch' = InBatch
        /\ wpc = "process" /\ wpc' = "calling" /\ Head(batch') = h
    BY <1>4 DEF SendBegin, WorkerGo, InBatch
  <2>3. Accepted' = Accepted
    BY <1>2, <1>3, <2>1 DEF Accepted
  <2> HIDE DEF h
  <2>4. QED
    BY <1>2, <2>1, <2>2, <2>3, Located DEF PlacesInv, Waiting
<1>5. CASE SendRetry
  <2>1. /\ \A f \in Emails : f # h => item'[f] = item[f]
        /\ item'[h].status = "RETRY"
    <3>1. updateRetryInfo(item[h]) \in Items
      BY <1>2, ItemTypes DEF TypeInv
    <3>2. item' = [item EXCEPT ![h] = [updateRetryInfo(item[h]) EXCEPT !.status = "RETRY"]]
      BY <1>5 DEF SendRetry
    <3> HIDE DEF h, updateRetryInfo
    <3>3. QED
      BY <1>2, <1>3, <3>1, <3>2 DEF Items
  <2>2. /\ UNCHANGED <<queue, batch, taken, dropped, rejected>> /\ InBatch' = InBatch
        /\ wpc = "calling" /\ wpc' = "requeue" /\ Head(batch') = h
    BY <1>5 DEF SendRetry, WorkerGo, InBatch, historyVars
  <2>3. Accepted' = Accepted
    BY <1>2, <1>3, <2>1 DEF Accepted
  <2>4. \A e \in InBatch : e # h => Waiting(e)
    BY <2>2 DEF PlacesInv
  <2> HIDE DEF h
  <2>5. QED
    BY <1>2, <2>1, <2>2, <2>3, <2>4, Located DEF PlacesInv, Waiting
<1>6. CASE Requeue
  <2>1. /\ queue' = queue \cup {h} /\ InBatch' = InBatch \ {h} /\ IsInjective(batch')
        /\ UNCHANGED <<item, taken, dropped, rejected>>
        /\ wpc = "requeue" /\ wpc' = "process" /\ Accepted' = Accepted
    BY <1>2, <1>6 DEF Requeue, WorkerGo, InBatch, historyVars, Accepted
  <2>2. \A e \in InBatch : Waiting(e)
    BY <2>1 DEF PlacesInv
  <2> HIDE DEF h
  <2>3. QED
    BY <1>2, <2>1, <2>2 DEF PlacesInv, Waiting
<1>7. QED
  BY <1>4, <1>5, <1>6

LEMMA WorkerPlaces ==
  ASSUME TypeInv, PlacesInv, WorkerStep \/ SpuriousWakeup PROVE PlacesInv'
<1>1. CASE WorkerCheck \/ WorkerLock \/ WorkerBlock \/ SpuriousWakeup \/ WorkerReady
           \/ WorkerUnlock \/ BatchDone
  <2>1. UNCHANGED <<queueVars, historyVars>>
    BY <1>1 DEF WorkerCheck, WorkerLock, WorkerBlock, SpuriousWakeup, WorkerReady,
                WorkerUnlock, BatchDone, WorkerOnly
  <2>2. wpc # "calling" /\ wpc' # "calling"
    BY <1>1 DEF WorkerCheck, WorkerLock, WorkerBlock, SpuriousWakeup, WorkerReady,
                WorkerUnlock, BatchDone, WorkerOnly, WorkerGo
  <2>3. QED
    BY <2>1, <2>2, Located, PlacesFrame DEF queueVars, historyVars
<1>2. CASE SendUnconfigured \/ SendFails \/ SendThrows \/ SendSucceeds
  <2>1. batch # <<>> /\ WorkerGo(wpc, "process")
    BY <1>2 DEF SendUnconfigured, SendFails, SendThrows, SendSucceeds, WorkerGo, TypeInv,
                HandInv
  <2>2. Verdict("FAILED") \/ Verdict("SENT")
    BY <1>2 DEF SendUnconfigured, SendFails, SendThrows, SendSucceeds, MarkFailed
  <2>3. QED
    BY <2>1, <2>2, VerdictPlaces
<1>3. QED
  BY <1>1, <1>2, GatherPlaces, AbandonPlaces, SendPlaces DEF WorkerStep, ProcessStep

\* The emails of a destroyed queue change their place together.
LEMMA DestroyPlaces ==
  ASSUME TypeInv, PlacesInv, DestroyEnd PROVE PlacesInv'
<1>1. UNCHANGED <<item, batch, taken, rejected, wpc>>
  BY DEF DestroyEnd, workerVars
<1>2. InBatch' = InBatch /\ Accepted' = Accepted
  BY <1>1 DEF InBatch, Accepted
<1>3. \/ queue' = queue /\ dropped' = dropped
      \/ queue' = {} /\ dropped' = dropped \cup queue
  BY DEF DestroyEnd
<1>4. QED
  BY <1>1, <1>2, <1>3 DEF PlacesInv, Waiting

LEMMA NextPlaces ==
  ASSUME TypeInv, PlacesInv, OwnedWorker, [Next]_vars PROVE PlacesInv'
<1>1. CASE UNCHANGED vars
  BY <1>1, Located, PlacesFrame DEF vars, queueVars, workerVars, historyVars
<1>2. CASE Tick
  <2>1. \A e \in Emails : item'[e].status = item[e].status
    BY <1>2 DEF Tick, TypeInv, TypeOK, Items
  <2>2. QED
    BY <1>2, <2>1, Located, PlacesFrame DEF Tick, workerVars, historyVars
<1>3. QED
  BY <1>1, <1>2, CallerPlaces, ControllerPlaces, DestroyPlaces, WorkerPlaces DEF Next

LEMMA InitPlaces == Init => PlacesInv
<1> SUFFICES ASSUME Init PROVE PlacesInv
  OBVIOUS
<1>1. InBatch = {} /\ IsInjective(batch) /\ Accepted = {}
  BY DEF Init, InBatch, Range, IsInjective, Accepted, NoItem
<1>2. \A e \in Emails : item[e].status = "NONE"
  BY DEF Init, NoItem
<1>3. QED
  BY <1>1, <1>2 DEF Init, PlacesInv

\* No email is lost or duplicated: every accepted email is in exactly one place,
\* whatever threads run and whenever the queue is stopped.
THEOREM EmailsAccounted == Spec => []Accounted
<1>1. Init => TypeInv /\ OwnedWorker /\ PlacesInv
  BY InitType, InitPlaces DEF Init, OwnedWorker
<1>2. TypeInv /\ OwnedWorker /\ PlacesInv /\ [Next]_vars
        => (TypeInv /\ OwnedWorker /\ PlacesInv)'
  BY NextType, OwnedStep, NextPlaces
<1>3. TypeInv /\ PlacesInv => Accounted
  BY PlacesAccount
<1>4. QED
  BY <1>1, <1>2, <1>3, PTL DEF Spec

(***************************************************************************)
(* The thread object, when one thread at a time controls the queue, as the *)
(* programs of the repository do: start() and stop() then never misuse it, *)
(* and a stop leaves no worker behind.                                     *)
(***************************************************************************)
\* Where the controller is tells running_ and the handle.
ControlInv ==
  /\ ~fault
  /\ \A c \in Controllers :
       CASE cpc[c] = "idle"        -> running = handle
         [] cpc[c] = "start_set"   -> ~running /\ ~handle
         [] cpc[c] = "start_spawn" -> running /\ ~handle
         [] cpc[c] = "stop_set"    -> running /\ handle
         [] OTHER                  -> ~running /\ handle
  /\ life # "alive" => \A c \in Controllers : cpc[c] = "idle" => ~running
  /\ life # "alive" => \A c \in Controllers : cpc[c] \notin {"start_set", "start_spawn"}
  /\ life = "destroyed" => \A c \in Controllers : cpc[c] = "idle"

OneController == \A c, d \in Controllers : c = d

\* The steps of the controller itself.
LEMMA ControllerControl ==
  ASSUME OneController, TypeInv, ControlInv,
         NEW c \in Controllers, ControllerCall(c) \/ ControllerStep(c)
  PROVE  ControlInv'
<1>1. /\ \A d \in Controllers : d = c
      /\ cpc \in [Controllers -> ControllerPoints]
      /\ running \in BOOLEAN /\ handle \in BOOLEAN
  BY DEF OneController, TypeInv, TypeOK
<1> USE <1>1 DEF ControlInv, Go, ControllerPoints
<1>2. CASE SetSendCallback(c) BY <1>2 DEF SetSendCallback
<1>3. CASE StartCheck(c) BY <1>3 DEF StartCheck
<1>4. CASE StopCheck(c) BY <1>4 DEF StopCheck
<1>5. CASE DestroyBegin(c) BY <1>5 DEF DestroyBegin, AllIdle
<1>6. CASE StartSet(c) BY <1>6 DEF StartSet
<1>7. CASE StartSpawn(c) BY <1>7 DEF StartSpawn
<1>8. CASE StopSet(c) BY <1>8 DEF StopSet
<1>9. CASE StopNotify(c) BY <1>9 DEF StopNotify
<1>10. CASE StopJoinable(c) BY <1>10 DEF StopJoinable
<1>11. CASE JoinEnter(c) BY <1>11 DEF JoinEnter
<1>12. CASE JoinReturn(c) BY <1>12 DEF JoinReturn, Joined
<1>13. QED
  BY <1>2, <1>3, <1>4, <1>5, <1>6, <1>7, <1>8, <1>9, <1>10, <1>11, <1>12
     DEF ControllerCall, ControllerStep

LEMMA NextControl ==
  ASSUME OneController, Controllers # {}, TypeInv, ControlInv, [Next]_vars
  PROVE  ControlInv'
<1>1. CASE Caller
  <2>1. UNCHANGED controlVars
    BY <1>1 DEF Caller, Enqueue, EnqueueRejected, Dequeue
  <2>2. QED
    BY <2>1 DEF ControlInv, controlVars
<1>2. CASE WorkerStep \/ SpuriousWakeup
  BY <1>2, WorkerSteps DEF ControlInv, controlVars
<1>3. CASE Tick \/ UNCHANGED vars
  BY <1>3 DEF Tick, vars, ControlInv, controlVars
<1>4. CASE DestroyEnd
  BY <1>4 DEF DestroyEnd, AllIdle, ControlInv, TypeInv, TypeOK
<1>5. QED
  BY <1>1, <1>2, <1>3, <1>4, ControllerControl DEF Next

LEMMA InitControl == Init => ControlInv
BY DEF Init, ControlInv

\* With one controlling thread the std::thread is never assigned over, joined
\* twice or destroyed while joinable, whatever the order of start, stop and
\* destruction and wherever the worker is.
THEOREM ThreadUsedProperly ==
  ASSUME OneController, Controllers # {}
  PROVE  Spec => []NoThreadFault
<1>1. Init => TypeInv /\ ControlInv
  BY InitType, InitControl
<1>2. TypeInv /\ ControlInv /\ [Next]_vars => (TypeInv /\ ControlInv)'
  BY NextType, NextControl
<1>3. ControlInv => NoThreadFault
  BY DEF ControlInv, NoThreadFault
<1>4. QED
  BY <1>1, <1>2, <1>3, PTL DEF Spec

\* With one controlling thread no worker is left when stop() has returned or the
\* queue is destroyed.
THEOREM StopLeavesNoWorker ==
  ASSUME OneController, Controllers # {}
  PROVE  Spec => []NoWorkerAfterStop
<1>1. Init => TypeInv /\ OwnedWorker /\ ControlInv
  BY InitType, InitControl DEF Init, OwnedWorker
<1>2. TypeInv /\ OwnedWorker /\ ControlInv /\ [Next]_vars
        => (TypeInv /\ OwnedWorker /\ ControlInv)'
  BY NextType, OwnedStep, NextControl
<1>3. TypeInv /\ OwnedWorker /\ ControlInv => NoWorkerAfterStop
  <2> SUFFICES ASSUME TypeInv, OwnedWorker, ControlInv,
                      life = "destroyed" \/ (~running /\ \A c \in Controllers : cpc[c] = "idle")
               PROVE  wpc = "exited"
    BY DEF NoWorkerAfterStop
  <2>1. ~running /\ \A c \in Controllers : cpc[c] = "idle"
    BY DEF ControlInv
  <2>2. ~handle
    BY <2>1 DEF ControlInv, TypeInv, TypeOK
  <2>3. QED
    BY <2>2 DEF OwnedWorker
<1>4. QED
  BY <1>1, <1>2, <1>3, PTL DEF Spec

(***************************************************************************)
(* Attempts and deliveries                                                 *)
(***************************************************************************)
\* What the record of an email says of its attempts and deliveries.
SendsAgree(q, a, d) ==
  /\ q.retry_count <= MaxRetries
  /\ a \in {q.retry_count, q.retry_count + 1}
  /\ q.status \in {"NONE", "PENDING"} => q.retry_count = 0 /\ a = 0
  /\ q.status = "RETRY" => q.retry_count > 0
  /\ q.status \in {"PENDING", "RETRY"} => a = q.retry_count
  /\ q.status \in {"PROCESSING", "SENT"} => a = q.retry_count + 1
  /\ d = IF q.status = "SENT" THEN 1 ELSE 0

SendInv == \A e \in Emails : SendsAgree(item[e], attempts[e], delivered[e])

LEMMA SendInvImplies ==
  SendInv => AttemptsFollowRetries /\ DeliveredOnce
BY DEF SendInv, SendsAgree, AttemptsFollowRetries, DeliveredOnce

\* A step that attempts and delivers nothing and keeps what SendsAgree reads.
LEMMA SendFrame ==
  ASSUME SendInv, UNCHANGED <<attempts, delivered>>,
         \A e \in Emails : /\ item'[e].status = item[e].status
                           /\ item'[e].retry_count = item[e].retry_count
  PROVE  SendInv'
BY DEF SendInv, SendsAgree

\* A step of one email.
LEMMA SendOne ==
  ASSUME SendInv, NEW h \in Emails,
         \A f \in Emails : f # h => /\ item'[f] = item[f]
                                    /\ attempts'[f] = attempts[f]
                                    /\ delivered'[f] = delivered[f],
         SendsAgree(item'[h], attempts'[h], delivered'[h])
  PROVE  SendInv'
BY DEF SendInv, SendsAgree

\* The item in hand, when the callback runs and when it does not.
LEMMA InHand ==
  ASSUME TypeInv, PlacesInv, batch # <<>>
  PROVE  LET h == Head(batch) IN
         /\ h \in Emails /\ h \in InBatch /\ item[h] \in Items
         /\ attempts[h] \in Nat /\ delivered[h] \in Nat
         /\ wpc = "calling" => item[h].status = "PROCESSING"
         /\ wpc # "calling" => item[h].status \in {"PENDING", "RETRY"}
<1>1. Head(batch) \in Emails /\ Head(batch) \in InBatch
  BY TailRange, HeadTailProperties DEF TypeInv, TypeOK, PlacesInv, InBatch
<1>2. QED
  BY <1>1 DEF TypeInv, TypeOK, PlacesInv, Waiting

LEMMA SendSteps ==
  ASSUME TypeInv, PlacesInv, SendInv,
         SendUnconfigured \/ SendBegin \/ SendSucceeds \/ SendFails \/ SendThrows
           \/ SendRetry
  PROVE  SendInv'
<1> DEFINE h == Head(batch)
<1>1. batch # <<>>
  BY DEF SendUnconfigured, SendBegin, SendSucceeds, SendFails, SendThrows, SendRetry,
         TypeInv, HandInv, WorkerGo
<1>2. /\ h \in Emails /\ item[h] \in Items /\ attempts[h] \in Nat /\ delivered[h] \in Nat
      /\ wpc = "calling" => item[h].status = "PROCESSING"
      /\ wpc # "calling" => item[h].status \in {"PENDING", "RETRY"}
  BY <1>1, InHand
<1>3. SendsAgree(item[h], attempts[h], delivered[h])
  BY <1>2 DEF SendInv
<1>4. /\ item \in [Emails -> Items] /\ attempts \in [Emails -> Nat]
      /\ delivered \in [Emails -> Nat]
  BY DEF TypeInv, TypeOK
<1>5. CASE SendUnconfigured \/ SendFails \/ SendThrows
  <2>1. /\ item' = [item EXCEPT ![h].status = "FAILED"]
        /\ UNCHANGED <<attempts, delivered>>
    BY <1>5 DEF SendUnconfigured, SendFails, SendThrows, MarkFailed, Verdict
  <2> HIDE DEF h
  <2>2. /\ \A f \in Emails : f # h => item'[f] = item[f]
        /\ item'[h].status = "FAILED" /\ item'[h].retry_count = item[h].retry_count
    BY <1>2, <1>4, <2>1 DEF Items
  <2>3. delivered[h] = 0
    BY <1>2, <1>3 DEF SendsAgree
  <2>4. SendsAgree(item'[h], attempts'[h], delivered'[h])
    BY <1>3, <2>1, <2>2, <2>3 DEF SendsAgree
  <2>5. QED
    BY <1>2, <2>1, <2>2, <2>4, SendOne
<1>6. CASE SendBegin
  <2>1. /\ item' = [item EXCEPT ![h].status = "PROCESSING", ![h].elapsed = 0]
        /\ attempts' = [attempts EXCEPT ![h] = @ + 1]
        /\ delivered' = delivered /\ wpc = "process"
    BY <1>6 DEF SendBegin, WorkerGo
  <2> HIDE DEF h
  <2>2. /\ \A f \in Emails : f # h => item'[f] = item[f] /\ attempts'[f] = attempts[f]
        /\ item'[h].status = "PROCESSING" /\ item'[h].retry_count = item[h].retry_count
        /\ attempts'[h] = attempts[h] + 1
    BY <1>2, <1>4, <2>1 DEF Items
  <2>3. attempts[h] = item[h].retry_count /\ delivered[h] = 0
    BY <1>2, <1>3, <2>1 DEF SendsAgree
  <2>4. SendsAgree(item'[h], attempts'[h], delivered'[h])
    BY <1>3, <2>1, <2>2, <2>3 DEF SendsAgree
  <2>5. QED
    BY <1>2, <2>1, <2>2, <2>4, SendOne
<1>7. CASE SendSucceeds
  <2>1. /\ item' = [item EXCEPT ![h].status = "SENT"]
        /\ delivered' = [delivered EXCEPT ![h] = @ + 1]
        /\ attempts' = attempts /\ wpc = "calling"
    BY <1>7 DEF SendSucceeds, Verdict, Deliver, WorkerGo
  <2> HIDE DEF h
  <2>2. /\ \A f \in Emails : f # h => item'[f] = item[f] /\ delivered'[f] = delivered[f]
        /\ item'[h].status = "SENT" /\ item'[h].retry_count = item[h].retry_count
        /\ delivered'[h] = delivered[h] + 1
    BY <1>2, <1>4, <2>1 DEF Items
  <2>3. attempts[h] = item[h].retry_count + 1 /\ delivered[h] = 0
    BY <1>2, <1>3, <2>1 DEF SendsAgree
  <2>4. SendsAgree(item'[h], attempts'[h], delivered'[h])
    BY <1>3, <2>1, <2>2, <2>3 DEF SendsAgree
  <2>5. QED
    BY <1>2, <2>1, <2>2, <2>4, SendOne
<1>8. CASE SendRetry
  <2>1. /\ item' = [item EXCEPT ![h] = [updateRetryInfo(item[h]) EXCEPT !.status = "RETRY"]]
        /\ UNCHANGED <<attempts, delivered>> /\ wpc = "calling"
        /\ item[h].retry_count < MaxRetries
    BY <1>8 DEF SendRetry, WorkerGo, historyVars, shouldRetry
  <2>2. updateRetryInfo(item[h]) \in Items
    BY <1>2, ItemTypes DEF TypeInv
  <2>3. updateRetryInfo(item[h]).retry_count = item[h].retry_count + 1
    BY <1>2 DEF updateRetryInfo, Items
  <2> HIDE DEF h, updateRetryInfo
  <2>4. /\ \A f \in Emails : f # h => item'[f] = item[f]
        /\ item'[h].status = "RETRY" /\ item'[h].retry_count = item[h].retry_count + 1
    BY <1>2, <1>4, <2>1, <2>2, <2>3 DEF Items
  <2>5. attempts[h] = item[h].retry_count + 1 /\ delivered[h] = 0
    BY <1>2, <1>3, <2>1 DEF SendsAgree
  <2>6. item[h].retry_count + 1 <= MaxRetries /\ item[h].retry_count + 1 > 0
    BY <1>2, <2>1, QueueAssumption DEF Items
  <2>7. SendsAgree(item'[h], attempts'[h], delivered'[h])
    BY <2>1, <2>4, <2>5, <2>6 DEF SendsAgree
  <2>8. QED
    BY <1>2, <2>1, <2>4, <2>7, SendOne
<1>9. QED
  BY <1>5, <1>6, <1>7, <1>8

LEMMA NextSend ==
  ASSUME TypeInv, PlacesInv, SendInv, [Next]_vars PROVE SendInv'
<1>1. ASSUME NEW e \in Emails, NEW p \in Priorities, Enqueue(e, p) PROVE SendInv'
  <2>1. item[e].status = "NONE" /\ UNCHANGED <<attempts, delivered>>
    BY <1>1 DEF Enqueue, Fresh, Accepted, historyVars
  <2>2. /\ \A f \in Emails : f # e => item'[f] = item[f]
        /\ item'[e].status = "PENDING" /\ item'[e].retry_count = 0
    BY <1>1 DEF Enqueue, NewItem, TypeInv, TypeOK
  <2>3. SendsAgree(item'[e], attempts'[e], delivered'[e])
    BY <2>1, <2>2, QueueAssumption DEF SendInv, SendsAgree
  <2>4. QED
    BY <2>1, <2>2, <2>3, SendOne
<1>2. CASE UNCHANGED <<item, attempts, delivered>>
  BY <1>2, SendFrame
<1>3. ASSUME NEW e \in Emails, EnqueueRejected(e) \/ Dequeue(e) PROVE SendInv'
  BY <1>2, <1>3 DEF EnqueueRejected, Dequeue, queueVars
<1>4. ASSUME NEW c \in Controllers, ControllerCall(c) \/ ControllerStep(c) PROVE SendInv'
  <2>1. UNCHANGED <<queueVars, historyVars>>
    BY <1>4 DEF ControllerCall, ControllerStep, SetSendCallback, StartCheck, StopCheck,
           DestroyBegin, StartSet, StartSpawn, StopSet, StopNotify, StopJoinable,
           JoinEnter, JoinReturn, Go
  <2>2. QED
    BY <1>2, <2>1 DEF queueVars, historyVars
<1>5. CASE DestroyEnd \/ UNCHANGED vars
  BY <1>2, <1>5 DEF DestroyEnd, vars, queueVars, historyVars
<1>6. CASE Tick
  <2>1. \A e \in Emails : /\ item'[e].status = item[e].status
                          /\ item'[e].retry_count = item[e].retry_count
    BY <1>6 DEF Tick, TypeInv, TypeOK, Items
  <2>2. QED
    BY <1>6, <2>1, SendFrame DEF Tick, historyVars
<1>7. CASE WorkerCheck \/ WorkerLock \/ WorkerBlock \/ SpuriousWakeup \/ WorkerReady
           \/ WorkerGather \/ WorkerUnlock \/ BatchDone \/ BatchAbandoned \/ Requeue
  <2>1. UNCHANGED <<item, attempts, delivered>>
    BY <1>7 DEF WorkerCheck, WorkerLock, WorkerBlock, SpuriousWakeup, WorkerReady,
                WorkerGather, WorkerUnlock, BatchDone, BatchAbandoned, Requeue,
                WorkerOnly, queueVars, historyVars
  <2>2. QED
    BY <1>2, <2>1
<1>8. QED
  BY <1>1, <1>3, <1>4, <1>5, <1>6, <1>7, SendSteps
     DEF Next, Caller, WorkerStep, ProcessStep

LEMMA InitSend == Init => SendInv
BY QueueAssumption DEF Init, NoItem, SendInv, SendsAgree

\* The inductive invariant of the sends rests on the place of each email: only
\* the item in hand is attempted, and only while it waits.
LEMMA SendsInvariant ==
  Spec => [](TypeInv /\ OwnedWorker /\ PlacesInv /\ SendInv)
<1>1. Init => TypeInv /\ OwnedWorker /\ PlacesInv /\ SendInv
  BY InitType, InitPlaces, InitSend DEF Init, OwnedWorker
<1>2. TypeInv /\ OwnedWorker /\ PlacesInv /\ SendInv /\ [Next]_vars
        => (TypeInv /\ OwnedWorker /\ PlacesInv /\ SendInv)'
  BY NextType, OwnedStep, NextPlaces, NextSend
<1>3. QED
  BY <1>1, <1>2, PTL DEF Spec

\* No email is attempted more than max_retries + 1 times, and the number of
\* attempts is the number of its retries, or one more while its last attempt is
\* pending or final.
THEOREM AttemptsCounted == Spec => []AttemptsFollowRetries
BY SendsInvariant, SendInvImplies, PTL

\* No email is delivered twice by the queue.
THEOREM AtMostOneDelivery == Spec => []DeliveredOnce
BY SendsInvariant, SendInvImplies, PTL

(***************************************************************************)
(* The bound on the queue                                                  *)
(***************************************************************************)
\* The worker has a batch only between the wait and the end of its processing,
\* and gathers no more items than it makes rounds.
BatchInv ==
  /\ Len(batch) <= BatchSize
  /\ wpc = "gather" => Len(batch) <= tries
  /\ wpc # "gather" => tries = 0
  /\ wpc \notin {"gather", "process", "calling", "requeue"} => batch = <<>>

SizeInv == BatchInv /\ QueueBound

LEMMA QueueFinite ==
  ASSUME TypeInv PROVE IsFiniteSet(queue) /\ Cardinality(queue) \in Nat
BY QueueAssumption, FS_Subset, FS_CardinalityType DEF TypeInv, TypeOK

\* One more email adds at most one to the size.
LEMMA AddOne ==
  ASSUME NEW S, IsFiniteSet(S), NEW x
  PROVE  Cardinality(S \cup {x}) \in Nat /\ Cardinality(S \cup {x}) <= Cardinality(S) + 1
<1>1. Cardinality(S) \in Nat
  BY FS_CardinalityType
<1>2. Cardinality(S \cup {x}) = IF x \in S THEN Cardinality(S) ELSE Cardinality(S) + 1
  BY FS_AddElement
<1>3. CASE x \in S
  BY <1>1, <1>2, <1>3
<1>4. CASE x \notin S
  BY <1>1, <1>2, <1>4
<1>5. QED
  BY <1>3, <1>4

\* A step that moves no email, and moves the worker only where its batch may go.
LEMMA SizeFrame ==
  ASSUME SizeInv, UNCHANGED <<queue, batch, tries>>,
         \/ wpc' = wpc
         \/ /\ wpc # "gather" /\ wpc' # "gather"
            /\ batch = <<>> \/ wpc' \in {"process", "calling", "requeue"}
  PROVE  SizeInv'
BY DEF SizeInv, BatchInv, QueueBound

LEMMA CallerSize ==
  ASSUME TypeInv, SizeInv, Caller PROVE SizeInv'
<1>1. IsFiniteSet(queue) /\ Cardinality(queue) \in Nat /\ Len(batch) \in Nat
  BY QueueFinite DEF TypeInv, TypeOK
<1>2. ASSUME NEW e \in Emails, NEW p \in Priorities, Enqueue(e, p) PROVE SizeInv'
  <2>1. /\ queue' = queue \cup {e} /\ UNCHANGED <<batch, tries>>
        /\ Cardinality(queue) < MaxQueueSize
        /\ wpc' = wpc \/ (wpc = "waiting" /\ wpc' = "woken")
    BY <1>1, <1>2, QueueAssumption DEF Enqueue, QueueFull, NotifyWorker
  <2>2. Cardinality(queue') <= Cardinality(queue) + 1 /\ Cardinality(queue') \in Nat
    BY <1>1, <2>1, AddOne
  <2>3. Len(batch) <= BatchSize
    BY DEF SizeInv, BatchInv
  <2>4. QueueBound'
    BY <1>1, <2>1, <2>2, <2>3, QueueAssumption DEF QueueBound
  <2>5. BatchInv'
    BY <2>1 DEF SizeInv, BatchInv
  <2>6. QED
    BY <2>4, <2>5 DEF SizeInv
<1>3. ASSUME NEW e \in Emails, EnqueueRejected(e) PROVE SizeInv'
  BY <1>3, SizeFrame DEF EnqueueRejected, queueVars, workerVars
<1>4. ASSUME NEW e \in Emails, Dequeue(e) PROVE SizeInv'
  <2>1. queue' = queue \ {e} /\ e \in queue /\ UNCHANGED <<batch, tries, wpc>>
    BY <1>4 DEF Dequeue, PopTop, IsTop, workerVars
  <2>2. Cardinality(queue') = Cardinality(queue) - 1
    BY <1>1, <2>1, FS_RemoveElement
  <2>3. QED
    BY <1>1, <2>1, <2>2, QueueAssumption DEF SizeInv, BatchInv, QueueBound
<1>5. QED
  BY <1>2, <1>3, <1>4 DEF Caller

LEMMA ControllerSize ==
  ASSUME OwnedWorker, SizeInv, NEW c \in Controllers,
         ControllerCall(c) \/ ControllerStep(c)
  PROVE  SizeInv'
<1>1. UNCHANGED <<queueVars, tries>>
  BY DEF ControllerCall, ControllerStep, SetSendCallback, StartCheck, StopCheck,
         DestroyBegin, StartSet, StartSpawn, StopSet, StopNotify, StopJoinable,
         JoinEnter, JoinReturn, Go, workerVars
<1>2. wpc' = wpc \/ (wpc = "exited" /\ wpc' = "check") \/ (wpc = "waiting" /\ wpc' = "woken")
  BY ControllerMovesWorker
<1>3. wpc \in {"exited", "waiting"} => batch = <<>>
  BY DEF SizeInv, BatchInv
<1>4. QED
  BY <1>1, <1>2, <1>3, SizeFrame DEF queueVars

\* The worker moves emails between queue and batch; what leaves one of them
\* enters the other or nothing.
LEMMA WorkerSize ==
  ASSUME TypeInv, PlacesInv, SizeInv, WorkerStep \/ SpuriousWakeup PROVE SizeInv'
<1>1. /\ IsFiniteSet(queue) /\ Cardinality(queue) \in Nat
      /\ batch \in Seq(Emails) /\ Len(batch) \in Nat /\ tries \in Nat
  BY QueueFinite DEF TypeInv, TypeOK
<1>2. CASE WorkerCheck \/ WorkerLock \/ WorkerBlock \/ SpuriousWakeup
  <2>1. /\ UNCHANGED <<queue, batch, tries>> /\ wpc # "gather" /\ wpc' # "gather"
        /\ batch = <<>>
    BY <1>2 DEF WorkerCheck, WorkerLock, WorkerBlock, SpuriousWakeup, WorkerOnly, WorkerGo,
                queueVars, SizeInv, BatchInv
  <2>2. QED
    BY <2>1, SizeFrame
<1>3. CASE WorkerReady
  BY <1>3, QueueAssumption DEF WorkerReady, WorkerOnly, WorkerGo, queueVars, SizeInv,
                               BatchInv, QueueBound
<1>4. CASE WorkerGather
  <2>1. PICK e \in queue :
          \/ queue' = queue /\ batch' = batch
          \/ queue' = queue \ {e} /\ batch' = Append(batch, e)
    BY <1>4, GatherStep
  <2>2. /\ wpc = "gather" /\ wpc' = "gather" /\ tries' = tries + 1 /\ tries < BatchSize
    BY <1>4 DEF WorkerGather, WorkerGo, MoreToGather
  <2>3. Cardinality(queue \ {e}) = Cardinality(queue) - 1
    BY <1>1, FS_RemoveElement
  <2>4. Len(Append(batch, e)) = Len(batch) + 1
    BY <1>1
  <2>5. /\ Len(batch) <= tries
        /\ Cardinality(queue) + Len(batch) <= MaxQueueSize + BatchSize
    BY <2>2 DEF SizeInv, BatchInv, QueueBound
  <2>6. /\ Len(batch') \in Nat /\ Len(batch') <= Len(batch) + 1
        /\ Cardinality(queue') + Len(batch') = Cardinality(queue) + Len(batch)
    <3>1. CASE queue' = queue /\ batch' = batch
      BY <1>1, <3>1
    <3>2. CASE queue' = queue \ {e} /\ batch' = Append(batch, e)
      <4> DEFINE k == Cardinality(queue)  n == Len(batch)
      <4>1. Cardinality(queue') = k - 1 /\ Len(batch') = n + 1 /\ k \in Nat /\ n \in Nat
        BY <1>1, <2>3, <2>4, <3>2
      <4> HIDE DEF k, n
      <4>2. (k - 1) + (n + 1) = k + n /\ n + 1 \in Nat /\ n + 1 <= n + 1
        BY <4>1
      <4>3. QED
        BY <4>1, <4>2 DEF k, n
    <3>3. QED
      BY <2>1, <3>1, <3>2
  <2>7. QED
    BY <1>1, <2>2, <2>5, <2>6, QueueAssumption DEF SizeInv, BatchInv, QueueBound
<1>5. CASE WorkerUnlock
  BY <1>5 DEF WorkerUnlock, WorkerGo, queueVars, SizeInv, BatchInv, QueueBound
<1>6. CASE BatchDone
  BY <1>6, SizeFrame DEF BatchDone, WorkerOnly, WorkerGo, queueVars
<1>7. CASE BatchAbandoned
  BY <1>1, <1>7, QueueAssumption DEF BatchAbandoned, WorkerGo, SizeInv, BatchInv, QueueBound
<1>8. CASE SendBegin \/ SendRetry
  BY <1>8, SizeFrame DEF SendBegin, SendRetry, WorkerGo
<1>9. ASSUME batch # <<>>, batch' = Tail(batch), tries' = tries,
             wpc \in {"process", "calling", "requeue"}, wpc' = "process",
             \/ queue' = queue
             \/ queue' = queue \cup {Head(batch)}
      PROVE  SizeInv'
  <2>1. Len(batch') \in Nat /\ Len(batch') = Len(batch) - 1
    BY <1>1, <1>9
  <2>2. Cardinality(queue') \in Nat /\ Cardinality(queue') <= Cardinality(queue) + 1
    <3>1. CASE queue' = queue
      BY <1>1, <3>1
    <3>2. CASE queue' = queue \cup {Head(batch)}
      BY <1>1, <3>2, AddOne
    <3>3. QED
      BY <1>9, <3>1, <3>2
  <2>3. QED
    BY <1>1, <1>9, <2>1, <2>2, QueueAssumption DEF SizeInv, BatchInv, QueueBound
<1>10. CASE SendUnconfigured \/ SendSucceeds \/ SendFails \/ SendThrows
  <2>1. batch # <<>> /\ wpc \in {"process", "calling"} /\ wpc' = "process"
    BY <1>10 DEF SendUnconfigured, SendSucceeds, SendFails, SendThrows, WorkerGo, TypeInv,
                 HandInv
  <2>2. batch' = Tail(batch) /\ UNCHANGED <<queue, tries>>
    BY <1>10 DEF SendUnconfigured, SendSucceeds, SendFails, SendThrows, MarkFailed, Verdict
  <2>3. QED
    BY <1>9, <2>1, <2>2
<1>11. CASE Requeue
  <2>1. batch # <<>> /\ wpc = "requeue" /\ wpc' = "process"
    BY <1>11 DEF Requeue, WorkerGo, TypeInv, HandInv
  <2>2. batch' = Tail(batch) /\ tries' = tries /\ queue' = queue \cup {Head(batch)}
    BY <1>11 DEF Requeue
  <2>3. QED
    BY <1>9, <2>1, <2>2
<1>12. QED
  BY <1>2, <1>3, <1>4, <1>5, <1>6, <1>7, <1>8, <1>10, <1>11 DEF WorkerStep, ProcessStep

LEMMA NextSize ==
  ASSUME TypeInv, OwnedWorker, PlacesInv, SizeInv, [Next]_vars PROVE SizeInv'
<1>1. CASE Tick \/ UNCHANGED vars
  BY <1>1, SizeFrame DEF Tick, vars, queueVars, workerVars
<1>2. CASE DestroyEnd
  <2>1. UNCHANGED <<batch, tries, wpc>> /\ (queue' = queue \/ queue' = {})
    BY <1>2 DEF DestroyEnd, workerVars
  <2>2. CASE queue' = queue
    BY <2>1, <2>2, SizeFrame
  <2>3. CASE queue' = {}
    <3>1. Cardinality(queue') = 0 /\ Cardinality(queue) \in Nat /\ Len(batch) \in Nat
      BY <2>3, FS_EmptySet, QueueFinite DEF TypeInv, TypeOK
    <3>2. QED
      BY <2>1, <3>1, QueueAssumption DEF SizeInv, BatchInv, QueueBound
  <2>4. QED
    BY <2>1, <2>2, <2>3
<1>3. QED
  BY <1>1, <1>2, CallerSize, ControllerSize, WorkerSize DEF Next

LEMMA InitSize == Init => SizeInv
BY QueueAssumption, FS_EmptySet DEF Init, SizeInv, BatchInv, QueueBound

\* The queue exceeds max_queue_size_ by at most one batch, for every limit and
\* batch size, although a retry is pushed back without a look at the limit.
THEOREM QueueBounded == Spec => []QueueBound
<1>1. Init => TypeInv /\ OwnedWorker /\ PlacesInv /\ SizeInv
  BY InitType, InitPlaces, InitSize DEF Init, OwnedWorker
<1>2. TypeInv /\ OwnedWorker /\ PlacesInv /\ SizeInv /\ [Next]_vars
        => (TypeInv /\ OwnedWorker /\ PlacesInv /\ SizeInv)'
  BY NextType, OwnedStep, NextPlaces, NextSize
<1>3. SizeInv => QueueBound
  BY DEF SizeInv
<1>4. QED
  BY <1>1, <1>2, <1>3, PTL DEF Spec

(***************************************************************************)
(* Statistics                                                              *)
(***************************************************************************)
\* What a step makes of the status of an email: a verdict is final, and is given
\* by three steps, to the item in hand.
LEMMA StatusKinds ==
  ASSUME TypeInv, PlacesInv, [Next]_vars
  PROVE  \/ /\ UNCHANGED <<processed, failures>>
            /\ \A e \in Emails : \A st \in {"SENT", "FAILED"} :
                 item'[e].status = st <=> item[e].status = st
         \/ /\ batch # <<>> /\ processed' = processed + 1 /\ UNCHANGED failures
            /\ item' = [item EXCEPT ![Head(batch)].status = "SENT"]
         \/ /\ batch # <<>> /\ failures' = failures + 1 /\ UNCHANGED processed
            /\ item' = [item EXCEPT ![Head(batch)].status = "FAILED"]
<1> DEFINE Quiet == /\ UNCHANGED <<processed, failures>>
                    /\ \A e \in Emails : \A st \in {"SENT", "FAILED"} :
                         item'[e].status = st <=> item[e].status = st
           h == Head(batch)
<1>1. UNCHANGED <<item, processed, failures>> => Quiet
  OBVIOUS
<1>2. item \in [Emails -> Items]
  BY DEF TypeInv, TypeOK
<1>3. ASSUME NEW e \in Emails, NEW p \in Priorities, Enqueue(e, p) PROVE Quiet
  BY <1>2, <1>3 DEF Enqueue, Fresh, Accepted, NewItem, counterVars
<1>4. ASSUME NEW e \in Emails, EnqueueRejected(e) \/ Dequeue(e) PROVE Quiet
  BY <1>1, <1>4 DEF EnqueueRejected, Dequeue, queueVars, counterVars
<1>5. ASSUME NEW c \in Controllers, ControllerCall(c) \/ ControllerStep(c) PROVE Quiet
  <2>1. UNCHANGED <<queueVars, counterVars>>
    BY <1>5 DEF ControllerCall, ControllerStep, SetSendCallback, StartCheck, StopCheck,
           DestroyBegin, StartSet, StartSpawn, StopSet, StopNotify, StopJoinable,
           JoinEnter, JoinReturn, Go
  <2>2. QED
    BY <1>1, <2>1 DEF queueVars, counterVars
<1>6. CASE DestroyEnd \/ UNCHANGED vars
  BY <1>1, <1>6 DEF DestroyEnd, vars, queueVars, counterVars
<1>7. CASE Tick
  BY <1>2, <1>7 DEF Tick, Items, counterVars
<1>8. CASE WorkerCheck \/ WorkerLock \/ WorkerBlock \/ SpuriousWakeup \/ WorkerReady
           \/ WorkerGather \/ WorkerUnlock \/ BatchDone \/ BatchAbandoned \/ Requeue
  <2>1. UNCHANGED <<item, counterVars>>
    BY <1>8 DEF WorkerCheck, WorkerLock, WorkerBlock, SpuriousWakeup, WorkerReady,
                WorkerGather, WorkerUnlock, BatchDone, BatchAbandoned, Requeue,
                WorkerOnly, queueVars
  <2>2. QED
    BY <1>1, <2>1 DEF counterVars
<1>9. CASE SendBegin \/ SendRetry
  <2>1. batch # <<>>
    BY <1>9 DEF SendBegin, SendRetry, TypeInv, HandInv, WorkerGo
  <2>2. h \in Emails /\ item[h] \in Items /\ item[h].status \in {"PENDING", "RETRY", "PROCESSING"}
    BY <2>1, InHand
  <2>3. UNCHANGED <<processed, failures>>
    BY <1>9 DEF SendBegin, SendRetry, counterVars
  <2>4. \/ item' = [item EXCEPT ![h].status = "PROCESSING", ![h].elapsed = 0]
        \/ item' = [item EXCEPT ![h] = [updateRetryInfo(item[h]) EXCEPT !.status = "RETRY"]]
    BY <1>9 DEF SendBegin, SendRetry
  <2>5. updateRetryInfo(item[h]) \in Items
    BY <2>2, ItemTypes DEF TypeInv
  <2> HIDE DEF h, updateRetryInfo
  <2>6. /\ \A e \in Emails : e # h => item'[e] = item[e]
        /\ item'[h].status \in {"PROCESSING", "RETRY"}
    <3>1. CASE item' = [item EXCEPT ![h].status = "PROCESSING", ![h].elapsed = 0]
      BY <1>2, <2>2, <3>1 DEF Items
    <3>2. CASE item' = [item EXCEPT ![h] = [updateRetryInfo(item[h]) EXCEPT !.status = "RETRY"]]
      BY <1>2, <2>2, <2>5, <3>2 DEF Items
    <3>3. QED
      BY <2>4, <3>1, <3>2
  <2>7. QED
    BY <2>2, <2>3, <2>6
<1>10. CASE SendUnconfigured \/ SendFails \/ SendThrows
  <2>1. batch # <<>>
    BY <1>10 DEF SendUnconfigured, SendFails, SendThrows, TypeInv, HandInv, WorkerGo
  <2>2. QED
    BY <1>10, <2>1 DEF SendUnconfigured, SendFails, SendThrows, MarkFailed, Verdict
<1>11. CASE SendSucceeds
  <2>1. batch # <<>>
    BY <1>11 DEF SendSucceeds, TypeInv, HandInv, WorkerGo
  <2>2. QED
    BY <1>11, <2>1 DEF SendSucceeds, Deliver, Verdict
<1>12. QED
  BY <1>3, <1>4, <1>5, <1>6, <1>7, <1>8, <1>9, <1>10, <1>11
     DEF Next, Caller, WorkerStep, ProcessStep

LEMMA NextStatistics ==
  ASSUME TypeInv, PlacesInv, StatisticsAgree, [Next]_vars PROVE StatisticsAgree'
<1> DEFINE h == Head(batch)
<1>1. /\ IsFiniteSet(Sent) /\ Cardinality(Sent) \in Nat
      /\ IsFiniteSet(Failed) /\ Cardinality(Failed) \in Nat
  BY QueueAssumption, FS_Subset, FS_CardinalityType DEF Sent, Failed
<1>2. item \in [Emails -> Items]
  BY DEF TypeInv, TypeOK
<1>3. batch # <<>> => /\ h \in Emails /\ item[h] \in Items
                      /\ item[h].status \in {"PENDING", "RETRY", "PROCESSING"}
  BY InHand
<1>4. CASE /\ UNCHANGED <<processed, failures>>
           /\ \A e \in Emails : \A st \in {"SENT", "FAILED"} :
                item'[e].status = st <=> item[e].status = st
  <2>1. Sent' = Sent /\ Failed' = Failed
    BY <1>4 DEF Sent, Failed
  <2>2. QED
    BY <1>4, <2>1 DEF StatisticsAgree
<1>5. CASE /\ batch # <<>> /\ processed' = processed + 1 /\ UNCHANGED failures
           /\ item' = [item EXCEPT ![h].status = "SENT"]
  <2> HIDE DEF h
  <2>1. Sent' = Sent \cup {h} /\ h \notin Sent /\ Failed' = Failed
    BY <1>2, <1>3, <1>5 DEF Sent, Failed, Items
  <2>2. Cardinality(Sent') = Cardinality(Sent) + 1
    BY <1>1, <2>1, FS_AddElement
  <2>3. QED
    BY <1>5, <2>1, <2>2 DEF StatisticsAgree
<1>6. CASE /\ batch # <<>> /\ failures' = failures + 1 /\ UNCHANGED processed
           /\ item' = [item EXCEPT ![h].status = "FAILED"]
  <2> HIDE DEF h
  <2>1. Failed' = Failed \cup {h} /\ h \notin Failed /\ Sent' = Sent
    BY <1>2, <1>3, <1>6 DEF Sent, Failed, Items
  <2>2. Cardinality(Failed') = Cardinality(Failed) + 1
    BY <1>1, <2>1, FS_AddElement
  <2>3. QED
    BY <1>6, <2>1, <2>2 DEF StatisticsAgree
<1>7. QED
  BY <1>4, <1>5, <1>6, StatusKinds

\* The statistics count each sent and each failed email once, for any number of
\* emails, retries, stops and restarts.
THEOREM StatisticsTrue == Spec => []StatisticsAgree
<1>1. Init => StatisticsAgree
  <2> SUFFICES ASSUME Init PROVE StatisticsAgree
    OBVIOUS
  <2>1. Sent = {} /\ Failed = {} /\ processed = 0 /\ failures = 0
    BY DEF Init, NoItem, Sent, Failed
  <2>2. QED
    BY <2>1, FS_EmptySet DEF StatisticsAgree
<1>2. QED
  BY <1>1, SendsInvariant, NextStatistics, PTL DEF Spec

(***************************************************************************)
(* The delay of a retry                                                    *)
(***************************************************************************)
\* What is in the batch was ready when it was gathered and stays so; only an item
\* that has just failed is not, and it is on its way back to the queue.
ReadyInv ==
  /\ wpc = "requeue" => item[Head(batch)].status = "RETRY"
  /\ \A e \in InBatch : (wpc = "requeue" /\ e = Head(batch)) \/ ~NotReady(e)

LEMMA ReadyFrame ==
  ASSUME ReadyInv, UNCHANGED batch, wpc # "requeue", wpc' # "requeue",
         \A e \in InBatch : item'[e] = item[e]
  PROVE  ReadyInv'
BY DEF ReadyInv, InBatch, NotReady

\* Taking the item in hand out of the batch leaves the others.
LEMMA TailReady ==
  ASSUME TypeInv, PlacesInv, ReadyInv, batch # <<>>, batch' = Tail(batch),
         \A e \in InBatch \ {Head(batch)} : item'[e] = item[e],
         wpc' # "requeue"
  PROVE  ReadyInv'
<1>1. InBatch' = InBatch \ {Head(batch)}
  BY TailRange DEF TypeInv, TypeOK, PlacesInv, InBatch
<1>2. QED
  BY <1>1 DEF ReadyInv, NotReady

LEMMA NextReady ==
  ASSUME TypeInv, PlacesInv, OwnedWorker, ReadyInv, [Next]_vars PROVE ReadyInv'
<1> DEFINE h == Head(batch)
<1>1. item \in [Emails -> Items] /\ InBatch \subseteq Emails /\ batch \in Seq(Emails)
  BY Located DEF TypeInv, TypeOK
<1>2. batch # <<>> => h \in Emails /\ h \in InBatch /\ item[h] \in Items
  BY InHand
<1>3. CASE UNCHANGED <<item, batch>> /\ (wpc' = "requeue" <=> wpc = "requeue")
  BY <1>3 DEF ReadyInv, InBatch, NotReady
<1>4. ASSUME NEW e \in Emails, NEW p \in Priorities, Enqueue(e, p) PROVE ReadyInv'
  <2>1. /\ UNCHANGED batch /\ (wpc' = "requeue" <=> wpc = "requeue")
        /\ item' = [item EXCEPT ![e] = NewItem(p)] /\ item[e].status = "NONE"
    BY <1>4 DEF Enqueue, Fresh, Accepted, NotifyWorker
  <2>2. e \notin InBatch
    BY <2>1 DEF PlacesInv, Waiting
  <2>3. \A f \in InBatch : item'[f] = item[f]
    BY <1>1, <2>1, <2>2
  <2>4. wpc = "requeue" => Head(batch) \in InBatch
    BY <1>2 DEF TypeInv, HandInv
  <2>5. InBatch' = InBatch
    BY <2>1 DEF InBatch
  <2>6. QED
    BY <2>1, <2>3, <2>4, <2>5 DEF ReadyInv, NotReady
<1>5. ASSUME NEW e \in Emails, EnqueueRejected(e) \/ Dequeue(e) PROVE ReadyInv'
  BY <1>3, <1>5 DEF EnqueueRejected, Dequeue, queueVars, workerVars
<1>6. ASSUME NEW c \in Controllers, ControllerCall(c) \/ ControllerStep(c) PROVE ReadyInv'
  <2>1. UNCHANGED queueVars
    BY <1>6 DEF ControllerCall, ControllerStep, SetSendCallback, StartCheck, StopCheck,
           DestroyBegin, StartSet, StartSpawn, StopSet, StopNotify, StopJoinable,
           JoinEnter, JoinReturn, Go
  <2>2. wpc' = wpc \/ (wpc = "exited" /\ wpc' = "check") \/ (wpc = "waiting" /\ wpc' = "woken")
    BY <1>6, ControllerMovesWorker
  <2>3. QED
    BY <1>3, <2>1, <2>2 DEF queueVars
<1>7. CASE DestroyEnd \/ UNCHANGED vars
  BY <1>3, <1>7 DEF DestroyEnd, vars, queueVars, workerVars
<1>8. CASE Tick
  <2>1. UNCHANGED <<batch, wpc>>
    BY <1>8 DEF Tick, workerVars
  <2>2. ASSUME NEW e \in Emails
        PROVE  /\ item'[e].status = item[e].status
               /\ NotReady(e)' => NotReady(e)
    <3>1. CASE Aging(e)
      <4>1. item'[e] = [item[e] EXCEPT !.elapsed = @ + 1] /\ item[e] \in Items
        BY <1>1, <1>8, <3>1 DEF Tick
      <4>2. QED
        BY <4>1 DEF NotReady, Items
    <3>2. CASE ~Aging(e)
      BY <1>8, <3>2 DEF Tick, NotReady
    <3>3. QED
      BY <3>1, <3>2
  <2>3. wpc = "requeue" => Head(batch) \in Emails
    BY <1>2 DEF TypeInv, HandInv
  <2>4. InBatch' = InBatch
    BY <2>1 DEF InBatch
  <2>5. QED
    BY <1>1, <2>1, <2>2, <2>3, <2>4 DEF ReadyInv
<1>9. CASE WorkerCheck \/ WorkerLock \/ WorkerBlock \/ SpuriousWakeup \/ WorkerReady
           \/ WorkerUnlock \/ BatchDone
  BY <1>3, <1>9 DEF WorkerCheck, WorkerLock, WorkerBlock, SpuriousWakeup, WorkerReady,
              WorkerUnlock, BatchDone, WorkerOnly, WorkerGo, queueVars
<1>10. CASE WorkerGather
  <2>1. PICK e \in queue :
          \/ IsTop(e) /\ NotReady(e) /\ UNCHANGED <<queue, batch>>
          \/ PopTop(e) /\ ~NotReady(e) /\ batch' = Append(batch, e)
    BY <1>10, Zenon DEF WorkerGather
  <2>2. UNCHANGED item /\ wpc = "gather" /\ wpc' = "gather"
    BY <1>10 DEF WorkerGather, WorkerGo
  <2>3. CASE UNCHANGED batch
    BY <1>3, <2>2, <2>3
  <2>4. CASE ~NotReady(e) /\ batch' = Append(batch, e)
    <3>1. InBatch' = InBatch \cup {e}
      <4>1. e \in Emails
        BY DEF TypeInv, TypeOK
      <4>2. QED
        BY <1>1, <2>4, <4>1, AppendRange DEF InBatch
    <3>2. QED
      BY <2>2, <2>4, <3>1 DEF ReadyInv, NotReady
  <2>5. QED
    BY <2>1, <2>3, <2>4
<1>11. CASE BatchAbandoned
  <2>1. InBatch' = {} /\ wpc' = "check"
    BY <1>11 DEF BatchAbandoned, WorkerGo, InBatch, Range
  <2>2. QED
    BY <2>1 DEF ReadyInv
<1>12. CASE SendUnconfigured \/ SendFails \/ SendThrows \/ SendSucceeds
  <2>1. \/ item' = [item EXCEPT ![h].status = "FAILED"]
        \/ item' = [item EXCEPT ![h].status = "SENT"]
    BY <1>12 DEF SendUnconfigured, SendFails, SendThrows, SendSucceeds, MarkFailed, Verdict
  <2>2. batch # <<>> /\ batch' = Tail(batch) /\ wpc' = "process"
    BY <1>12 DEF SendUnconfigured, SendFails, SendThrows, SendSucceeds, MarkFailed, Verdict,
                 WorkerGo, TypeInv, HandInv
  <2>3. \A e \in InBatch \ {h} : item'[e] = item[e]
    BY <1>1, <2>1
  <2>4. QED
    BY <2>2, <2>3, TailReady
<1>13. CASE SendBegin
  <2>1. /\ item' = [item EXCEPT ![h].status = "PROCESSING", ![h].elapsed = 0]
        /\ batch # <<>> /\ UNCHANGED batch /\ wpc = "process" /\ wpc' = "calling"
    BY <1>13 DEF SendBegin, WorkerGo
  <2> HIDE DEF h
  <2>2. /\ \A e \in InBatch \ {h} : item'[e] = item[e]
        /\ item'[h].status = "PROCESSING"
    BY <1>1, <1>2, <2>1 DEF Items
  <2>3. QED
    BY <2>1, <2>2 DEF ReadyInv, InBatch, NotReady
<1>14. CASE SendRetry
  <2>1. /\ item' = [item EXCEPT ![h] = [updateRetryInfo(item[h]) EXCEPT !.status = "RETRY"]]
        /\ UNCHANGED batch /\ wpc = "calling" /\ wpc' = "requeue"
    BY <1>14 DEF SendRetry, WorkerGo
  <2>2. batch # <<>> /\ updateRetryInfo(item[h]) \in Items
    BY <1>2, <2>1, ItemTypes DEF TypeInv, HandInv
  <2> HIDE DEF updateRetryInfo
  <2>3. /\ \A e \in InBatch \ {h} : item'[e] = item[e]
        /\ item'[h].status = "RETRY"
    BY <1>1, <1>2, <2>1, <2>2 DEF Items
  <2>4. QED
    BY <2>1, <2>3 DEF ReadyInv, InBatch, NotReady
<1>15. CASE Requeue
  <2>1. batch # <<>> /\ batch' = Tail(batch) /\ UNCHANGED item /\ wpc' = "process"
    BY <1>15 DEF Requeue, WorkerGo, TypeInv, HandInv
  <2>2. QED
    BY <2>1, TailReady
<1>16. QED
  BY <1>4, <1>5, <1>6, <1>7, <1>8, <1>9, <1>10, <1>11, <1>12, <1>13, <1>14, <1>15
     DEF Next, Caller, WorkerStep, ProcessStep

\* The step that attempts an email finds it ready.
LEMMA AttemptReady ==
  ASSUME TypeInv, PlacesInv, SendInv, ReadyInv, [Next]_vars,
         NEW e \in Emails, attempts'[e] > attempts[e], attempts[e] > 0
  PROVE  item[e].elapsed >= item[e].retry_delay
<1>1. SendBegin \/ UNCHANGED attempts
  <2>1. ASSUME NEW f \in Emails, NEW p \in Priorities,
               Enqueue(f, p) \/ EnqueueRejected(f) \/ Dequeue(f)
        PROVE  UNCHANGED attempts
    BY <2>1 DEF Enqueue, EnqueueRejected, Dequeue, historyVars
  <2>2. Caller => UNCHANGED attempts
    BY <2>1 DEF Caller, EnqueueRejected, Dequeue
  <2>3. ASSUME NEW c \in Controllers, ControllerCall(c) \/ ControllerStep(c)
        PROVE  UNCHANGED attempts
    BY <2>3 DEF ControllerCall, ControllerStep, SetSendCallback, StartCheck, StopCheck,
         DestroyBegin, StartSet, StartSpawn, StopSet, StopNotify, StopJoinable,
         JoinEnter, JoinReturn, Go, historyVars
  <2>4. DestroyEnd \/ Tick \/ UNCHANGED vars => UNCHANGED attempts
    BY DEF DestroyEnd, Tick, vars, historyVars
  <2>5. WorkerStep \/ SpuriousWakeup => SendBegin \/ UNCHANGED attempts
    BY DEF WorkerStep, ProcessStep, WorkerCheck, WorkerLock, WorkerBlock, SpuriousWakeup,
           WorkerReady, WorkerGather, WorkerUnlock, BatchDone, BatchAbandoned,
           SendUnconfigured, SendSucceeds, SendFails, SendThrows, SendRetry, Requeue,
           WorkerOnly, MarkFailed, Verdict, historyVars
  <2>6. QED
    BY <2>2, <2>3, <2>4, <2>5 DEF Next
<1>2. attempts \in [Emails -> Nat]
  BY DEF TypeInv, TypeOK
<1>3. SendBegin
  BY <1>1, <1>2
<1>4. /\ batch # <<>> /\ wpc = "process"
      /\ attempts' = [attempts EXCEPT ![Head(batch)] = @ + 1]
  BY <1>3 DEF SendBegin, WorkerGo
<1>5. e = Head(batch)
  BY <1>2, <1>4
<1>6. /\ e \in InBatch /\ item[e] \in Items
      /\ item[e].status \in {"PENDING", "RETRY"}
  BY <1>4, <1>5, InHand
<1>7. item[e].status = "RETRY"
  BY <1>2, <1>6 DEF SendInv, SendsAgree
<1>8. ~(item[e].elapsed < item[e].retry_delay)
  BY <1>4, <1>6, <1>7 DEF ReadyInv, NotReady
<1>9. QED
  BY <1>6, <1>8 DEF Items

\* No retry comes before its delay: the test made when the batch is gathered holds
\* when the callback runs, however long the sends before it take.
THEOREM RetriesWait == Spec => RetryNotEarly
<1>1. Init => ReadyInv
  BY DEF Init, ReadyInv, InBatch, Range
<1>2. TypeInv /\ OwnedWorker /\ PlacesInv /\ SendInv /\ ReadyInv /\ [Next]_vars
        => [\A e \in Emails : attempts'[e] > attempts[e] /\ attempts[e] > 0
              => item[e].elapsed >= item[e].retry_delay]_vars
  BY AttemptReady
<1>3. QED
  BY <1>1, <1>2, SendsInvariant, NextReady, PTL DEF Spec, RetryNotEarly

(***************************************************************************)
(* The order within a priority                                             *)
(***************************************************************************)
Earlier(e, f) == /\ item[e].priority = item[f].priority
                 /\ item[e].created_at < item[f].created_at

Ahead(e, f) == \E i, j \in DOMAIN batch : i < j /\ batch[i] = e /\ batch[j] = f

\* The email waits for its first attempt.
Untried(e) == item[e].status = "PENDING" /\ e \in queue \cup InBatch

\* Whoever is later than an untried email of its priority is untried, and behind
\* it wherever both are.
NotOvertaken(e, f) ==
  /\ attempts[f] = 0
  /\ f \in InBatch => e \in InBatch /\ Ahead(e, f)

FifoInv ==
  /\ \A e \in Accepted : item[e].created_at < Cardinality(Accepted)
  /\ \A e, f \in Accepted : Earlier(e, f) /\ Untried(e) => NotOvertaken(e, f)

LEMMA FifoImplies ==
  ASSUME TypeInv, PlacesInv, SendInv, FifoInv PROVE FifoWithinPriority
<1> SUFFICES ASSUME NEW e \in Accepted, NEW f \in Accepted, Earlier(e, f), attempts[f] > 0
             PROVE  attempts[e] > 0 \/ e \in taken \cup dropped \/ item[e].status = "FAILED"
  BY DEF FifoWithinPriority, Earlier
<1>1. ~Untried(e)
  BY DEF FifoInv, NotOvertaken
<1>2. /\ e \in Emails /\ item[e] \in Items /\ item[e].status # "NONE"
      /\ item[e].status \in Statuses /\ attempts[e] \in Nat
  BY DEF Accepted, TypeInv, TypeOK, Items
<1>3. CASE item[e].status = "PENDING"
  BY <1>1, <1>2, <1>3 DEF PlacesInv, Untried
<1>4. CASE item[e].status \in {"PROCESSING", "SENT", "RETRY"}
  <2>1. /\ item[e].retry_count \in Nat
        /\ item[e].status = "RETRY" => attempts[e] = item[e].retry_count /\ item[e].retry_count > 0
        /\ item[e].status \in {"PROCESSING", "SENT"} => attempts[e] = item[e].retry_count + 1
    BY <1>2 DEF SendInv, SendsAgree, Items
  <2>2. QED
    BY <1>4, <2>1
<1>5. QED
  BY <1>2, <1>3, <1>4 DEF Statuses

\* A step that accepts nothing, attempts nothing and does not touch the batch.
LEMMA FifoFrame ==
  ASSUME TypeInv, FifoInv, UNCHANGED <<batch, attempts>>, queue' \subseteq queue,
         \A e \in Emails : /\ item'[e].status = item[e].status
                           /\ item'[e].priority = item[e].priority
                           /\ item'[e].created_at = item[e].created_at
  PROVE  FifoInv'
<1>1. Accepted' = Accepted /\ InBatch' = InBatch
  BY DEF Accepted, InBatch
<1>2. ASSUME NEW e \in Accepted, NEW f \in Accepted, Earlier(e, f)', Untried(e)'
      PROVE  NotOvertaken(e, f)'
  <2>1. Earlier(e, f) /\ Untried(e)
    BY <1>1, <1>2 DEF Earlier, Untried, Accepted
  <2>2. NotOvertaken(e, f)
    BY <2>1 DEF FifoInv
  <2>3. QED
    BY <1>1, <2>2 DEF NotOvertaken, Ahead
<1>3. QED
  BY <1>1, <1>2 DEF FifoInv, Accepted

LEMMA EnqueueFifo ==
  ASSUME TypeInv, PlacesInv, SendInv, FifoInv,
         NEW e \in Emails, NEW p \in Priorities, Enqueue(e, p)
  PROVE  FifoInv'
<1>1. /\ e \notin Accepted /\ item[e].status = "NONE"
      /\ item' = [item EXCEPT ![e] = NewItem(p)] /\ queue' = queue \cup {e}
      /\ UNCHANGED <<batch, attempts>>
  BY DEF Enqueue, Fresh, Accepted, historyVars
<1>2. /\ \A f \in Emails : f # e => item'[f] = item[f]
      /\ item'[e].created_at = Cardinality(Accepted) /\ item'[e].status = "PENDING"
  BY <1>1 DEF NewItem, TypeInv, TypeOK
<1>3. Accepted' = Accepted \cup {e} /\ InBatch' = InBatch /\ Accepted \subseteq Emails
  BY <1>1, <1>2 DEF Accepted, InBatch
<1>4. IsFiniteSet(Accepted) /\ Cardinality(Accepted) \in Nat
  BY QueueAssumption, FS_Subset, FS_CardinalityType DEF Accepted
<1>5. Cardinality(Accepted') = Cardinality(Accepted) + 1
  BY <1>1, <1>3, <1>4, FS_AddElement
<1>6. \A f \in Accepted : item[f].created_at \in Nat
  BY <1>3 DEF TypeInv, TypeOK, Items
<1>7. ASSUME NEW f \in Accepted' PROVE item'[f].created_at < Cardinality(Accepted')
  <2>1. CASE f = e
    BY <1>2, <1>4, <1>5, <2>1
  <2>2. CASE f # e
    BY <1>2, <1>3, <1>4, <1>5, <1>6, <2>2 DEF FifoInv
  <2>3. QED
    BY <2>1, <2>2
<1>8. ASSUME NEW d \in Accepted', NEW f \in Accepted', Earlier(d, f)', Untried(d)'
      PROVE  NotOvertaken(d, f)'
  <2>1. d # e
    <3>1. ~(Cardinality(Accepted) < item'[f].created_at)
      BY <1>4, <1>5, <1>6, <1>7, <1>2, <1>3 DEF FifoInv
    <3>2. QED
      BY <1>2, <1>8, <3>1 DEF Earlier
  <2>2. d \in Accepted /\ Untried(d)
    BY <1>1, <1>2, <1>3, <1>8, <2>1 DEF Untried
  <2>3. CASE f = e
    <3>1. attempts[e] = 0 /\ e \notin InBatch
      BY <1>1 DEF SendInv, SendsAgree, PlacesInv, Waiting
    <3>2. QED
      BY <1>1, <1>3, <2>3, <3>1 DEF NotOvertaken
  <2>4. CASE f # e
    <3>1. f \in Accepted /\ Earlier(d, f)
      <4>1. f \in Accepted /\ f \in Emails /\ d \in Emails
        BY <1>3, <2>2, <2>4
      <4>2. item'[d] = item[d] /\ item'[f] = item[f]
        BY <1>2, <2>1, <2>4, <4>1
      <4>3. QED
        BY <1>8, <4>1, <4>2 DEF Earlier
    <3>2. NotOvertaken(d, f)
      BY <2>2, <3>1 DEF FifoInv
    <3>3. QED
      BY <1>1, <1>3, <3>2 DEF NotOvertaken, Ahead
  <2>5. QED
    BY <2>3, <2>4
<1>9. QED
  BY <1>7, <1>8 DEF FifoInv

\* The gathering loop appends the top of the queue, which no earlier email of its
\* priority is left behind.
LEMMA GatherFifo ==
  ASSUME TypeInv, PlacesInv, FifoInv, WorkerGather PROVE FifoInv'
<1>1. PICK t \in queue :
        \/ IsTop(t) /\ NotReady(t) /\ UNCHANGED <<queue, batch>>
        \/ PopTop(t) /\ ~NotReady(t) /\ batch' = Append(batch, t)
  BY Zenon DEF WorkerGather
<1>2. UNCHANGED <<item, attempts>>
  BY DEF WorkerGather, historyVars
<1>3. CASE UNCHANGED <<queue, batch>>
  BY <1>2, <1>3, FifoFrame
<1>4. CASE PopTop(t) /\ batch' = Append(batch, t)
  <2>1. t \in Emails /\ batch \in Seq(Emails) /\ queue' = queue \ {t} /\ t \notin InBatch
    BY <1>4 DEF PopTop, TypeInv, TypeOK, PlacesInv
  <2>2. InBatch' = InBatch \cup {t} /\ Accepted' = Accepted
    BY <1>2, <1>4, <2>1, AppendRange DEF InBatch, Accepted
  <2>3. /\ DOMAIN batch = 1..Len(batch) /\ Len(batch) \in Nat
        /\ DOMAIN batch' = 1..(Len(batch) + 1) /\ batch'[Len(batch) + 1] = t
        /\ \A i \in DOMAIN batch : batch'[i] = batch[i]
    BY <1>4, <2>1
  <2>4. ASSUME NEW e \in Accepted, NEW f \in Accepted, Earlier(e, f)', Untried(e)'
        PROVE  NotOvertaken(e, f)'
    <3>1. Earlier(e, f) /\ Untried(e)
      BY <1>2, <2>1, <2>2, <2>4 DEF Earlier, Untried
    <3>2. NotOvertaken(e, f)
      BY <3>1 DEF FifoInv
    <3>3. CASE f \in InBatch
      <4>1. Ahead(e, f)'
        BY <2>3, <3>2, <3>3 DEF NotOvertaken, Ahead
      <4>2. QED
        BY <1>2, <2>2, <3>2, <3>3, <4>1 DEF NotOvertaken
    <3>4. CASE f = t
      <4>1. e \notin queue
        BY <1>4, <3>1, <3>4 DEF PopTop, IsTop, comparePriority, Earlier
      <4>2. e \in InBatch
        BY <3>1, <4>1 DEF Untried
      <4>3. PICK i \in DOMAIN batch : batch[i] = e
        BY <4>2 DEF InBatch, Range
      <4>4. i < Len(batch) + 1 /\ i \in DOMAIN batch' /\ Len(batch) + 1 \in DOMAIN batch'
        BY <2>3
      <4>5. Ahead(e, f)'
        BY <2>3, <3>4, <4>3, <4>4 DEF Ahead
      <4>6. QED
        BY <1>2, <2>2, <3>2, <4>2, <4>5 DEF NotOvertaken
    <3>5. CASE f \notin InBatch /\ f # t
      BY <1>2, <2>2, <3>2, <3>5 DEF NotOvertaken
    <3>6. QED
      BY <3>3, <3>4, <3>5
  <2>5. QED
    BY <1>2, <2>2, <2>4 DEF FifoInv
<1>5. QED
  BY <1>1, <1>3, <1>4

\* The item in hand leaves the batch from its head, where it has been attempted or
\* has failed: it is no untried email any more.
LEMMA TailFifo ==
  ASSUME TypeInv, PlacesInv, FifoInv, batch # <<>>, batch' = Tail(batch), UNCHANGED attempts,
         queue' \subseteq queue \cup {Head(batch)}, Accepted' = Accepted,
         item'[Head(batch)].status # "PENDING",
         \A e \in Emails : /\ e # Head(batch) => item'[e].status = item[e].status
                           /\ item'[e].priority = item[e].priority
                           /\ item'[e].created_at = item[e].created_at
  PROVE  FifoInv'
<1> DEFINE h == Head(batch)
<1>1. /\ InBatch' = InBatch \ {h} /\ batch \in Seq(Emails) /\ IsInjective(batch)
  BY TailRange DEF TypeInv, TypeOK, PlacesInv, InBatch
<1>2. /\ DOMAIN batch = 1..Len(batch) /\ Len(batch) \in Nat /\ Len(batch) > 0 /\ h = batch[1]
      /\ DOMAIN batch' = 1..(Len(batch) - 1)
      /\ \A i \in 1..(Len(batch) - 1) : batch'[i] = batch[i + 1]
  BY <1>1, HeadTailProperties
<1>3. Accepted \subseteq Emails
  BY DEF Accepted
<1> HIDE DEF h
<1>4. ASSUME NEW e \in Accepted, NEW f \in Accepted, Earlier(e, f)', Untried(e)'
      PROVE  NotOvertaken(e, f)'
  <2>1. e # h /\ Earlier(e, f) /\ Untried(e)
    BY <1>1, <1>3, <1>4 DEF Earlier, Untried, h
  <2>2. NotOvertaken(e, f)
    BY <2>1 DEF FifoInv
  <2>3. CASE f \in InBatch'
    <3>1. PICK i \in DOMAIN batch, j \in DOMAIN batch : i < j /\ batch[i] = e /\ batch[j] = f
      BY <1>1, <2>2, <2>3 DEF NotOvertaken, Ahead
    <3>2. i # 1 /\ i - 1 \in 1..(Len(batch) - 1) /\ j - 1 \in 1..(Len(batch) - 1)
      BY <1>2, <2>1, <3>1
    <3>3. batch'[i - 1] = e /\ batch'[j - 1] = f /\ i - 1 < j - 1
      BY <1>2, <3>1, <3>2
    <3>4. Ahead(e, f)'
      BY <1>2, <3>2, <3>3 DEF Ahead
    <3>5. e \in InBatch'
      BY <1>1, <2>1, <2>2, <2>3 DEF NotOvertaken
    <3>6. QED
      BY <2>2, <3>4, <3>5 DEF NotOvertaken
  <2>4. CASE f \notin InBatch'
    BY <2>2, <2>4 DEF NotOvertaken
  <2>5. QED
    BY <2>3, <2>4
<1>5. QED
  BY <1>3, <1>4 DEF FifoInv

\* A first attempt is made on the head of the batch, which nobody is ahead of.
LEMMA SendBeginFifo ==
  ASSUME TypeInv, PlacesInv, FifoInv, SendBegin PROVE FifoInv'
<1> DEFINE h == Head(batch)
<1>1. /\ batch # <<>> /\ UNCHANGED <<queue, batch>>
      /\ item' = [item EXCEPT ![h].status = "PROCESSING", ![h].elapsed = 0]
      /\ attempts' = [attempts EXCEPT ![h] = @ + 1]
  BY DEF SendBegin
<1>2. h \in Emails /\ h \in InBatch /\ item[h] \in Items /\ item[h].status # "NONE"
  BY <1>1, InHand
<1>3. /\ item \in [Emails -> Items] /\ attempts \in [Emails -> Nat] /\ batch \in Seq(Emails)
      /\ IsInjective(batch) /\ DOMAIN batch = 1..Len(batch) /\ h = batch[1] /\ 1 \in DOMAIN batch
  <2>1. batch \in Seq(Emails) /\ batch # <<>>
    BY <1>1 DEF TypeInv, TypeOK
  <2>2. DOMAIN batch = 1..Len(batch) /\ h = batch[1] /\ 1 \in DOMAIN batch
    BY <2>1, HeadTailProperties
  <2>3. QED
    BY <2>1, <2>2 DEF TypeInv, TypeOK, PlacesInv
<1> HIDE DEF h
<1>4. /\ \A e \in Emails : e # h => item'[e] = item[e] /\ attempts'[e] = attempts[e]
      /\ item'[h].status = "PROCESSING" /\ item'[h].priority = item[h].priority
      /\ item'[h].created_at = item[h].created_at
  BY <1>1, <1>2, <1>3 DEF Items
<1>5. Accepted' = Accepted /\ InBatch' = InBatch /\ Accepted \subseteq Emails
  BY <1>1, <1>2, <1>4 DEF Accepted, InBatch
<1>6. ASSUME NEW e \in Accepted PROVE item'[e].created_at = item[e].created_at
                                     /\ item'[e].priority = item[e].priority
  BY <1>4, <1>5
<1>7. ASSUME NEW e \in Accepted, NEW f \in Accepted, Earlier(e, f)', Untried(e)'
      PROVE  NotOvertaken(e, f)'
  <2>1. e # h
    BY <1>4, <1>7 DEF Untried
  <2>2. Earlier(e, f)
    BY <1>6, <1>7 DEF Earlier
  <2>3. item'[e] = item[e]
    BY <1>4, <1>5, <2>1
  <2>4. Untried(e)
    BY <1>1, <1>5, <1>7, <2>3 DEF Untried
  <2>5. NotOvertaken(e, f)
    BY <2>2, <2>4 DEF FifoInv
  <2>6. f # h
    <3>1. SUFFICES ASSUME f = h PROVE FALSE
      OBVIOUS
    <3>2. PICK i \in DOMAIN batch, j \in DOMAIN batch : i < j /\ batch[i] = e /\ batch[j] = h
      BY <1>2, <2>5, <3>1 DEF NotOvertaken, Ahead
    <3>3. j = 1
      BY <1>3, <3>2 DEF IsInjective
    <3>4. QED
      BY <1>3, <3>2, <3>3
  <2>7. attempts'[f] = attempts[f]
    BY <1>4, <1>5, <2>6
  <2>8. QED
    BY <1>1, <1>5, <2>5, <2>7 DEF NotOvertaken, Ahead
<1>8. QED
  BY <1>5, <1>6, <1>7 DEF FifoInv

LEMMA NextFifo ==
  ASSUME TypeInv, PlacesInv, OwnedWorker, SendInv, ReadyInv, FifoInv, [Next]_vars
  PROVE  FifoInv'
<1> DEFINE h == Head(batch)
<1>1. item \in [Emails -> Items]
  BY DEF TypeInv, TypeOK
<1>2. batch # <<>> => /\ h \in Emails /\ item[h] \in Items
                      /\ item[h].status \in {"PENDING", "RETRY", "PROCESSING"}
  BY InHand
<1>3. CASE UNCHANGED <<item, batch, attempts>> /\ queue' \subseteq queue
  BY <1>3, FifoFrame
<1>4. ASSUME NEW e \in Emails, EnqueueRejected(e) \/ Dequeue(e) PROVE FifoInv'
  BY <1>3, <1>4 DEF EnqueueRejected, Dequeue, PopTop, queueVars
<1>5. ASSUME NEW c \in Controllers, ControllerCall(c) \/ ControllerStep(c) PROVE FifoInv'
  <2>1. UNCHANGED <<queueVars, historyVars>>
    BY <1>5 DEF ControllerCall, ControllerStep, SetSendCallback, StartCheck, StopCheck,
           DestroyBegin, StartSet, StartSpawn, StopSet, StopNotify, StopJoinable,
           JoinEnter, JoinReturn, Go
  <2>2. QED
    BY <1>3, <2>1 DEF queueVars, historyVars
<1>6. CASE DestroyEnd \/ UNCHANGED vars
  BY <1>3, <1>6 DEF DestroyEnd, vars, queueVars, historyVars
<1>7. CASE Tick
  <2>1. \A e \in Emails : /\ item'[e].status = item[e].status
                          /\ item'[e].priority = item[e].priority
                          /\ item'[e].created_at = item[e].created_at
    BY <1>1, <1>7 DEF Tick, Items
  <2>2. QED
    BY <1>7, <2>1, FifoFrame DEF Tick, historyVars
<1>8. CASE WorkerCheck \/ WorkerLock \/ WorkerBlock \/ SpuriousWakeup \/ WorkerReady
           \/ WorkerUnlock \/ BatchDone
  BY <1>3, <1>8 DEF WorkerCheck, WorkerLock, WorkerBlock, SpuriousWakeup, WorkerReady,
              WorkerUnlock, BatchDone, WorkerOnly, queueVars, historyVars
<1>9. CASE BatchAbandoned
  <2>1. UNCHANGED <<queue, item, attempts>> /\ InBatch' = {} /\ Accepted' = Accepted
    BY <1>9 DEF BatchAbandoned, InBatch, Range, Accepted
  <2>2. ASSUME NEW e \in Accepted, NEW f \in Accepted, Earlier(e, f)', Untried(e)'
        PROVE  NotOvertaken(e, f)'
    <3>1. Earlier(e, f) /\ Untried(e)
      BY <2>1, <2>2 DEF Earlier, Untried
    <3>2. QED
      BY <2>1, <3>1 DEF FifoInv, NotOvertaken
  <2>3. QED
    BY <2>1, <2>2 DEF FifoInv
<1>10. CASE SendUnconfigured \/ SendFails \/ SendThrows \/ SendSucceeds
  <2>1. \/ item' = [item EXCEPT ![h].status = "FAILED"]
        \/ item' = [item EXCEPT ![h].status = "SENT"]
    BY <1>10 DEF SendUnconfigured, SendFails, SendThrows, SendSucceeds, MarkFailed, Verdict
  <2>2. batch # <<>> /\ batch' = Tail(batch) /\ UNCHANGED <<queue, attempts>>
    BY <1>10 DEF SendUnconfigured, SendFails, SendThrows, SendSucceeds, MarkFailed, Verdict,
                 WorkerGo, TypeInv, HandInv
  <2>3. h \in Emails /\ item[h] \in Items /\ item[h].status # "NONE"
    BY <1>2, <2>2
  <2> HIDE DEF h
  <2>4. /\ \A e \in Emails : e # h => item'[e] = item[e]
        /\ item'[h].status \in {"FAILED", "SENT"}
        /\ item'[h].priority = item[h].priority /\ item'[h].created_at = item[h].created_at
    <3>1. ASSUME NEW st \in {"FAILED", "SENT"}, item' = [item EXCEPT ![h].status = st]
          PROVE  /\ \A e \in Emails : e # h => item'[e] = item[e]
                 /\ item'[h].status = st
                 /\ item'[h].priority = item[h].priority
                 /\ item'[h].created_at = item[h].created_at
      BY <1>1, <2>3, <3>1 DEF Items
    <3>2. QED
      BY <2>1, <3>1
  <2>5. Accepted' = Accepted
    BY <2>3, <2>4 DEF Accepted
  <2>6. QED
    BY <2>2, <2>4, <2>5, TailFifo DEF h
<1>11. CASE SendRetry
  <2>1. /\ item' = [item EXCEPT ![h] = [updateRetryInfo(item[h]) EXCEPT !.status = "RETRY"]]
        /\ UNCHANGED <<queue, batch, attempts>> /\ wpc = "calling"
    BY <1>11 DEF SendRetry, WorkerGo, historyVars
  <2>2. batch # <<>> /\ h \in Emails /\ item[h] \in Items /\ updateRetryInfo(item[h]) \in Items
    BY <1>2, <2>1, ItemTypes DEF TypeInv, HandInv
  <2>3. /\ updateRetryInfo(item[h]).priority = item[h].priority
        /\ updateRetryInfo(item[h]).created_at = item[h].created_at
    BY <2>2 DEF updateRetryInfo, Items
  <2>4. item[h].status = "PROCESSING"
    BY <2>1, <2>2, InHand
  <2> HIDE DEF h, updateRetryInfo
  <2>5. /\ \A e \in Emails : e # h => item'[e] = item[e]
        /\ item'[h].status = "RETRY"
        /\ item'[h].priority = item[h].priority /\ item'[h].created_at = item[h].created_at
    BY <1>1, <2>1, <2>2, <2>3 DEF Items
  <2>6. Accepted' = Accepted /\ InBatch' = InBatch /\ Accepted \subseteq Emails
    BY <2>1, <2>2, <2>4, <2>5 DEF Accepted, InBatch
  <2>7. ASSUME NEW e \in Accepted PROVE /\ item'[e].created_at = item[e].created_at
                                        /\ item'[e].priority = item[e].priority
    BY <2>5, <2>6
  <2>8. ASSUME NEW e \in Accepted, NEW f \in Accepted, Earlier(e, f)', Untried(e)'
        PROVE  NotOvertaken(e, f)'
    <3>1. e # h
      BY <2>5, <2>8 DEF Untried
    <3>2. item'[e] = item[e]
      BY <2>5, <2>6, <3>1
    <3>3. Earlier(e, f) /\ Untried(e)
      BY <2>1, <2>6, <2>7, <2>8, <3>2 DEF Earlier, Untried
    <3>4. QED
      BY <2>1, <2>6, <3>3 DEF FifoInv, NotOvertaken, Ahead
  <2>9. QED
    BY <2>6, <2>7, <2>8 DEF FifoInv
<1>12. CASE Requeue
  <2>1. /\ batch # <<>> /\ batch' = Tail(batch) /\ UNCHANGED <<item, attempts>>
        /\ queue' = queue \cup {h} /\ wpc = "requeue"
    BY <1>12 DEF Requeue, WorkerGo, TypeInv, HandInv, historyVars
  <2>2. item'[h].status # "PENDING"
    BY <2>1 DEF ReadyInv
  <2>3. Accepted' = Accepted
    BY <2>1 DEF Accepted
  <2>4. QED
    BY <2>1, <2>2, <2>3, TailFifo
<1>13. QED
  BY <1>4, <1>5, <1>6, <1>7, <1>8, <1>9, <1>10, <1>11, <1>12,
     EnqueueFifo, GatherFifo, SendBeginFifo
     DEF Next, Caller, WorkerStep, ProcessStep

\* Emails of one priority get their first attempt in the order in which they were
\* accepted, with any batch size and however retries and callers interfere.
THEOREM FirstAttemptsInOrder == Spec => []FifoWithinPriority
<1>1. Init => ReadyInv /\ FifoInv
  <2> SUFFICES ASSUME Init PROVE ReadyInv /\ FifoInv
    OBVIOUS
  <2>1. Accepted = {} /\ InBatch = {} /\ wpc = "exited"
    BY DEF Init, NoItem, Accepted, InBatch, Range
  <2>2. QED
    BY <2>1 DEF ReadyInv, FifoInv
<1>2. TypeInv /\ OwnedWorker /\ PlacesInv /\ SendInv /\ ReadyInv /\ FifoInv /\ [Next]_vars
        => ReadyInv' /\ FifoInv'
  BY NextReady, NextFifo
<1>3. TypeInv /\ PlacesInv /\ SendInv /\ FifoInv => FifoWithinPriority
  BY FifoImplies
<1>4. QED
  BY <1>1, <1>2, <1>3, SendsInvariant, PTL DEF Spec

(***************************************************************************)
(* The queue implements MailDelivery                                       *)
(***************************************************************************)
\* Nothing is attempted before the callback is set.
CallbackInv == callback \/ \A e \in Emails : attempts[e] = 0

\* What the fate of an email depends on.
SameFate(e) ==
  /\ item'[e].status = item[e].status
  /\ e \in rejected' <=> e \in rejected
  /\ e \in taken' <=> e \in taken
  /\ e \in dropped' <=> e \in dropped

LEMMA FateUnchanged ==
  ASSUME \A e \in Emails : SameFate(e) PROVE UNCHANGED fate
BY DEF fate, SameFate

LEMMA FateBecomes ==
  ASSUME NEW e \in Emails, \A f \in Emails \ {e} : SameFate(f),
         NEW from, NEW to, fate[e] = from, fate'[e] = to
  PROVE  Delivery!Becomes(e, from, to)
<1>1. \A f \in Emails : f # e => fate'[f] = fate[f]
  BY DEF fate, SameFate
<1>2. fate = [f \in Emails |-> fate[f]] /\ fate' = [f \in Emails |-> fate'[f]]
  BY DEF fate
<1>3. fate' = [fate EXCEPT ![e] = to]
  BY <1>1, <1>2
<1>4. QED
  BY <1>3 DEF Delivery!Becomes

\* An email in the queue or in the batch is accepted, unless it is being sent.
LEMMA FateOfLocated ==
  ASSUME TypeInv, PlacesInv, NEW e \in Emails, e \in queue \cup InBatch, Waiting(e)
  PROVE  fate[e] = "accepted"
<1>1. /\ item[e].status \in {"PENDING", "RETRY"}
      /\ e \notin rejected /\ e \notin taken /\ e \notin dropped
  BY DEF PlacesInv, Waiting, Accepted
<1>2. QED
  BY <1>1 DEF fate

LEMMA NobodyElseSending ==
  ASSUME TypeInv, PlacesInv, NEW e \in Emails, fate[e] = "sending"
  PROVE  wpc = "calling" /\ batch # <<>> /\ e = Head(batch)
<1>1. item[e].status = "PROCESSING"
  BY DEF fate
<1>2. e \in InBatch /\ wpc = "calling" /\ e = Head(batch)
  BY <1>1 DEF PlacesInv, Waiting
<1>3. QED
  BY <1>2 DEF TypeInv, HandInv

LEMMA CallerImplements ==
  ASSUME TypeInv, PlacesInv, Caller PROVE Delivery!Next
<1>1. ASSUME NEW e \in Emails, NEW p \in Priorities, Enqueue(e, p) PROVE Delivery!Submit(e)
  <2>1. /\ item[e].status = "NONE" /\ e \notin rejected
        /\ item' = [item EXCEPT ![e] = NewItem(p)]
        /\ UNCHANGED <<attempts, taken, rejected, dropped>>
    BY <1>1 DEF Enqueue, Fresh, Accepted, historyVars
  <2>2. item'[e].status = "PENDING" /\ \A f \in Emails : f # e => item'[f] = item[f]
    BY <2>1 DEF NewItem, TypeInv, TypeOK
  <2>3. e \notin taken /\ e \notin dropped
    BY <2>1 DEF PlacesInv, Waiting
  <2>4. fate[e] = "unsubmitted" /\ fate'[e] = "accepted"
    BY <2>1, <2>2, <2>3 DEF fate
  <2>5. QED
    BY <2>1, <2>2, <2>4, FateBecomes DEF SameFate, Delivery!Submit
<1>2. ASSUME NEW e \in Emails, EnqueueRejected(e) PROVE Delivery!Refuse(e)
  <2>1. /\ item[e].status = "NONE" /\ e \notin rejected /\ rejected' = rejected \cup {e}
        /\ UNCHANGED <<item, attempts, taken, dropped>>
    BY <1>2 DEF EnqueueRejected, Fresh, Accepted, queueVars
  <2>2. e \notin taken /\ e \notin dropped
    BY <2>1 DEF PlacesInv, Waiting
  <2>3. fate[e] = "unsubmitted" /\ fate'[e] = "refused"
    BY <2>1, <2>2 DEF fate
  <2>4. QED
    BY <2>1, <2>3, FateBecomes DEF SameFate, Delivery!Refuse
<1>3. ASSUME NEW e \in Emails, Dequeue(e) PROVE Delivery!Withdraw(e)
  <2>1. /\ e \in queue /\ taken' = taken \cup {e}
        /\ UNCHANGED <<item, attempts, rejected, dropped>>
    BY <1>3 DEF Dequeue, PopTop, IsTop
  <2>2. item[e].status \in {"PENDING", "RETRY"} /\ e \notin rejected /\ e \notin dropped
    BY <2>1 DEF PlacesInv, Waiting, Accepted
  <2>3. fate[e] = "accepted"
    BY <2>1, <2>2, FateOfLocated DEF Waiting
  <2>4. fate'[e] = "withdrawn"
    BY <2>1, <2>2 DEF fate
  <2>5. QED
    BY <2>1, <2>3, <2>4, FateBecomes DEF SameFate, Delivery!Withdraw
<1>4. QED
  BY <1>1, <1>2, <1>3 DEF Caller, Delivery!Next

LEMMA SendImplements ==
  ASSUME TypeInv, PlacesInv, SendInv, CallbackInv,
         SendUnconfigured \/ SendBegin \/ SendSucceeds \/ SendFails \/ SendThrows
           \/ SendRetry
  PROVE  Delivery!Next
<1> DEFINE h == Head(batch)
<1>1. batch # <<>>
  BY DEF SendUnconfigured, SendBegin, SendSucceeds, SendFails, SendThrows, SendRetry,
         TypeInv, HandInv, WorkerGo
<1>2. /\ h \in Emails /\ h \in InBatch /\ item[h] \in Items /\ attempts[h] \in Nat
      /\ wpc = "calling" => item[h].status = "PROCESSING"
      /\ wpc # "calling" => item[h].status \in {"PENDING", "RETRY"}
  BY <1>1, InHand
<1>3. h \notin rejected /\ h \notin taken /\ h \notin dropped
  BY <1>2 DEF PlacesInv, Accepted
<1>4. wpc # "calling" => fate[h] = "accepted"
  BY <1>2, FateOfLocated DEF Waiting
<1>5. wpc = "calling" => fate[h] = "sending"
  BY <1>2, <1>3 DEF fate
<1>6. UNCHANGED <<taken, rejected, dropped>>
  BY DEF SendUnconfigured, SendBegin, SendSucceeds, SendFails, SendThrows, SendRetry,
         MarkFailed, Verdict, historyVars
<1>7. item \in [Emails -> Items] /\ attempts \in [Emails -> Nat]
  BY DEF TypeInv, TypeOK
<1>8. SendsAgree(item[h], attempts[h], delivered[h])
  BY <1>2 DEF SendInv
<1>9. CASE SendUnconfigured \/ SendFails \/ SendThrows
  <2>1. /\ item' = [item EXCEPT ![h].status = "FAILED"] /\ UNCHANGED attempts
        /\ wpc = "calling" \/ (wpc = "process" /\ ~callback)
    BY <1>9 DEF SendUnconfigured, SendFails, SendThrows, MarkFailed, Verdict, WorkerGo
  <2> HIDE DEF h
  <2>2. /\ \A f \in Emails : f # h => item'[f] = item[f]
        /\ item'[h].status = "FAILED"
    BY <1>2, <1>7, <2>1 DEF Items
  <2>3. fate'[h] = "failed"
    BY <1>2, <1>3, <1>6, <2>2 DEF fate
  <2>4. wpc = "calling" => Delivery!Fail(h)
    BY <1>2, <1>5, <1>6, <2>1, <2>2, <2>3, FateBecomes DEF SameFate, Delivery!Fail
  <2>5. wpc = "process" /\ ~callback => Delivery!FailUnsent(h)
    BY <1>2, <1>4, <1>6, <2>1, <2>2, <2>3, FateBecomes DEF SameFate, Delivery!FailUnsent, CallbackInv
  <2>6. QED
    BY <1>2, <2>1, <2>4, <2>5 DEF Delivery!Next
<1>10. CASE SendBegin
  <2>1. /\ item' = [item EXCEPT ![h].status = "PROCESSING", ![h].elapsed = 0]
        /\ attempts' = [attempts EXCEPT ![h] = @ + 1] /\ wpc = "process"
    BY <1>10 DEF SendBegin, WorkerGo
  <2> HIDE DEF h
  <2>2. /\ \A f \in Emails : f # h => item'[f] = item[f]
        /\ item'[h].status = "PROCESSING"
    BY <1>2, <1>7, <2>1 DEF Items
  <2>3. fate'[h] = "sending"
    BY <1>2, <1>3, <1>6, <2>2 DEF fate
  <2>4. \A f \in Emails : fate[f] # "sending"
    BY <2>1, NobodyElseSending
  <2>5. attempts[h] <= MaxRetries
    BY <1>2, <1>8, <2>1 DEF SendsAgree
  <2>6. Delivery!Becomes(h, "accepted", "sending")
    BY <1>2, <1>4, <1>6, <2>1, <2>2, <2>3, FateBecomes DEF SameFate
  <2>7. QED
    BY <1>2, <2>1, <2>4, <2>5, <2>6 DEF Delivery!Attempt, Delivery!Next
<1>11. CASE SendSucceeds
  <2>1. /\ item' = [item EXCEPT ![h].status = "SENT"] /\ UNCHANGED attempts /\ wpc = "calling"
    BY <1>11 DEF SendSucceeds, Verdict, WorkerGo
  <2> HIDE DEF h
  <2>2. /\ \A f \in Emails : f # h => item'[f] = item[f]
        /\ item'[h].status = "SENT"
    BY <1>2, <1>7, <2>1 DEF Items
  <2>3. fate'[h] = "sent"
    BY <1>2, <1>3, <1>6, <2>2 DEF fate
  <2>4. QED
    BY <1>2, <1>5, <1>6, <2>1, <2>2, <2>3, FateBecomes
       DEF SameFate, Delivery!Succeed, Delivery!Next
<1>12. CASE SendRetry
  <2>1. /\ item' = [item EXCEPT ![h] = [updateRetryInfo(item[h]) EXCEPT !.status = "RETRY"]]
        /\ UNCHANGED attempts /\ wpc = "calling" /\ item[h].retry_count < MaxRetries
    BY <1>12 DEF SendRetry, WorkerGo, historyVars, shouldRetry
  <2>2. updateRetryInfo(item[h]) \in Items
    BY <1>2, ItemTypes DEF TypeInv
  <2> HIDE DEF h, updateRetryInfo
  <2>3. /\ \A f \in Emails : f # h => item'[f] = item[f]
        /\ item'[h].status = "RETRY"
    BY <1>2, <1>7, <2>1, <2>2 DEF Items
  <2>4. fate'[h] = "accepted"
    BY <1>2, <1>3, <1>6, <2>3 DEF fate
  <2>5. attempts[h] <= MaxRetries
    BY <1>2, <1>8, <2>1, QueueAssumption DEF SendsAgree, Items
  <2>6. QED
    BY <1>2, <1>5, <1>6, <2>1, <2>3, <2>4, <2>5, FateBecomes
       DEF SameFate, Delivery!Defer, Delivery!Next
<1>13. QED
  BY <1>9, <1>10, <1>11, <1>12

\* Emails that nobody has in hand may be lost together.
LEMMA LoseImplements ==
  ASSUME TypeInv, PlacesInv, wpc # "calling", NEW S, S # {},
         S \subseteq queue \cup InBatch, \A e \in S : Waiting(e),
         dropped' = dropped \cup S, UNCHANGED <<item, attempts, taken, rejected>>
  PROVE  Delivery!Next
<1>1. S \subseteq Emails
  BY Located
<1>2. \A e \in S : e \notin rejected /\ e \notin taken
  BY <1>1 DEF PlacesInv, Waiting, Accepted
<1>3. \A e \in S : fate[e] = "accepted" /\ fate'[e] = "lost"
  <2> SUFFICES ASSUME NEW e \in S PROVE fate[e] = "accepted" /\ fate'[e] = "lost"
    OBVIOUS
  <2>1. e \in Emails /\ Waiting(e) /\ e \in queue \cup InBatch
    BY <1>1
  <2>2. fate'[e] = "lost"
    BY <1>2, <2>1 DEF fate, Waiting
  <2>3. QED
    BY <2>1, <2>2, FateOfLocated
<1>4. \A e \in Emails \ S : fate'[e] = fate[e]
  BY DEF fate
<1>5. \A e \in Emails : fate[e] # "sending"
  BY NobodyElseSending
<1>6. fate' = [e \in Emails |-> IF e \in S THEN "lost" ELSE fate[e]]
  <2>1. fate' = [e \in Emails |-> fate'[e]]
    BY DEF fate
  <2>2. QED
    BY <1>1, <1>3, <1>4, <2>1
<1>7. Delivery!Lose(S)
  BY <1>1, <1>3, <1>5, <1>6 DEF Delivery!Lose
<1>8. QED
  BY <1>1, <1>7 DEF Delivery!Next

LEMMA AbandonImplements ==
  ASSUME TypeInv, PlacesInv, BatchAbandoned PROVE Delivery!Next
<1>1. /\ batch # <<>> /\ dropped' = dropped \cup InBatch /\ wpc = "process"
      /\ UNCHANGED <<item, attempts, taken, rejected>>
  BY DEF BatchAbandoned, WorkerGo
<1>2. PICK S : S = InBatch
  OBVIOUS
<1>3. S # {} /\ S \subseteq queue \cup InBatch
  BY <1>1, <1>2, InHand
<1>4. \A e \in S : Waiting(e)
  BY <1>1, <1>2 DEF PlacesInv
<1>5. QED
  BY <1>1, <1>2, <1>3, <1>4, LoseImplements

LEMMA DestroyImplements ==
  ASSUME TypeInv, OwnedWorker, PlacesInv, DestroyEnd PROVE [Delivery!Next]_Delivery!vars
<1>1. UNCHANGED <<item, attempts, taken, rejected>>
  BY DEF DestroyEnd
<1>2. CASE dropped' = dropped
  BY <1>1, <1>2, FateUnchanged DEF SameFate, Delivery!vars
<1>3. CASE ~handle /\ queue # {} /\ dropped' = dropped \cup queue
  <2>1. PICK S : S = queue
    OBVIOUS
  <2>2. wpc # "calling"
    BY <1>3 DEF OwnedWorker
  <2>3. \A e \in S : Waiting(e)
    BY <2>1 DEF PlacesInv
  <2>4. S # {} /\ S \subseteq queue \cup InBatch /\ dropped' = dropped \cup S
    BY <1>3, <2>1
  <2>5. QED
    BY <1>1, <2>2, <2>3, <2>4, LoseImplements
<1>4. QED
  BY <1>2, <1>3 DEF DestroyEnd

LEMMA NextImplements ==
  ASSUME TypeInv, OwnedWorker, PlacesInv, SendInv, CallbackInv, [Next]_vars
  PROVE  [Delivery!Next]_Delivery!vars
<1>1. CASE UNCHANGED <<item, attempts, taken, rejected, dropped>>
  BY <1>1, FateUnchanged DEF SameFate, Delivery!vars
<1>2. ASSUME NEW c \in Controllers, ControllerCall(c) \/ ControllerStep(c)
      PROVE  UNCHANGED <<item, attempts, taken, rejected, dropped>>
  BY <1>2 DEF ControllerCall, ControllerStep, SetSendCallback, StartCheck, StopCheck,
         DestroyBegin, StartSet, StartSpawn, StopSet, StopNotify, StopJoinable,
         JoinEnter, JoinReturn, Go, queueVars, historyVars
<1>3. CASE UNCHANGED vars
  BY <1>1, <1>3 DEF vars, queueVars, historyVars
<1>4. CASE Tick
  <2>1. \A e \in Emails : item'[e].status = item[e].status
    BY <1>4 DEF Tick, TypeInv, TypeOK, Items
  <2>2. QED
    BY <1>4, <2>1, FateUnchanged DEF Tick, historyVars, SameFate, Delivery!vars
<1>5. CASE WorkerCheck \/ WorkerLock \/ WorkerBlock \/ SpuriousWakeup \/ WorkerReady
           \/ WorkerGather \/ WorkerUnlock \/ BatchDone \/ Requeue
  BY <1>1, <1>5 DEF WorkerCheck, WorkerLock, WorkerBlock, SpuriousWakeup, WorkerReady,
              WorkerGather, WorkerUnlock, BatchDone, Requeue, WorkerOnly, queueVars,
              historyVars
<1>6. CASE BatchAbandoned
  BY <1>6, AbandonImplements
<1>7. QED
  BY <1>1, <1>2, <1>3, <1>4, <1>5, <1>6, CallerImplements, SendImplements, DestroyImplements
     DEF Next, WorkerStep, ProcessStep

LEMMA NextCallback ==
  ASSUME CallbackInv, [Next]_vars PROVE CallbackInv'
<1>1. CASE Caller
  BY <1>1 DEF Caller, Enqueue, EnqueueRejected, Dequeue, controlVars, historyVars, CallbackInv
<1>2. ASSUME NEW c \in Controllers, ControllerCall(c) \/ ControllerStep(c)
      PROVE  CallbackInv'
  BY <1>2 DEF ControllerCall, ControllerStep, SetSendCallback, StartCheck, StopCheck,
         DestroyBegin, StartSet, StartSpawn, StopSet, StopNotify, StopJoinable,
         JoinEnter, JoinReturn, Go, historyVars, CallbackInv
<1>3. CASE DestroyEnd \/ Tick \/ UNCHANGED vars
  BY <1>3 DEF DestroyEnd, Tick, vars, controlVars, historyVars, CallbackInv
<1>4. CASE WorkerStep \/ SpuriousWakeup
  <2>1. UNCHANGED callback
    BY <1>4, WorkerSteps DEF controlVars
  <2>2. CASE SendBegin
    BY <2>1, <2>2 DEF SendBegin, CallbackInv
  <2>3. CASE ~SendBegin
    BY <1>4, <2>1, <2>3
       DEF WorkerStep, ProcessStep, WorkerCheck, WorkerLock, WorkerBlock, SpuriousWakeup,
           WorkerReady, WorkerGather, WorkerUnlock, BatchDone, BatchAbandoned,
           SendUnconfigured, SendSucceeds, SendFails, SendThrows, SendRetry, Requeue,
           WorkerOnly, MarkFailed, Verdict, historyVars, CallbackInv
  <2>4. QED
    BY <2>2, <2>3
<1>5. QED
  BY <1>1, <1>2, <1>3, <1>4 DEF Next

\* The queue with its threads, mutex and batches implements MailDelivery: for every
\* number of emails and controllers and every limit, each step of each thread is a
\* step in the life of one email, or the loss of a batch or of what a destroyed
\* queue still held, or none.
THEOREM QueueImplementsDelivery == Spec => ImplementsDelivery
<1>1. Init => CallbackInv /\ Delivery!Init
  <2> SUFFICES ASSUME Init PROVE CallbackInv /\ Delivery!Init
    OBVIOUS
  <2>1. \A e \in Emails : /\ item[e].status = "NONE"
                          /\ e \notin rejected /\ e \notin taken /\ e \notin dropped
    BY DEF Init, NoItem
  <2>2. fate = [e \in Emails |-> "unsubmitted"]
    BY <2>1 DEF fate
  <2>3. QED
    BY <2>2 DEF Init, CallbackInv, Delivery!Init
<1>2. CallbackInv /\ [Next]_vars => CallbackInv'
  BY NextCallback
<1>3. TypeInv /\ OwnedWorker /\ PlacesInv /\ SendInv /\ CallbackInv /\ [Next]_vars
        => [Delivery!Next]_Delivery!vars
  BY NextImplements
<1>4. QED
  BY <1>1, <1>2, <1>3, SendsInvariant, PTL DEF Spec, ImplementsDelivery, Delivery!Spec

=============================================================================
