----------------------------- MODULE EmailQueue -----------------------------
(***************************************************************************)
(* The in-memory email queue: a priority queue guarded by queue_mutex_, a  *)
(* condition variable, one worker thread that sends in batches and         *)
(* re-queues what failed, and the calls that other threads make on the     *)
(* object.                                                                 *)
(*                                                                         *)
(* Critical sections of the callers are single steps here (the code holds  *)
(* a lock_guard for the whole call).  The worker's critical section spans  *)
(* several steps, because running_ is an atomic that stop() writes without *)
(* the mutex: WorkerHoldsMutex names the program points inside it.         *)
(***************************************************************************)
EXTENDS Naturals, Sequences, FiniteSets, Functions

CONSTANTS
  Emails,        \* one member for each enqueue() call of a behaviour
  Controllers,   \* the threads that call start(), stop() and the destructor
  Priorities,    \* the EmailPriority values in use
  MaxQueueSize,  \* max_queue_size_
  BatchSize,     \* batch_size_
  MaxRetries,    \* QueueItem::max_retries
  RetryDelay,    \* the initial QueueItem::retry_delay, in ticks
  DelayCap       \* the one-hour cap of updateRetryInfo, in ticks

ASSUME QueueAssumption ==
  /\ IsFiniteSet(Emails)
  /\ Priorities \subseteq Nat
  /\ Priorities # {}
  /\ MaxQueueSize \in Nat
  /\ BatchSize \in Nat \ {0}
  /\ MaxRetries \in Nat
  /\ RetryDelay \in Nat
  /\ DelayCap \in Nat
  /\ RetryDelay <= DelayCap

VARIABLES
  queue,      \* email_queue_: the emails stored in it
  item,       \* the QueueItem of each email
  batch,      \* workerLoop's local batch; its head is the item in hand
  tries,      \* workerLoop's loop index i while it gathers a batch
  wpc,        \* where the worker thread is
  running,    \* running_
  handle,     \* worker_thread_.joinable()
  cpc,        \* where each controller thread is
  callback,   \* send_callback_ is set
  processed,  \* total_processed_
  failures,   \* total_failed_
  retries,    \* total_retries_
  life,       \* "alive", "dying" (in the destructor) or "destroyed"
  fault,      \* std::terminate or an escaping std::system_error
  \* history
  attempts,   \* how often the callback was invoked for each email
  delivered,  \* how often it reported success for each email
  taken,      \* emails handed to a caller of dequeue()
  rejected,   \* emails whose enqueue() found the queue full
  dropped     \* emails destroyed with an unfinished batch or with the queue

queueVars   == <<queue, item, batch>>
workerVars  == <<tries, wpc>>
controlVars == <<running, handle, cpc, callback, life, fault>>
counterVars == <<processed, failures, retries>>
historyVars == <<attempts, delivered, taken, rejected, dropped>>
vars == <<queueVars, workerVars, controlVars, counterVars, historyVars>>

Statuses == {"NONE", "PENDING", "PROCESSING", "SENT", "FAILED", "RETRY"}
Items == [status : Statuses, priority : Priorities, created_at : Nat,
          retry_count : Nat, retry_delay : Nat, elapsed : Nat]
WorkerPoints == {"exited", "check", "lock", "block", "waiting", "woken",
                 "ready", "gather", "process", "calling", "requeue"}
ControllerPoints == {"idle", "start_set", "start_spawn", "stop_set",
                     "stop_notify", "stop_join", "join", "joining"}

(***************************************************************************)
(* Helpers                                                                 *)
(***************************************************************************)
InBatch  == Range(batch)
Accepted == {e \in Emails : item[e].status # "NONE"}
Sent     == {e \in Emails : item[e].status = "SENT"}
Failed   == {e \in Emails : item[e].status = "FAILED"}

\* The worker is between lock() and unlock() (or the wait that releases it).
WorkerHoldsMutex == wpc \in {"block", "ready", "gather"}

\* size() >= max_queue_size_, the only limit check of the code.
QueueFull_OffByOne == Cardinality(queue) > MaxQueueSize
QueueFull == Cardinality(queue) >= MaxQueueSize

\* The predicate of the wait.
WaitPredicate_IgnoresStop == queue # {}
WaitPredicate == ~running \/ queue # {}

\* The condition of the gathering loop.
MoreToGather_OffByOne == tries <= BatchSize /\ queue # {}
MoreToGather == tries < BatchSize /\ queue # {}

\* notify_one() and notify_all(): there is at most one waiter, the worker.
NotifyWorker_Lost == wpc' = wpc
NotifyWorker == wpc' = IF wpc = "waiting" THEN "woken" ELSE wpc

\* a is served after b: the strict order given to the priority_queue.
comparePriority_NewestFirst(a, b) ==
  \/ item[a].priority < item[b].priority
  \/ /\ item[a].priority = item[b].priority
     /\ item[a].created_at < item[b].created_at
comparePriority(a, b) ==
  \/ item[a].priority < item[b].priority
  \/ /\ item[a].priority = item[b].priority
     /\ item[a].created_at > item[b].created_at

IsTop(e) == e \in queue /\ \A f \in queue : ~comparePriority(e, f)

shouldRetry_OffByOne(e) == item[e].retry_count <= MaxRetries
shouldRetry(e) == item[e].retry_count < MaxRetries

\* A RETRY item whose delay has not elapsed since its last attempt.
NotReady_TickEarly(e) == /\ item[e].status = "RETRY"
                         /\ item[e].elapsed + 1 < item[e].retry_delay
NotReady(e) == /\ item[e].status = "RETRY"
               /\ item[e].elapsed < item[e].retry_delay

\* The delay after the n-th failure: the previous delay times 2^(n-1), capped.
NextDelay(delay, n) ==
  LET d == delay * 2^(n - 1) IN IF d > DelayCap THEN DelayCap ELSE d

updateRetryInfo(q) ==
  [q EXCEPT !.retry_count = q.retry_count + 1,
            !.retry_delay = NextDelay(q.retry_delay, q.retry_count + 1)]

NewItem(priority) ==
  [status |-> "PENDING", priority |-> priority,
   created_at |-> Cardinality(Accepted),
   retry_count |-> 0, retry_delay |-> RetryDelay, elapsed |-> 0]

(***************************************************************************)
(* Calls of any thread                                                     *)
(***************************************************************************)
Fresh(e) == life = "alive" /\ ~WorkerHoldsMutex /\ e \notin Accepted \cup rejected

Enqueue(e, priority) ==
  /\ Fresh(e) /\ ~QueueFull
  /\ item' = [item EXCEPT ![e] = NewItem(priority)]
  /\ queue' = queue \cup {e}
  /\ NotifyWorker
  /\ UNCHANGED <<batch, tries, controlVars, counterVars, historyVars>>

\* The queue is full: the call logs and returns, and its caller cannot tell.
EnqueueRejected(e) ==
  /\ Fresh(e) /\ QueueFull
  /\ rejected' = rejected \cup {e}
  /\ UNCHANGED <<queueVars, workerVars, controlVars, counterVars,
                 attempts, delivered, taken, dropped>>

PopTop_NoPop(e) == IsTop(e) /\ UNCHANGED queue
PopTop(e) == IsTop(e) /\ queue' = queue \ {e}

Dequeue(e) ==
  /\ life = "alive" /\ ~WorkerHoldsMutex
  /\ PopTop(e)
  /\ taken' = taken \cup {e}
  /\ UNCHANGED <<item, batch, workerVars, controlVars, counterVars,
                 attempts, delivered, rejected, dropped>>

\* Time passes for the items whose last_attempt has been set.
Aging(e) == /\ item[e].status \in {"PROCESSING", "RETRY"}
            /\ item[e].elapsed < DelayCap
Tick ==
  /\ \E e \in Emails : Aging(e)
  /\ item' = [e \in Emails |->
                IF Aging(e) THEN [item[e] EXCEPT !.elapsed = @ + 1] ELSE item[e]]
  /\ UNCHANGED <<queue, batch, workerVars, controlVars, counterVars, historyVars>>

(***************************************************************************)
(* start(), stop() and the destructor, one atomic access at a time         *)
(***************************************************************************)
\* A controller moves; it touches no email and no counter.
Go(c, from, to) ==
  /\ cpc[c] = from /\ cpc' = [cpc EXCEPT ![c] = to]
  /\ UNCHANGED <<queueVars, tries, callback, counterVars, historyVars>>

\* The callback is set before the queue is first started.
SetSendCallback(c) ==
  /\ life = "alive" /\ cpc[c] = "idle" /\ ~running /\ ~handle
  /\ callback' = TRUE
  /\ UNCHANGED <<queueVars, workerVars, running, handle, cpc, life, fault,
                 counterVars, historyVars>>

\* start() returns at once when running_ is set, and stop() when it is not.
StartCheck_Unchecked(c) ==
  /\ life = "alive" /\ Go(c, "idle", "start_set")
  /\ UNCHANGED <<wpc, running, handle, life, fault>>
StartCheck(c) ==
  /\ life = "alive" /\ ~running /\ Go(c, "idle", "start_set")
  /\ UNCHANGED <<wpc, running, handle, life, fault>>

StartSet(c) ==
  /\ Go(c, "start_set", "start_spawn") /\ running' = TRUE
  /\ UNCHANGED <<wpc, handle, life, fault>>

\* Assigning a thread over a joinable one calls std::terminate.
StartSpawn(c) ==
  /\ Go(c, "start_spawn", "idle")
  /\ handle' = TRUE /\ fault' = handle
  /\ wpc' = IF handle THEN wpc ELSE "check"
  /\ UNCHANGED <<running, life>>

StopCheck(c) ==
  /\ life = "alive" /\ running /\ Go(c, "idle", "stop_set")
  /\ UNCHANGED <<wpc, running, handle, life, fault>>

StopSet(c) ==
  /\ Go(c, "stop_set", "stop_notify") /\ running' = FALSE
  /\ UNCHANGED <<wpc, handle, life, fault>>

StopNotify(c) ==
  /\ Go(c, "stop_notify", "stop_join") /\ NotifyWorker
  /\ UNCHANGED <<running, handle, life, fault>>

StopJoinable(c) ==
  /\ Go(c, "stop_join", IF handle THEN "join" ELSE "idle")
  /\ UNCHANGED <<wpc, running, handle, life, fault>>

\* join() throws std::system_error on a thread that is joined already.
JoinEnter(c) ==
  /\ Go(c, "join", "joining")
  /\ fault' = (~handle \/ \E d \in Controllers : cpc[d] = "joining")
  /\ UNCHANGED <<wpc, running, handle, life>>

Joined_Early == handle' = FALSE
Joined == wpc = "exited" /\ handle' = FALSE

JoinReturn(c) ==
  /\ Go(c, "joining", "idle") /\ Joined
  /\ UNCHANGED <<wpc, running, life, fault>>

\* ~EmailQueue() calls stop(); the object is not in use by another caller.
AllIdle == \A d \in Controllers : cpc[d] = "idle"

DestroyBegin(c) ==
  /\ life = "alive" /\ AllIdle /\ life' = "dying"
  /\ Go(c, "idle", IF running THEN "stop_set" ELSE "idle")
  /\ UNCHANGED <<wpc, running, handle, fault>>

\* Then the members go: ~thread() terminates if it is still joinable, and the
\* priority_queue takes the emails that are still in it along.
DestroyEnd ==
  /\ life = "dying" /\ AllIdle /\ life' = "destroyed"
  /\ fault' = handle
  /\ queue' = IF handle THEN queue ELSE {}
  /\ dropped' = IF handle THEN dropped ELSE dropped \cup queue
  /\ UNCHANGED <<item, batch, workerVars, running, handle, cpc, callback,
                 counterVars, attempts, delivered, taken, rejected>>

(***************************************************************************)
(* The worker thread                                                       *)
(***************************************************************************)
WorkerGo(from, to) == wpc = from /\ wpc' = to /\ UNCHANGED controlVars

\* A step that moves the worker and changes nothing else.
WorkerOnly(from, to) ==
  WorkerGo(from, to) /\ UNCHANGED <<queueVars, tries, counterVars, historyVars>>

WorkerCheck == WorkerOnly("check", IF running THEN "lock" ELSE "exited")

\* Take the mutex and evaluate the predicate of the wait.
WorkerLock ==
  \E from \in {"lock", "woken"} :
    WorkerOnly(from, IF WaitPredicate THEN "ready" ELSE "block")

\* Only here does the worker become a waiter that a notification can reach.
WorkerBlock == WorkerOnly("block", "waiting")

SpuriousWakeup == WorkerOnly("waiting", "woken")

WorkerReady == WorkerOnly("ready", IF running THEN "gather" ELSE "exited")

\* One round of the gathering loop.  An item that is not ready goes straight
\* back, so the next round finds it on top again.
WorkerGather ==
  /\ WorkerGo("gather", "gather") /\ MoreToGather
  /\ tries' = tries + 1
  /\ \E e \in queue :
       \/ IsTop(e) /\ NotReady(e) /\ UNCHANGED <<queue, batch>>
       \/ PopTop(e) /\ ~NotReady(e) /\ batch' = Append(batch, e)
  /\ UNCHANGED <<item, counterVars, historyVars>>

WorkerUnlock ==
  /\ WorkerGo("gather", "process") /\ ~MoreToGather
  /\ tries' = 0
  /\ UNCHANGED <<queueVars, counterVars, historyVars>>

\* The batch is done; sleep_for(100ms) and back to the loop condition.
BatchDone == batch = <<>> /\ WorkerOnly("process", "check")

\* The break out of the batch loop: the rest of the batch is destroyed.
BatchAbandoned ==
  /\ batch # <<>> /\ ~running
  /\ WorkerGo("process", "check")
  /\ dropped' = dropped \cup InBatch
  /\ batch' = <<>>
  /\ UNCHANGED <<queue, item, tries, counterVars,
                 attempts, delivered, taken, rejected>>

\* A verdict on the item in hand; workerLoop goes on with the next one.
Verdict(status) ==
  /\ item' = [item EXCEPT ![Head(batch)].status = status]
  /\ batch' = Tail(batch)
  /\ UNCHANGED <<queue, tries, retries, attempts, taken, rejected, dropped>>

MarkFailed_Uncounted == Verdict("FAILED") /\ UNCHANGED <<failures, processed, delivered>>
MarkFailed ==
  Verdict("FAILED") /\ failures' = failures + 1 /\ UNCHANGED <<processed, delivered>>

\* processEmail without a callback.
SendUnconfigured ==
  batch # <<>> /\ running /\ ~callback /\ WorkerGo("process", "process") /\ MarkFailed

\* processEmail up to the call of the callback.
SendBegin ==
  /\ batch # <<>> /\ running /\ callback
  /\ WorkerGo("process", "calling")
  /\ item' = [item EXCEPT ![Head(batch)].status = "PROCESSING",
                          ![Head(batch)].elapsed = 0]
  /\ attempts' = [attempts EXCEPT ![Head(batch)] = @ + 1]
  /\ UNCHANGED <<queue, batch, tries, counterVars,
                 delivered, taken, rejected, dropped>>

Deliver ==
  /\ processed' = processed + 1
  /\ delivered' = [delivered EXCEPT ![Head(batch)] = @ + 1]
  /\ UNCHANGED failures

SendSucceeds_FallsThrough ==
  /\ WorkerGo("calling", "requeue") /\ Deliver
  /\ item' = [item EXCEPT ![Head(batch)].status = "SENT"]
  /\ UNCHANGED <<queue, batch, tries, retries, attempts, taken, rejected, dropped>>
SendSucceeds == WorkerGo("calling", "process") /\ Verdict("SENT") /\ Deliver

\* An unsuccessful result without retries left.
SendFails == WorkerGo("calling", "process") /\ ~shouldRetry(Head(batch)) /\ MarkFailed

\* An exception from the callback fails the item whatever retries it has left.
SendThrows == WorkerGo("calling", "process") /\ MarkFailed

SendRetry ==
  /\ WorkerGo("calling", "requeue") /\ shouldRetry(Head(batch))
  /\ item' = [item EXCEPT
                ![Head(batch)] = [updateRetryInfo(@) EXCEPT !.status = "RETRY"]]
  /\ retries' = retries + 1
  /\ UNCHANGED <<queue, batch, tries, processed, failures, historyVars>>

\* The push takes the mutex and checks no limit.
Requeue ==
  /\ WorkerGo("requeue", "process")
  /\ queue' = queue \cup {Head(batch)}
  /\ batch' = Tail(batch)
  /\ UNCHANGED <<item, tries, counterVars, historyVars>>

(***************************************************************************)
(* The specification                                                       *)
(***************************************************************************)
NoItem == [status |-> "NONE", priority |-> CHOOSE p \in Priorities : TRUE,
           created_at |-> 0, retry_count |-> 0, retry_delay |-> RetryDelay,
           elapsed |-> 0]

Init ==
  /\ queue = {} /\ batch = <<>> /\ tries = 0
  /\ item = [e \in Emails |-> NoItem]
  /\ wpc = "exited" /\ running = FALSE /\ handle = FALSE
  /\ cpc = [c \in Controllers |-> "idle"]
  /\ callback = FALSE /\ life = "alive" /\ fault = FALSE
  /\ processed = 0 /\ failures = 0 /\ retries = 0
  /\ attempts = [e \in Emails |-> 0] /\ delivered = [e \in Emails |-> 0]
  /\ taken = {} /\ rejected = {} /\ dropped = {}

Caller ==
  \E e \in Emails : \/ \E p \in Priorities : Enqueue(e, p)
                    \/ EnqueueRejected(e)
                    \/ Dequeue(e)

\* A controller that is inside start() or stop().
ControllerStep(c) ==
  \/ StartSet(c) \/ StartSpawn(c)
  \/ StopSet(c) \/ StopNotify(c) \/ StopJoinable(c) \/ JoinEnter(c) \/ JoinReturn(c)

ControllerCall(c) ==
  SetSendCallback(c) \/ StartCheck(c) \/ StopCheck(c) \/ DestroyBegin(c)

\* processEmail and the loop around it.
ProcessStep ==
  \/ BatchDone \/ BatchAbandoned \/ SendUnconfigured \/ SendBegin
  \/ SendSucceeds \/ SendFails \/ SendThrows \/ SendRetry \/ Requeue

WorkerStep ==
  \/ WorkerCheck \/ WorkerLock \/ WorkerBlock \/ WorkerReady
  \/ WorkerGather \/ WorkerUnlock
  \/ ProcessStep

\* Nothing runs after a fault: the process is gone.
Next ==
  /\ ~fault
  /\ \/ Caller
     \/ \E c \in Controllers : ControllerCall(c) \/ ControllerStep(c)
     \/ DestroyEnd
     \/ WorkerStep \/ SpuriousWakeup
     \/ Tick

Spec == Init /\ [][Next]_vars

\* The operating system runs every thread that can run, the clock advances and
\* the callback returns, which is an assumption about the mail server: nothing
\* limits the time of the callback.  No thread has to make a call, and no wait
\* has to end without a notification.
Fairness ==
  /\ WF_vars(~fault /\ WorkerStep)
  /\ WF_vars(~fault /\ Tick)
  /\ \A c \in Controllers : WF_vars(~fault /\ ControllerStep(c))

FairSpec == Spec /\ Fairness

(***************************************************************************)
(* Properties                                                              *)
(***************************************************************************)
TypeOK ==
  /\ queue \subseteq Emails
  /\ item \in [Emails -> Items]
  /\ batch \in Seq(Emails)
  /\ tries \in 0..BatchSize
  /\ wpc \in WorkerPoints
  /\ running \in BOOLEAN /\ handle \in BOOLEAN
  /\ cpc \in [Controllers -> ControllerPoints]
  /\ callback \in BOOLEAN /\ fault \in BOOLEAN
  /\ life \in {"alive", "dying", "destroyed"}
  /\ processed \in Nat /\ failures \in Nat /\ retries \in Nat
  /\ attempts \in [Emails -> Nat] /\ delivered \in [Emails -> Nat]
  /\ taken \subseteq Emails /\ rejected \subseteq Emails /\ dropped \subseteq Emails

\* Every accepted email is in exactly one place: in the queue, in the batch
\* (once), with a verdict, taken by a caller, or dropped by a stop or with the
\* queue itself.  So the
\* worker's pop, put-back and re-push and the callers' calls neither lose an
\* email nor leave two copies of it.
Accounted ==
  /\ Accepted = queue \cup InBatch \cup Sent \cup Failed \cup taken \cup dropped
  /\ queue \cap (InBatch \cup Sent \cup Failed \cup taken \cup dropped) = {}
  /\ InBatch \cap (Sent \cup Failed \cup taken \cup dropped) = {}
  /\ (Sent \cup Failed) \cap (taken \cup dropped) = {}
  /\ taken \cap dropped = {}
  /\ IsInjective(batch)

\* An email is delivered at most once, and one that is handed out, dropped or
\* still waiting in the queue has not been delivered: no path from a success
\* leads back to the queue.
DeliveredOnce ==
  \A e \in Emails : delivered[e] = IF item[e].status = "SENT" THEN 1 ELSE 0

\* The number of invocations of the callback follows from the retry count: one
\* for each retry, and one more for the invocation whose outcome is final or
\* pending.  With it, no email is tried more than max_retries + 1 times.
AttemptsFollowRetries ==
  \A e \in Emails :
    /\ item[e].retry_count <= MaxRetries
    /\ attempts[e] \in {item[e].retry_count, item[e].retry_count + 1}
    /\ item[e].status \in {"PENDING", "RETRY"} => attempts[e] = item[e].retry_count
    /\ item[e].status \in {"PROCESSING", "SENT"} => attempts[e] = item[e].retry_count + 1

\* The statistics agree with what happened to the emails.
StatisticsAgree ==
  /\ processed = Cardinality(Sent)
  /\ failures = Cardinality(Failed)

\* The queue exceeds its limit by at most one batch: the re-push of a retry
\* ignores max_queue_size_, and only emails of one batch can be on their way.
QueueBound ==
  Cardinality(queue) + Len(batch) <= MaxQueueSize + BatchSize

\* Emails of one priority get their first attempt in the order of acceptance,
\* unless the earlier one was taken or dropped.
FifoWithinPriority ==
  \A e, f \in Accepted :
    /\ item[e].priority = item[f].priority
    /\ item[e].created_at < item[f].created_at
    /\ attempts[f] > 0
    => attempts[e] > 0 \/ e \in taken \cup dropped \/ item[e].status = "FAILED"

\* A retry is never attempted before its delay has passed, although the test is
\* made when the batch is gathered and the attempt follows after other sends.
RetryNotEarly ==
  [][\A e \in Emails :
       attempts'[e] > attempts[e] /\ attempts[e] > 0
         => item[e].elapsed >= item[e].retry_delay]_vars

\* The std::thread object is used properly: no assignment over a running
\* thread, no second join, no destruction of a joinable one.
NoThreadFault == ~fault

\* A destroyed queue has no worker left, and no stop() returns before the
\* worker is gone, so the worker never touches a dead object.
NoWorkerAfterStop ==
  (life = "destroyed" \/ (~running /\ \A c \in Controllers : cpc[c] = "idle"))
    => wpc = "exited"

\* The process has at most one worker thread for the queue: start() never
\* leaves a running worker without the handle that stop() joins, whatever
\* starts and stops race (a second start ends the process instead).
OwnedWorker == wpc # "exited" => handle

\* While the queue keeps running, every email in it gets a verdict or is taken.
EveryEmailResolved ==
  \A e \in Emails :
    (e \in queue) ~> (e \in Sent \cup Failed \cup taken \/ ~running)

\* stop() returns if the worker, when the join begins, is anywhere but between
\* the evaluation of the wait predicate and the end of the wait.
StopReachesBusyWorker ==
  \A c \in Controllers :
    (cpc[c] = "joining" /\ wpc \notin {"block", "waiting"}) ~> (cpc[c] = "idle")

\* The comment on the wait: the worker waits "for emails or stop signal", so a
\* worker that waits while running_ is false is woken.
StopSignalEndsWait == (wpc = "waiting" /\ ~running) ~> (wpc # "waiting")

=============================================================================
