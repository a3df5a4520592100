---------------------------- MODULE WebhooksProofs ----------------------------
(***************************************************************************)
(* What TLAPS proves of the webhook processor, for every set of threads,   *)
(* of requests and of registrations.                                       *)
(*                                                                         *)
(* Nothing here rests on mutex_: an event is counted, and its callbacks are *)
(* gone through, by one thread in steps of its own, and the callbacks of a *)
(* type only grow.  What the steps leave behind is therefore said thread by *)
(* thread: which callbacks have run (RunInv), how many the call may count  *)
(* on (KnownInv) and which events are counted (CountInv).                  *)
(***************************************************************************)
EXTENDS Webhooks, FiniteSetTheorems, TLAPS

Calls == [events : Seq(WebhookEventType), next : Nat \ {0}, at : Nat \ {0}, seen : Nat,
          known : [WebhookEventType -> Nat], ran : Seq(Nat \X Nat)]

\* The types of the variables, and a call that is at an event has that event.
TypeOK ==
  /\ callbacks_ \in [WebhookEventType -> Seq(Behaviours)]
  /\ statistics_ \in [Counters -> Nat]
  /\ pc \in [Threads -> {"idle", "event", "notify", "callback", "stuck",
                         "read_failed", "write_failed"}]
  /\ call \in [Threads -> Calls]
  /\ refused \in Nat
  /\ \A t \in Threads : pc[t] \in {"notify", "callback", "stuck"} => HasEvent(t)

(***************************************************************************)
(* Requests: whatever a provider posts, what is parsed is a sequence of    *)
(* event types.                                                            *)
(***************************************************************************)
LEMMA TypeInType ==
  ASSUME NEW name
  PROVE  /\ TypeIn(mapSendGridEventType, name) \in WebhookEventType
         /\ TypeIn(mapMailgunEventType, name) \in WebhookEventType
         /\ TypeIn(mapSESEventType, name) \in WebhookEventType
BY DEF TypeIn, mapSendGridEventType, mapMailgunEventType, mapSESEventType, WebhookEventType

LEMMA ParsedType ==
  ASSUME NEW r \in Requests, ~Rejected(r)
  PROVE  processPayload(r) \in Seq(WebhookEventType)
<1>1. SendGridEvents(r) \in Seq(WebhookEventType)
  <2> DEFINE taken == {i \in DOMAIN r.items : \A j \in 1..i : r.items[j] # "object"}
  <2>1. IsFiniteSet(taken)
    <3>1. r.items \in Seq(STRING)
      BY WebhookAssumption
    <3>2. DOMAIN r.items = 1..Len(r.items) /\ Len(r.items) \in Nat
      BY <3>1
    <3>3. IsFiniteSet(1..Len(r.items))
      BY <3>2, FS_Interval
    <3>4. taken \in SUBSET (1..Len(r.items))
      BY <3>2
    <3> QED
      BY <3>3, <3>4, FS_Subset
  <2>2. Cardinality(taken) \in Nat
    BY <2>1, FS_CardinalityType
  <2>3. [i \in 1..Cardinality(taken) |-> TypeIn(mapSendGridEventType, r.items[i])]
          \in Seq(WebhookEventType)
    <3> HIDE DEF taken
    <3> QED
      BY <2>2, TypeInType
  <2> QED
    BY <2>3 DEF SendGridEvents
<1>2. MailgunEvents(r) \in Seq(WebhookEventType)
  BY TypeInType DEF MailgunEvents
<1>3. SESEvents(r) \in Seq(WebhookEventType)
  <2>1. "UNKNOWN" \in WebhookEventType
    BY DEF WebhookEventType
  <2> QED
    BY <2>1, TypeInType DEF SESEvents
<1> QED
  BY <1>1, <1>2, <1>3 DEF processPayload, Rejected, SupportedProviders

LEMMA NoCallType == NoCall \in Calls /\ NoCall.events = <<>> /\ NoCall.ran = <<>>
BY DEF NoCall, Calls, WebhookEventType

\* What the steps of a call put into its record.
LEMMA CallUpdates ==
  ASSUME NEW c \in Calls, NEW n \in Nat \ {0}, NEW ran \in Seq(Nat \X Nat)
  PROVE  /\ [c EXCEPT !.next = n] \in Calls /\ [c EXCEPT !.at = n] \in Calls
         /\ [c EXCEPT !.ran = ran] \in Calls
         /\ [c EXCEPT !.ran = ran, !.at = n] \in Calls
         /\ [c EXCEPT !.ran = ran, !.next = n] \in Calls
BY DEF Calls

LEMMA RegisteredType ==
  ASSUME TypeOK
  PROVE  Registered \in [WebhookEventType -> Nat]
BY DEF TypeOK, Registered

LEMMA EventType ==
  ASSUME TypeOK, NEW t \in Threads, HasEvent(t)
  PROVE  /\ call[t].next \in DOMAIN call[t].events
         /\ Event(t) \in WebhookEventType
<1>1. call[t] \in Calls
  BY DEF TypeOK
<1>2. call[t].events \in Seq(WebhookEventType) /\ call[t].next \in Nat \ {0}
  BY <1>1 DEF Calls
<1> QED
  BY <1>2 DEF HasEvent, Event

(***************************************************************************)
(* Types                                                                   *)
(***************************************************************************)
LEMMA TypeStep == TypeOK /\ [Next]_vars => TypeOK'
<1> SUFFICES ASSUME TypeOK, [Next]_vars PROVE TypeOK'
  OBVIOUS
<1> USE DEF TypeOK, HasEvent
<1>1. ASSUME NEW registration \in Registrations,
             registerCallback(registration[1], registration[2])
      PROVE  TypeOK'
  <2>1. registration[1] \in WebhookEventType /\ registration[2] \in Behaviours
    BY WebhookAssumption
  <2>2. callbacks_' \in [WebhookEventType -> Seq(Behaviours)]
    BY <1>1, <2>1 DEF registerCallback
  <2> QED
    BY <1>1, <2>2 DEF registerCallback
<1>2. ASSUME NEW t \in Threads, NEW r \in Requests, processWebhook(t, r)
      PROVE  TypeOK'
  <2>1. (IF Rejected(r) THEN <<>> ELSE processPayload(r)) \in Seq(WebhookEventType)
    BY ParsedType
  <2>2. [NoCall EXCEPT !.events = IF Rejected(r) THEN <<>> ELSE processPayload(r),
                       !.known = Registered] \in Calls
    BY <2>1, RegisteredType, NoCallType DEF Calls
  <2>3. call' \in [Threads -> Calls]
    BY <1>2, <2>2 DEF processWebhook
  <2>4. pc'[t] \notin {"notify", "callback", "stuck"}
    BY <1>2 DEF processWebhook
  <2> QED
    BY <1>2, <2>3, <2>4 DEF processWebhook
<1>3. ASSUME NEW t \in Threads, Progress(t) PROVE TypeOK'
  <2>0. call[t] \in Calls
    OBVIOUS
  <2>1. CASE updateStatistics(t)
    BY <2>1 DEF updateStatistics
  <2>2. CASE FindCallbacks(t)
    <3>1. call[t].next + 1 \in Nat \ {0}
      BY <2>0 DEF Calls
    <3>2. call' \in [Threads -> Calls]
      <4>1. \/ call' = [call EXCEPT ![t] = [call[t] EXCEPT !.next = call[t].next + 1]]
            \/ call' = [call EXCEPT ![t] = [call[t] EXCEPT !.at = 1]]
        BY <2>2 DEF FindCallbacks
      <4>2. /\ [call[t] EXCEPT !.next = call[t].next + 1] \in Calls
            /\ [call[t] EXCEPT !.at = 1] \in Calls
        <5>1. call[t].ran \in Seq(Nat \X Nat) /\ 1 \in Nat \ {0}
          BY <2>0 DEF Calls
        <5> QED
          BY <2>0, <3>1, <5>1, CallUpdates
      <4> QED
        BY <4>1, <4>2
    <3>3. /\ pc'[t] # "event" => pc[t] = "notify" /\ pc'[t] = "callback"
          /\ pc'[t] # "event" => call'[t].next = call[t].next
          /\ call'[t].events = call[t].events
      BY <2>0, <2>2 DEF FindCallbacks, Calls
    <3>4. ASSUME NEW s \in Threads, pc'[s] \in {"notify", "callback", "stuck"}
          PROVE  HasEvent(s)'
      BY <2>2, <3>3, <3>4 DEF FindCallbacks
    <3> QED
      BY <2>2, <3>2, <3>4 DEF FindCallbacks
  <2>3. CASE CallbackReturns(t)
    <3>1. Ran(t) \in Seq(Nat \X Nat)
      BY <2>0 DEF Ran, Calls
    <3>2. call[t].next + 1 \in Nat \ {0} /\ call[t].at + 1 \in Nat \ {0}
      BY <2>0 DEF Calls
    <3>3. call' \in [Threads -> Calls]
      <4>1. \/ call' = [call EXCEPT ![t] = [call[t] EXCEPT !.ran = Ran(t), !.at = call[t].at + 1]]
            \/ call' = [call EXCEPT ![t] = [call[t] EXCEPT !.ran = Ran(t),
                                                           !.next = call[t].next + 1]]
        BY <2>0, <2>3 DEF CallbackReturns, Calls
      <4>2. /\ [call[t] EXCEPT !.ran = Ran(t), !.at = call[t].at + 1] \in Calls
            /\ [call[t] EXCEPT !.ran = Ran(t), !.next = call[t].next + 1] \in Calls
        BY <2>0, <3>1, <3>2, CallUpdates
      <4> QED
        BY <4>1, <4>2
    <3>4. /\ pc'[t] # "event" => pc[t] = "callback" /\ pc'[t] = "callback"
          /\ pc'[t] # "event" => call'[t].next = call[t].next
          /\ call'[t].events = call[t].events
      BY <2>0, <2>3 DEF CallbackReturns, Calls
    <3>5. ASSUME NEW s \in Threads, pc'[s] \in {"notify", "callback", "stuck"}
          PROVE  HasEvent(s)'
      BY <2>3, <3>4, <3>5 DEF CallbackReturns
    <3> QED
      BY <2>3, <3>3, <3>5 DEF CallbackReturns
  <2>4. CASE CallbackThrows(t)
    <3>1. Ran(t) \in Seq(Nat \X Nat)
      BY <2>0 DEF Ran, Calls
    <3>2. call' \in [Threads -> Calls]
      BY <2>0, <2>4, <3>1 DEF CallbackThrows, Calls
    <3> QED
      BY <2>0, <2>4, <3>2 DEF CallbackThrows, Calls
  <2>5. CASE CallbackReenters(t)
    BY <2>5 DEF CallbackReenters
  <2>6. CASE ReturnTrue(t)
    BY <2>6, NoCallType DEF ReturnTrue
  <2>7. CASE ReadFailed(t)
    BY <2>0, <2>7 DEF ReadFailed, Calls, Counters
  <2>8. CASE WriteFailed(t)
    <3>1. call[t].seen \in Nat
      BY <2>0 DEF Calls
    <3> QED
      BY <2>8, <3>1, NoCallType DEF WriteFailed, Counters
  <2> QED
    BY <1>3, <2>1, <2>2, <2>3, <2>4, <2>5, <2>6, <2>7, <2>8 DEF Progress
<1>4. CASE UNCHANGED vars
  BY <1>4 DEF vars
<1> QED
  BY <1>1, <1>2, <1>3, <1>4 DEF Next

LEMMA TypeCorrect == Spec => []TypeOK
<1>1. Init => TypeOK
  BY NoCallType DEF Init, TypeOK, Counters, HasEvent
<1> QED
  BY <1>1, TypeStep, PTL DEF Spec

(***************************************************************************)
(* The callbacks that a call has run                                       *)
(***************************************************************************)
\* Those of earlier events came before, those of the event at hand up to the
\* one at hand: what the call runs next comes after all of them.
RunOK(c, point) ==
  /\ \A i, j \in DOMAIN c.ran : i < j => Before(c.ran[i], c.ran[j])
  /\ point \in {"event", "notify"} => \A i \in DOMAIN c.ran : c.ran[i][1] < c.next
  /\ point = "callback" => \A i \in DOMAIN c.ran : Before(c.ran[i], <<c.next, c.at>>)
RunInv == \A t \in Threads : RunOK(call[t], pc[t])

\* A type has no fewer callbacks than when the call began, and those it had then
\* have all run with the events behind, and up to the one at hand with this one.
KnownOK(c, point) ==
  /\ point \in {"event", "notify", "callback"} =>
       \A i \in DOMAIN c.events : i < c.next =>
         \A k \in 1..c.known[c.events[i]] : <<i, k>> \in ToSet(c.ran)
  /\ point = "callback" => \A k \in 1..(c.at - 1) : <<c.next, k>> \in ToSet(c.ran)
KnownInv ==
  \A t \in Threads :
    /\ \A type \in WebhookEventType : call[t].known[type] <= Len(callbacks_[type])
    /\ KnownOK(call[t], pc[t])

\* The counted events of a type are finitely many, and all in its counter; a
\* thread that is about to write the failure count has read no more than the
\* number of calls that returned false.
AllCounted(type) == UNION {{t} \X Counted(t, type) : t \in Threads}
CountInv ==
  /\ \A type \in DOMAIN CounterOf :
       IsFiniteSet(AllCounted(type))
         /\ Cardinality(AllCounted(type)) <= statistics_[CounterOf[type]]
  /\ statistics_["failed"] <= refused
  /\ refused > 0 => statistics_["failed"] > 0
  /\ \A t \in Threads : pc[t] = "write_failed" => call[t].seen <= refused

LEMMA AppendRan ==
  ASSUME NEW ran \in Seq(Nat \X Nat), NEW pair \in Nat \X Nat
  PROVE  /\ DOMAIN Append(ran, pair) = DOMAIN ran \cup {Len(ran) + 1}
         /\ \A i \in DOMAIN ran : i < Len(ran) + 1 /\ Append(ran, pair)[i] = ran[i]
         /\ Append(ran, pair)[Len(ran) + 1] = pair
         /\ ToSet(Append(ran, pair)) = ToSet(ran) \cup {pair}
<1>1. /\ DOMAIN Append(ran, pair) = 1..(Len(ran) + 1)
      /\ DOMAIN ran = 1..Len(ran) /\ Len(ran) \in Nat
      /\ \A i \in 1..Len(ran) : Append(ran, pair)[i] = ran[i]
      /\ Append(ran, pair)[Len(ran) + 1] = pair
  OBVIOUS
<1>2. DOMAIN Append(ran, pair) = DOMAIN ran \cup {Len(ran) + 1}
  BY <1>1
<1>3. ToSet(Append(ran, pair)) = ToSet(ran) \cup {pair}
  BY <1>1, <1>2 DEF ToSet
<1> QED
  BY <1>1, <1>2, <1>3

LEMMA BeforeNext ==
  ASSUME NEW pair \in Nat \X Nat, NEW n \in Nat, NEW k \in Nat
  PROVE  /\ Before(pair, <<n, k>>) => pair[1] < n + 1 /\ Before(pair, <<n, k + 1>>)
         /\ pair[1] < n => pair[1] < n + 1 /\ Before(pair, <<n, k>>)
<1>1. PICK a \in Nat, b \in Nat : pair = <<a, b>>
  OBVIOUS
<1> QED
  BY <1>1 DEF Before

LEMMA NoneRan ==
  ASSUME NEW c, c.ran = <<>>, NEW point
  PROVE  RunOK(c, point)
BY DEF RunOK

\* A callback that runs comes after those that have run.
LEMMA RunsLater ==
  ASSUME NEW c \in Calls, RunOK(c, "callback"), NEW d \in Calls,
         d.ran = Append(c.ran, <<c.next, c.at>>)
  PROVE  /\ \A i, j \in DOMAIN d.ran : i < j => Before(d.ran[i], d.ran[j])
         /\ \A i \in DOMAIN d.ran : d.ran[i][1] < c.next + 1
         /\ \A i \in DOMAIN d.ran : Before(d.ran[i], <<c.next, c.at + 1>>)
<1>1. c.ran \in Seq(Nat \X Nat) /\ c.next \in Nat /\ c.at \in Nat /\ <<c.next, c.at>> \in Nat \X Nat
  BY DEF Calls
<1>2. /\ DOMAIN d.ran = DOMAIN c.ran \cup {Len(c.ran) + 1}
      /\ \A i \in DOMAIN c.ran : i < Len(c.ran) + 1 /\ d.ran[i] = c.ran[i]
      /\ d.ran[Len(c.ran) + 1] = <<c.next, c.at>>
  BY <1>1, AppendRan
<1>3. \A i \in DOMAIN c.ran : c.ran[i] \in Nat \X Nat /\ i \in Nat
  BY <1>1
<1>4. \A i \in DOMAIN c.ran : Before(c.ran[i], <<c.next, c.at>>)
  BY DEF RunOK
<1>5. Len(c.ran) + 1 \in Nat
  BY <1>1
<1>6. \A i, j \in DOMAIN d.ran : i < j => Before(d.ran[i], d.ran[j])
  <2> SUFFICES ASSUME NEW i \in DOMAIN d.ran, NEW j \in DOMAIN d.ran, i < j
               PROVE  Before(d.ran[i], d.ran[j])
    OBVIOUS
  <2>1. i \in DOMAIN c.ran
    BY <1>2, <1>3, <1>5
  <2>2. CASE j \in DOMAIN c.ran
    BY <1>2, <2>1, <2>2 DEF RunOK
  <2>3. CASE j = Len(c.ran) + 1
    BY <1>2, <1>4, <2>1, <2>3
  <2> QED
    BY <1>2, <2>2, <2>3
<1>7. /\ \A i \in DOMAIN d.ran : d.ran[i][1] < c.next + 1
      /\ \A i \in DOMAIN d.ran : Before(d.ran[i], <<c.next, c.at + 1>>)
  <2> SUFFICES ASSUME NEW i \in DOMAIN d.ran
               PROVE  d.ran[i][1] < c.next + 1 /\ Before(d.ran[i], <<c.next, c.at + 1>>)
    OBVIOUS
  <2>1. CASE i \in DOMAIN c.ran
    BY <1>1, <1>2, <1>3, <1>4, <2>1, BeforeNext
  <2>2. CASE i = Len(c.ran) + 1
    BY <1>1, <1>2, <2>2 DEF Before
  <2> QED
    BY <1>2, <2>1, <2>2
<1> QED
  BY <1>6, <1>7

LEMMA RunStep == TypeOK /\ RunInv /\ [Next]_vars => RunInv'
<1> SUFFICES ASSUME TypeOK, RunInv, [Next]_vars PROVE RunInv'
  OBVIOUS
<1> USE DEF RunInv
<1>1. ASSUME NEW registration \in Registrations,
             registerCallback(registration[1], registration[2])
      PROVE  RunInv'
  BY <1>1 DEF registerCallback
<1>2. ASSUME NEW t \in Threads, NEW r \in Requests, processWebhook(t, r)
      PROVE  RunInv'
  <2>1. call'[t].ran = <<>>
    BY <1>2, NoCallType DEF processWebhook, TypeOK, Calls
  <2>2. RunOK(call'[t], pc'[t])
    BY <2>1 DEF RunOK
  <2>3. \A s \in Threads \ {t} : call'[s] = call[s] /\ pc'[s] = pc[s]
    BY <1>2 DEF processWebhook, TypeOK
  <2> QED
    BY <2>2, <2>3
<1>3. ASSUME NEW t \in Threads, Progress(t) PROVE RunInv'
  <2>1. call[t] \in Calls /\ RunOK(call[t], pc[t])
    BY DEF TypeOK
  <2>2. \A s \in Threads \ {t} : call'[s] = call[s] /\ pc'[s] = pc[s]
    BY <1>3 DEF Progress, TypeOK, updateStatistics, FindCallbacks, CallbackReturns, CallbackThrows,
                CallbackReenters, ReturnTrue, ReadFailed, WriteFailed
  <2>3. call'[t] \in Calls
    BY <1>3, TypeStep DEF Next, TypeOK
  <2>4. RunOK(call'[t], pc'[t])
    <3>1. CASE CallbackReturns(t) \/ CallbackThrows(t)
      <4>1. pc[t] = "callback" /\ call'[t].ran = Append(call[t].ran, <<call[t].next, call[t].at>>)
        BY <2>1, <3>1 DEF CallbackReturns, CallbackThrows, Ran, TypeOK, Calls
      <4>2. /\ \A i, j \in DOMAIN call'[t].ran : i < j => Before(call'[t].ran[i], call'[t].ran[j])
            /\ \A i \in DOMAIN call'[t].ran : call'[t].ran[i][1] < call[t].next + 1
            /\ \A i \in DOMAIN call'[t].ran : Before(call'[t].ran[i], <<call[t].next, call[t].at + 1>>)
        BY <2>1, <2>3, <4>1, RunsLater
      <4>3. \/ pc'[t] = "callback" /\ call'[t].next = call[t].next /\ call'[t].at = call[t].at + 1
            \/ pc'[t] = "event" /\ call'[t].next = call[t].next + 1
            \/ pc'[t] = "read_failed"
        BY <2>1, <3>1 DEF CallbackReturns, CallbackThrows, TypeOK, Calls
      <4> QED
        BY <4>2, <4>3 DEF RunOK
    <3>2. CASE updateStatistics(t)
      BY <2>1, <3>2 DEF updateStatistics, RunOK, TypeOK
    <3>3. CASE FindCallbacks(t)
      <4>1. /\ pc[t] = "notify" /\ call'[t].ran = call[t].ran
            /\ \/ pc'[t] = "event" /\ call'[t].next = call[t].next + 1
               \/ pc'[t] = "callback" /\ call'[t].next = call[t].next /\ call'[t].at = 1
        BY <2>1, <3>3 DEF FindCallbacks, TypeOK, Calls
      <4>2. /\ \A i \in DOMAIN call[t].ran : call[t].ran[i] \in Nat \X Nat
            /\ call[t].next \in Nat
        BY <2>1 DEF Calls
      <4>3. \A i \in DOMAIN call[t].ran :
              /\ call[t].ran[i][1] < call[t].next + 1
              /\ Before(call[t].ran[i], <<call[t].next, 1>>)
        BY <2>1, <4>1, <4>2, BeforeNext DEF RunOK
      <4> QED
        BY <2>1, <4>1, <4>3 DEF RunOK
    <3>4. CASE CallbackReenters(t)
      BY <2>1, <3>4 DEF CallbackReenters, RunOK, TypeOK
    <3>5. CASE ReturnTrue(t) \/ WriteFailed(t)
      <4>1. call'[t].ran = <<>>
        BY <3>5, NoCallType DEF ReturnTrue, WriteFailed, TypeOK
      <4> QED
        BY <4>1, NoneRan
    <3>6. CASE ReadFailed(t)
      <4>1. call'[t].ran = call[t].ran /\ pc'[t] = "write_failed"
        BY <2>1, <3>6 DEF ReadFailed, TypeOK, Calls
      <4>2. \A i, j \in DOMAIN call[t].ran : i < j => Before(call[t].ran[i], call[t].ran[j])
        BY <2>1 DEF RunOK
      <4>3. \A i, j \in DOMAIN call'[t].ran : i < j => Before(call'[t].ran[i], call'[t].ran[j])
        BY <4>1, <4>2
      <4> QED
        BY <4>1, <4>3 DEF RunOK
    <3> QED
      BY <1>3, <3>1, <3>2, <3>3, <3>4, <3>5, <3>6 DEF Progress
  <2> QED
    BY <2>2, <2>4
<1>4. CASE UNCHANGED vars
  BY <1>4 DEF vars
<1> QED
  BY <1>1, <1>2, <1>3, <1>4 DEF Next

\* The callbacks of a call run in the order of the payload, those of one event in
\* the order of their registration, and none twice, whatever other threads do
\* while the mutex is free between two events.
THEOREM CallbacksRunInOrder == Spec => []CallbacksInOrder
<1>1. Init => RunInv
  BY NoCallType, NoneRan DEF Init, RunInv
<1>2. RunInv => CallbacksInOrder
  BY DEF RunInv, RunOK, CallbacksInOrder
<1> QED
  BY <1>1, <1>2, TypeCorrect, RunStep, PTL DEF Spec

\* In a call that begins nothing is behind, and nothing is promised in one that
\* has ended.
LEMMA KnownAtStart ==
  ASSUME NEW c \in Calls, NEW point, c.next = 1, point # "callback"
  PROVE  KnownOK(c, point)
<1>1. c.events \in Seq(WebhookEventType)
  BY DEF Calls
<1>2. \A i \in DOMAIN c.events : ~(i < 1)
  BY <1>1
<1> QED
  BY <1>2 DEF KnownOK

LEMMA KnownStep == TypeOK /\ KnownInv /\ [Next]_vars => KnownInv'
<1> SUFFICES ASSUME TypeOK, KnownInv, [Next]_vars PROVE KnownInv'
  OBVIOUS
<1> USE DEF KnownInv
<1>0. TypeOK'
  BY TypeStep
<1>1. ASSUME NEW registration \in Registrations,
             registerCallback(registration[1], registration[2])
      PROVE  KnownInv'
  <2>1. \A type \in WebhookEventType : Len(callbacks_[type]) <= Len(callbacks_'[type])
    BY <1>1 DEF registerCallback, TypeOK
  <2>2. \A type \in WebhookEventType :
          /\ Len(callbacks_[type]) \in Nat /\ Len(callbacks_'[type]) \in Nat
          /\ \A t \in Threads : call[t].known[type] \in Nat
    BY <1>0 DEF TypeOK, Calls
  <2>3. \A t \in Threads, type \in WebhookEventType :
          call[t].known[type] <= Len(callbacks_'[type])
    BY <2>1, <2>2
  <2> QED
    BY <1>1, <2>3 DEF registerCallback
<1>2. ASSUME NEW t \in Threads, NEW r \in Requests, processWebhook(t, r)
      PROVE  KnownInv'
  <2>1. call'[t].next = 1 /\ call'[t].known = Registered /\ pc'[t] # "callback"
    BY <1>2 DEF processWebhook, TypeOK, Calls, NoCall
  <2>2. call'[t] \in Calls
    BY <1>0 DEF TypeOK
  <2>3. KnownOK(call'[t], pc'[t])
    BY <2>1, <2>2, KnownAtStart
  <2>4. \A type \in WebhookEventType : call'[t].known[type] <= Len(callbacks_'[type])
    BY <1>2, <2>1, RegisteredType DEF processWebhook, Registered
  <2>5. \A s \in Threads \ {t} : call'[s] = call[s] /\ pc'[s] = pc[s]
    BY <1>2 DEF processWebhook, TypeOK
  <2>6. callbacks_' = callbacks_
    BY <1>2 DEF processWebhook
  <2> QED
    BY <2>3, <2>4, <2>5, <2>6
<1>3. ASSUME NEW t \in Threads, Progress(t) PROVE KnownInv'
  <2>1. call[t] \in Calls /\ call'[t] \in Calls /\ KnownOK(call[t], pc[t])
    BY <1>0 DEF TypeOK
  <2>2. callbacks_' = callbacks_ /\ \A s \in Threads \ {t} : call'[s] = call[s] /\ pc'[s] = pc[s]
    BY <1>3 DEF Progress, TypeOK, updateStatistics, FindCallbacks, CallbackReturns, CallbackThrows,
                CallbackReenters, ReturnTrue, ReadFailed, WriteFailed
  <2>3. \/ call'[t] = NoCall
        \/ call'[t].known = call[t].known /\ call'[t].events = call[t].events
    <3>1. CASE ReturnTrue(t) \/ WriteFailed(t)
      BY <3>1 DEF ReturnTrue, WriteFailed, TypeOK
    <3>2. CASE updateStatistics(t) \/ CallbackReenters(t)
      BY <3>2 DEF updateStatistics, CallbackReenters
    <3>3. CASE FindCallbacks(t)
      BY <2>1, <3>3, SMTT(30) DEF FindCallbacks, TypeOK, Calls
    <3>4. CASE CallbackReturns(t)
      <4>1. call'[t].known = call[t].known /\ call'[t].events = call[t].events
        BY <2>1, <3>4, SMTT(30) DEF CallbackReturns, TypeOK, Calls
      <4> QED
        BY <4>1
    <3>5. CASE CallbackThrows(t) \/ ReadFailed(t)
      BY <2>1, <3>5, SMTT(30) DEF CallbackThrows, ReadFailed, TypeOK, Calls
    <3> QED
      BY <1>3, <3>1, <3>2, <3>3, <3>4, <3>5 DEF Progress
  <2>4. \A type \in WebhookEventType : Len(callbacks_[type]) \in Nat
    BY DEF TypeOK
  <2>5. \A type \in WebhookEventType : call'[t].known[type] <= Len(callbacks_[type])
    <3>1. CASE call'[t] = NoCall
      BY <2>4, <3>1 DEF NoCall
    <3> QED
      BY <2>3, <3>1
  <2>6. KnownOK(call'[t], pc'[t])
    <3>1. ASSUME HasEvent(t), NEW c \in Calls, NEW point \in {"event", "callback"},
                 c.known = call[t].known, c.events = call[t].events,
                 pc[t] \in {"notify", "callback"},
                 ToSet(call[t].ran) \subseteq ToSet(c.ran),
                 \/ /\ point = "event" /\ c.next = call[t].next + 1
                    /\ \A k \in 1..call[t].known[Event(t)] : <<call[t].next, k>> \in ToSet(c.ran)
                 \/ /\ point = "callback" /\ c.next = call[t].next
                    /\ \A k \in 1..(c.at - 1) : <<call[t].next, k>> \in ToSet(c.ran)
          PROVE  KnownOK(c, point)
      <4>1. DOMAIN c.events \subseteq Nat /\ call[t].next \in Nat
        <5>1. c.events \in Seq(WebhookEventType) /\ call[t].next \in Nat
          BY <2>1, <3>1 DEF Calls
        <5> QED
          BY <5>1
      <4>2. \A i \in DOMAIN c.events : i < call[t].next =>
              \A k \in 1..c.known[c.events[i]] : <<i, k>> \in ToSet(c.ran)
        BY <2>1, <3>1 DEF KnownOK
      <4>3. CASE point = "callback"
        BY <3>1, <4>2, <4>3 DEF KnownOK
      <4>4. CASE point = "event"
        <5>1. /\ c.next = call[t].next + 1
              /\ \A k \in 1..call[t].known[Event(t)] : <<call[t].next, k>> \in ToSet(c.ran)
          BY <3>1, <4>4
        <5>2. \A i \in DOMAIN c.events : i < c.next => i < call[t].next \/ i = call[t].next
          BY <4>1, <5>1
        <5>3. \A i \in DOMAIN c.events : i < c.next =>
                \A k \in 1..c.known[c.events[i]] : <<i, k>> \in ToSet(c.ran)
          BY <3>1, <4>2, <5>1, <5>2 DEF Event
        <5> QED
          BY <4>4, <5>3 DEF KnownOK
      <4> QED
        BY <3>1, <4>3, <4>4
    <3>2. CASE updateStatistics(t)
      BY <2>1, <3>2 DEF updateStatistics, KnownOK, TypeOK
    <3>3. CASE FindCallbacks(t)
      <4>1. HasEvent(t) /\ Event(t) \in WebhookEventType
        BY <3>3, EventType DEF FindCallbacks, TypeOK
      <4>2. pc[t] = "notify" /\ call'[t].ran = call[t].ran
        BY <2>1, <3>3 DEF FindCallbacks, TypeOK, Calls
      <4>3. CASE callbacks_[Event(t)] = <<>>
        <5>1. call[t].known[Event(t)] <= 0 /\ call[t].known[Event(t)] \in Nat
          BY <2>1, <4>1, <4>3 DEF Calls
        <5>2. pc'[t] = "event" /\ call'[t].next = call[t].next + 1
          BY <2>1, <3>3, <4>3 DEF FindCallbacks, TypeOK, Calls
        <5>3. \A k \in 1..call[t].known[Event(t)] : <<call[t].next, k>> \in ToSet(call'[t].ran)
          BY <5>1
        <5>4. call'[t].known = call[t].known /\ call'[t].events = call[t].events
          BY <2>1, <3>3, <4>3 DEF FindCallbacks, TypeOK, Calls
        <5> QED
          BY <2>1, <3>1, <4>1, <4>2, <5>2, <5>3, <5>4
      <4>4. CASE callbacks_[Event(t)] # <<>>
        <5>1. /\ pc'[t] = "callback" /\ call'[t].next = call[t].next /\ call'[t].at = 1
              /\ call'[t].known = call[t].known /\ call'[t].events = call[t].events
          BY <2>1, <3>3, <4>4 DEF FindCallbacks, TypeOK, Calls
        <5>2. \A k \in 1..(call'[t].at - 1) : <<call[t].next, k>> \in ToSet(call'[t].ran)
          BY <5>1
        <5> QED
          BY <2>1, <3>1, <4>1, <4>2, <5>1, <5>2
      <4> QED
        BY <4>3, <4>4
    <3>4. CASE CallbackReturns(t)
      <4>0. pc[t] = "callback" /\ HasEvent(t)
        BY <3>4 DEF CallbackReturns, TypeOK
      <4>1. /\ pc[t] = "callback" /\ HasEvent(t) /\ Event(t) \in WebhookEventType
            /\ call'[t].known = call[t].known /\ call'[t].events = call[t].events
            /\ call'[t].ran = Ran(t)
        <5>1. Event(t) \in WebhookEventType
          BY <4>0, EventType
        <5>2. /\ call'[t].known = call[t].known /\ call'[t].events = call[t].events
              /\ call'[t].ran = Ran(t)
          BY <2>1, <3>4, SMTT(30) DEF CallbackReturns, TypeOK, Calls
        <5> QED
          BY <4>0, <5>1, <5>2
      <4>2. /\ call[t].ran \in Seq(Nat \X Nat) /\ call[t].next \in Nat /\ call[t].at \in Nat \ {0}
            /\ call[t].known[Event(t)] \in Nat
        BY <2>1, <4>1 DEF Calls
      <4>3. ToSet(call'[t].ran) = ToSet(call[t].ran) \cup {<<call[t].next, call[t].at>>}
        BY <4>1, <4>2, AppendRan, SMTT(30) DEF Ran
      <4>4. \A k \in 1..(call[t].at - 1) : <<call[t].next, k>> \in ToSet(call[t].ran)
        BY <2>1, <4>1 DEF KnownOK
      <4>5. \A k \in 1..call[t].at : <<call[t].next, k>> \in ToSet(call'[t].ran)
        BY <4>2, <4>3, <4>4
      <4>6. CASE call[t].at < Len(callbacks_[Event(t)])
        <5>1. /\ pc'[t] = "callback" /\ call'[t].next = call[t].next
              /\ call'[t].at = call[t].at + 1
          BY <2>1, <3>4, <4>6 DEF CallbackReturns, TypeOK, Calls
        <5>2. \A k \in 1..(call'[t].at - 1) : <<call[t].next, k>> \in ToSet(call'[t].ran)
          BY <4>2, <4>5, <5>1
        <5> QED
          BY <2>1, <3>1, <4>1, <4>3, <5>1, <5>2
      <4>7. CASE ~(call[t].at < Len(callbacks_[Event(t)]))
        <5>1. pc'[t] = "event" /\ call'[t].next = call[t].next + 1
          BY <2>1, <3>4, <4>7 DEF CallbackReturns, TypeOK, Calls
        <5>2. call[t].known[Event(t)] <= call[t].at
          BY <2>4, <4>1, <4>2, <4>7
        <5>3. \A k \in 1..call[t].known[Event(t)] : <<call[t].next, k>> \in ToSet(call'[t].ran)
          BY <4>2, <4>5, <5>2
        <5> QED
          BY <2>1, <3>1, <4>1, <4>3, <5>1, <5>3
      <4> QED
        BY <4>6, <4>7
    <3>5. CASE CallbackThrows(t) \/ CallbackReenters(t) \/ ReadFailed(t)
      <4>1. pc'[t] \in {"read_failed", "stuck", "write_failed"}
        BY <3>5 DEF CallbackThrows, CallbackReenters, ReadFailed, TypeOK
      <4> QED
        BY <4>1 DEF KnownOK
    <3>6. CASE ReturnTrue(t) \/ WriteFailed(t)
      <4>1. pc'[t] = "idle"
        BY <3>6 DEF ReturnTrue, WriteFailed, TypeOK
      <4> QED
        BY <4>1 DEF KnownOK
    <3> QED
      BY <1>3, <3>2, <3>3, <3>4, <3>5, <3>6 DEF Progress
  <2> QED
    BY <2>2, <2>5, <2>6
<1>4. CASE UNCHANGED vars
  BY <1>4 DEF vars
<1> QED
  BY <1>1, <1>2, <1>3, <1>4 DEF Next

\* A call that returns true has run every callback that was registered when it
\* began, with every event of its type.
THEOREM TrueMeansAllRan == Spec => TrueIsComplete
<1>1. Init => KnownInv
  <2> SUFFICES ASSUME Init PROVE KnownInv
    OBVIOUS
  <2>1. \A t \in Threads : KnownOK(call[t], pc[t])
    BY DEF Init, KnownOK
  <2>2. \A t \in Threads, type \in WebhookEventType : call[t].known[type] <= Len(callbacks_[type])
    BY DEF Init, NoCall
  <2> QED
    BY <2>1, <2>2 DEF KnownInv
<1>2. TypeOK /\ KnownInv /\ [Next]_vars
        => (\A t \in Threads : pc[t] = "event" /\ pc'[t] = "idle" => Complete(call[t]))
  <2> SUFFICES ASSUME TypeOK, KnownInv, [Next]_vars,
                      NEW t \in Threads, pc[t] = "event", pc'[t] = "idle"
               PROVE  Complete(call[t])
    OBVIOUS
  <2>1. ReturnTrue(t)
    BY DEF Next, vars, TypeOK, registerCallback, processWebhook, Progress, updateStatistics,
           FindCallbacks, CallbackReturns, CallbackThrows, CallbackReenters, ReturnTrue, ReadFailed,
           WriteFailed
  <2>2. call[t].events \in Seq(WebhookEventType) /\ call[t].next \in Nat
    BY DEF TypeOK, Calls
  <2>3. \A i \in DOMAIN call[t].events : i < call[t].next
    BY <2>1, <2>2 DEF ReturnTrue, HasEvent
  <2> QED
    BY <2>3 DEF Complete, KnownInv, KnownOK
<1> QED
  BY <1>1, <1>2, TypeCorrect, KnownStep, PTL DEF Spec, TrueIsComplete

(***************************************************************************)
(* The counters                                                            *)
(***************************************************************************)
CountedBy(c, point, type) ==
  {i \in DOMAIN c.events : c.events[i] = type /\ (i < c.next \/ (i = c.next /\ point # "event"))}

\* One more counted event, of one thread.
LEMMA OneMoreCounted ==
  ASSUME NEW t \in Threads, NEW type, NEW i, NEW S, NEW T,
         IsFiniteSet(S), T \subseteq S \cup {<<t, i>>}
  PROVE  IsFiniteSet(T) /\ Cardinality(T) <= Cardinality(S) + 1
<1>1. /\ IsFiniteSet(S \cup {<<t, i>>}) /\ Cardinality(S) \in Nat
      /\ Cardinality(S \cup {<<t, i>>}) <= Cardinality(S) + 1
  <2>1. Cardinality(S) \in Nat
    BY FS_CardinalityType
  <2>2. /\ IsFiniteSet(S \cup {<<t, i>>})
        /\ Cardinality(S \cup {<<t, i>>})
             = IF <<t, i>> \in S THEN Cardinality(S) ELSE Cardinality(S) + 1
    BY FS_AddElement
  <2> QED
    BY <2>1, <2>2
<1>2. T \in SUBSET (S \cup {<<t, i>>})
  OBVIOUS
<1>3. IsFiniteSet(T) /\ Cardinality(T) <= Cardinality(S \cup {<<t, i>>})
  BY <1>1, <1>2, FS_Subset
<1>4. Cardinality(T) \in Nat /\ Cardinality(S \cup {<<t, i>>}) \in Nat
  BY <1>1, <1>3, FS_CardinalityType
<1> QED
  BY <1>1, <1>3, <1>4

LEMMA NoMoreCounted ==
  ASSUME NEW S, NEW T, IsFiniteSet(S), T \subseteq S
  PROVE  IsFiniteSet(T) /\ Cardinality(T) <= Cardinality(S)
BY FS_Subset, T \in SUBSET S

\* A step of a call that counts nothing leaves no more events counted.
LEMMA CountedKept ==
  ASSUME TypeOK, NEW t \in Threads, NEW c \in Calls, NEW point, NEW type,
         \/ c.events = <<>>
         \/ /\ c.events = call[t].events
            /\ \/ c.next = call[t].next /\ (point # "event" => pc[t] # "event")
               \/ c.next = call[t].next + 1 /\ point = "event" /\ pc[t] # "event"
  PROVE  CountedBy(c, point, type) \subseteq Counted(t, type)
<1>1. call[t] \in Calls
  BY DEF TypeOK
<1>2. /\ DOMAIN call[t].events \subseteq Nat /\ call[t].next \in Nat
  <2>1. call[t].events \in Seq(WebhookEventType) /\ call[t].next \in Nat
    BY <1>1 DEF Calls
  <2> QED
    BY <2>1
<1>3. CASE c.events = <<>>
  BY <1>3 DEF CountedBy
<1>4. CASE c.events = call[t].events
  <2>1. \A i \in Nat : i < call[t].next + 1 => i < call[t].next \/ i = call[t].next
    BY <1>2
  <2>2. \A i \in Nat : i = call[t].next + 1 => ~(i < call[t].next) /\ i # call[t].next
    BY <1>2
  <2> QED
    BY <1>2, <1>4, <2>1, <2>2 DEF CountedBy, Counted
<1> QED
  BY <1>3, <1>4

LEMMA AllCountedStep ==
  ASSUME NEW t \in Threads, NEW type, NEW E,
         \A s \in Threads \ {t} : call'[s] = call[s] /\ pc'[s] = pc[s],
         CountedBy(call'[t], pc'[t], type) \subseteq Counted(t, type) \cup E
  PROVE  AllCounted(type)' \subseteq AllCounted(type) \cup ({t} \X E)
<1>1. \A s \in Threads : Counted(s, type)' = CountedBy(call'[s], pc'[s], type)
  BY DEF Counted, CountedBy
<1>2. \A s \in Threads \ {t} : Counted(s, type)' = Counted(s, type)
  BY DEF Counted
<1>3. AllCounted(type)' = UNION {{s} \X Counted(s, type)' : s \in Threads}
  BY DEF AllCounted
<1> SUFFICES ASSUME NEW s \in Threads, NEW i \in Counted(s, type)'
             PROVE  <<s, i>> \in AllCounted(type) \cup ({t} \X E)
  BY <1>3
<1>4. CASE s = t
  BY <1>1, <1>4 DEF AllCounted
<1>5. CASE s # t
  BY <1>2, <1>5 DEF AllCounted
<1> QED
  BY <1>4, <1>5

LEMMA CounterOfType ==
  \A type \in DOMAIN CounterOf :
    /\ type \in WebhookEventType /\ CounterOf[type] \in Counters
    /\ CounterOf[type] # "failed" /\ CounterOf[type] # "total_events"
BY DEF CounterOf, Counters, WebhookEventType

LEMMA CountStep == TypeOK /\ CountInv /\ [Next]_vars => CountInv'
<1> SUFFICES ASSUME TypeOK, CountInv, [Next]_vars PROVE CountInv'
  OBVIOUS
<1>0. TypeOK' /\ \A c \in Counters : statistics_[c] \in Nat /\ statistics_'[c] \in Nat
  BY TypeStep DEF TypeOK
<1>1. ASSUME NEW registration \in Registrations,
             registerCallback(registration[1], registration[2])
      PROVE  CountInv'
  BY <1>1 DEF registerCallback, CountInv, AllCounted, Counted
<1>2. ASSUME NEW t \in Threads, \A s \in Threads \ {t} : call'[s] = call[s] /\ pc'[s] = pc[s],
             \A type \in DOMAIN CounterOf :
               /\ CountedBy(call'[t], pc'[t], type) \subseteq Counted(t, type)
               /\ statistics_[CounterOf[type]] <= statistics_'[CounterOf[type]]
      PROVE  \A type \in DOMAIN CounterOf :
               IsFiniteSet(AllCounted(type))'
                 /\ Cardinality(AllCounted(type))' <= statistics_'[CounterOf[type]]
  <2> SUFFICES ASSUME NEW type \in DOMAIN CounterOf
               PROVE  IsFiniteSet(AllCounted(type))'
                        /\ Cardinality(AllCounted(type))' <= statistics_'[CounterOf[type]]
    OBVIOUS
  <2>1. AllCounted(type)' \subseteq AllCounted(type)
    <3>1. CountedBy(call'[t], pc'[t], type) \subseteq Counted(t, type) \cup {}
      BY <1>2
    <3>2. AllCounted(type)' \subseteq AllCounted(type) \cup ({t} \X {})
      BY <1>2, <3>1, AllCountedStep
    <3> QED
      BY <3>2
  <2>2. IsFiniteSet(AllCounted(type)) /\ Cardinality(AllCounted(type)) <= statistics_[CounterOf[type]]
    BY DEF CountInv
  <2>3. IsFiniteSet(AllCounted(type)') /\ Cardinality(AllCounted(type)') <= Cardinality(AllCounted(type))
    BY <2>1, <2>2, NoMoreCounted
  <2>4. Cardinality(AllCounted(type)) \in Nat /\ Cardinality(AllCounted(type)') \in Nat
    BY <2>2, <2>3, FS_CardinalityType
  <2>5. statistics_[CounterOf[type]] \in Nat /\ statistics_'[CounterOf[type]] \in Nat
    BY <1>0, CounterOfType
  <2> QED
    BY <1>2, <2>2, <2>3, <2>4, <2>5
<1>3. ASSUME NEW t \in Threads, NEW r \in Requests, processWebhook(t, r)
      PROVE  CountInv'
  <2>1. \A s \in Threads \ {t} : call'[s] = call[s] /\ pc'[s] = pc[s]
    BY <1>3 DEF processWebhook, TypeOK
  <2>2. /\ call'[t] \in Calls /\ call'[t].next = 1
        /\ \/ pc'[t] = "event"
           \/ call'[t].events = <<>> /\ pc'[t] = "read_failed"
    BY <1>0, <1>3 DEF processWebhook, TypeOK, Calls, NoCall
  <2>3. \A type : CountedBy(call'[t], pc'[t], type) = {}
    <3>1. call'[t].events \in Seq(WebhookEventType)
      BY <2>2 DEF Calls
    <3>2. \A i \in DOMAIN call'[t].events : ~(i < 1)
      BY <3>1
    <3>3. call'[t].events = <<>> => DOMAIN call'[t].events = {}
      OBVIOUS
    <3> QED
      BY <2>2, <3>2, <3>3 DEF CountedBy
  <2>4. UNCHANGED <<statistics_, refused>> /\ pc'[t] # "write_failed"
    BY <1>3, <2>2 DEF processWebhook
  <2>5. \A type \in DOMAIN CounterOf :
          /\ CountedBy(call'[t], pc'[t], type) \subseteq Counted(t, type)
          /\ statistics_[CounterOf[type]] <= statistics_'[CounterOf[type]]
    BY <1>0, <2>3, <2>4, CounterOfType
  <2>6. \A s \in Threads : pc'[s] = "write_failed" => pc[s] = "write_failed" /\ call'[s] = call[s]
    BY <2>1, <2>4
  <2> QED
    BY <1>2, <2>1, <2>4, <2>5, <2>6 DEF CountInv
<1>4. ASSUME NEW t \in Threads, Progress(t) PROVE CountInv'
  <2>1. \A s \in Threads \ {t} : call'[s] = call[s] /\ pc'[s] = pc[s]
    BY <1>4 DEF Progress, TypeOK, updateStatistics, FindCallbacks, CallbackReturns, CallbackThrows,
                CallbackReenters, ReturnTrue, ReadFailed, WriteFailed
  <2>2. call[t] \in Calls /\ call'[t] \in Calls /\ refused \in Nat
    BY <1>0 DEF TypeOK
  <2>3. CASE updateStatistics(t)
    <3>1. /\ call' = call /\ pc[t] = "event" /\ pc'[t] = "notify" /\ HasEvent(t) /\ refused' = refused
      BY <2>3 DEF updateStatistics, TypeOK
    <3>2. /\ \A type \in DOMAIN CounterOf : type # Event(t) =>
                statistics_[CounterOf[type]] <= statistics_'[CounterOf[type]]
          /\ Event(t) \in DOMAIN CounterOf =>
               statistics_'[CounterOf[Event(t)]] = statistics_[CounterOf[Event(t)]] + 1
          /\ statistics_'["failed"] = statistics_["failed"]
      <4>1. \A c \in Counters : statistics_'[c] = statistics_[c] \/ statistics_'[c] = statistics_[c] + 1
        BY <1>0, <2>3 DEF updateStatistics
      <4>2. Event(t) \in DOMAIN CounterOf =>
              statistics_'[CounterOf[Event(t)]] = statistics_[CounterOf[Event(t)]] + 1
        BY <2>3, CounterOfType DEF updateStatistics
      <4>3. statistics_'["failed"] = statistics_["failed"]
        <5>1. "failed" \in Counters
          BY DEF Counters
        <5>2. /\ Event(t) \in DOMAIN CounterOf => CounterOf[Event(t)] # "failed"
              /\ statistics_["failed"] \in Nat
          BY <1>0, <5>1, CounterOfType
        <5> QED
          BY <2>3, <5>1, <5>2 DEF updateStatistics
      <4> QED
        BY <1>0, <4>1, <4>2, <4>3, CounterOfType
    <3>3. ASSUME NEW type \in DOMAIN CounterOf
          PROVE  IsFiniteSet(AllCounted(type))'
                   /\ Cardinality(AllCounted(type))' <= statistics_'[CounterOf[type]]
      <4>0. IsFiniteSet(AllCounted(type)) /\ Cardinality(AllCounted(type)) <= statistics_[CounterOf[type]]
        BY DEF CountInv
      <4>1. /\ statistics_[CounterOf[type]] \in Nat /\ statistics_'[CounterOf[type]] \in Nat
            /\ Cardinality(AllCounted(type)) \in Nat
        BY <1>0, <4>0, CounterOfType, FS_CardinalityType
      <4>2. CASE type = Event(t)
        <5>1. CountedBy(call'[t], pc'[t], type) \subseteq Counted(t, type) \cup {call[t].next}
          BY <3>1 DEF CountedBy, Counted
        <5>2. AllCounted(type)' \subseteq AllCounted(type) \cup {<<t, call[t].next>>}
          <6>1. AllCounted(type)' \subseteq AllCounted(type) \cup ({t} \X {call[t].next})
            BY <2>1, <5>1, AllCountedStep
          <6> QED
            BY <6>1
        <5>3. /\ IsFiniteSet(AllCounted(type)')
              /\ Cardinality(AllCounted(type)') <= Cardinality(AllCounted(type)) + 1
          BY <4>0, <5>2, OneMoreCounted
        <5>4. Cardinality(AllCounted(type)') \in Nat
          BY <5>3, FS_CardinalityType
        <5> QED
          BY <3>2, <4>0, <4>1, <4>2, <5>3, <5>4
      <4>3. CASE type # Event(t)
        <5>1. CountedBy(call'[t], pc'[t], type) \subseteq Counted(t, type) \cup {}
          BY <3>1, <4>3 DEF CountedBy, Counted, Event
        <5>2. AllCounted(type)' \subseteq AllCounted(type) \cup ({t} \X {})
          BY <2>1, <5>1, AllCountedStep
        <5>3. AllCounted(type)' \subseteq AllCounted(type)
          BY <5>2
        <5>4. /\ IsFiniteSet(AllCounted(type)')
              /\ Cardinality(AllCounted(type)') <= Cardinality(AllCounted(type))
          BY <4>0, <5>3, NoMoreCounted
        <5>5. Cardinality(AllCounted(type)') \in Nat
          BY <5>4, FS_CardinalityType
        <5> QED
          BY <3>2, <4>0, <4>1, <4>3, <5>4, <5>5
      <4> QED
        BY <4>2, <4>3
    <3>4. \A s \in Threads : pc'[s] = "write_failed" => pc[s] = "write_failed" /\ call'[s] = call[s]
      BY <2>1, <3>1
    <3> QED
      BY <3>1, <3>2, <3>3, <3>4 DEF CountInv
  <2>4. CASE FindCallbacks(t) \/ CallbackReturns(t) \/ CallbackThrows(t) \/ CallbackReenters(t)
             \/ ReturnTrue(t) \/ ReadFailed(t)
    <3>1. UNCHANGED <<statistics_, refused>>
      BY <2>4 DEF FindCallbacks, CallbackReturns, CallbackThrows, CallbackReenters, ReturnTrue,
                  ReadFailed
    <3>2. \/ call'[t].events = <<>>
          \/ /\ call'[t].events = call[t].events
             /\ \/ call'[t].next = call[t].next /\ (pc'[t] # "event" => pc[t] # "event")
                \/ call'[t].next = call[t].next + 1 /\ pc'[t] = "event" /\ pc[t] # "event"
      <4>1. CASE FindCallbacks(t)
        <5>1. /\ call'[t].events = call[t].events
              /\ \/ call'[t].next = call[t].next /\ (pc'[t] # "event" => pc[t] # "event")
                 \/ call'[t].next = call[t].next + 1 /\ pc'[t] = "event" /\ pc[t] # "event"
          BY <2>2, <4>1, SMTT(30) DEF FindCallbacks, TypeOK, Calls
        <5> QED
          BY <5>1
      <4>2. CASE CallbackReturns(t)
        <5>1. /\ call'[t].events = call[t].events
              /\ \/ call'[t].next = call[t].next /\ (pc'[t] # "event" => pc[t] # "event")
                 \/ call'[t].next = call[t].next + 1 /\ pc'[t] = "event" /\ pc[t] # "event"
          BY <2>2, <4>2, SMTT(30) DEF CallbackReturns, TypeOK, Calls
        <5> QED
          BY <5>1
      <4>3. CASE CallbackThrows(t) \/ CallbackReenters(t) \/ ReadFailed(t)
        <5>1. /\ call'[t].events = call[t].events /\ call'[t].next = call[t].next
              /\ pc[t] # "event"
          BY <2>2, <4>3 DEF CallbackThrows, CallbackReenters, ReadFailed, TypeOK, Calls
        <5> QED
          BY <5>1
      <4>4. CASE ReturnTrue(t)
        BY <4>4, NoCallType DEF ReturnTrue, TypeOK
      <4> QED
        BY <2>4, <4>1, <4>2, <4>3, <4>4
    <3>3. \A type \in DOMAIN CounterOf :
            /\ CountedBy(call'[t], pc'[t], type) \subseteq Counted(t, type)
            /\ statistics_[CounterOf[type]] <= statistics_'[CounterOf[type]]
      BY <1>0, <2>2, <3>1, <3>2, CountedKept, CounterOfType
    <3>4. \A s \in Threads : pc'[s] = "write_failed" => call'[s].seen <= refused
      <4>1. pc'[t] = "write_failed" => call'[t].seen = statistics_["failed"]
        BY <2>2, <2>4 DEF FindCallbacks, CallbackReturns, CallbackThrows, CallbackReenters,
                          ReturnTrue, ReadFailed, TypeOK, Calls
      <4> QED
        BY <2>1, <4>1 DEF CountInv
    <3> QED
      BY <1>2, <2>1, <3>1, <3>3, <3>4 DEF CountInv
  <2>5. CASE WriteFailed(t)
    <3>1. /\ call'[t] = NoCall /\ pc'[t] = "idle" /\ pc[t] = "write_failed"
          /\ refused' = refused + 1
          /\ statistics_' = [statistics_ EXCEPT !["failed"] = call[t].seen + 1]
      BY <2>5 DEF WriteFailed, TypeOK
    <3>2. call[t].seen \in Nat /\ call[t].seen <= refused
      BY <2>2, <3>1 DEF Calls, CountInv
    <3>3. statistics_'["failed"] = call[t].seen + 1
      BY <3>1 DEF TypeOK, Counters
    <3>4. \A type \in DOMAIN CounterOf :
            /\ CountedBy(call'[t], pc'[t], type) \subseteq Counted(t, type)
            /\ statistics_[CounterOf[type]] <= statistics_'[CounterOf[type]]
      <4>1. \A type \in DOMAIN CounterOf : statistics_'[CounterOf[type]] = statistics_[CounterOf[type]]
        BY <3>1, CounterOfType DEF TypeOK
      <4> QED
        BY <1>0, <2>2, <3>1, <4>1, CountedKept, CounterOfType, NoCallType
    <3>5. \A s \in Threads : pc'[s] = "write_failed" => call'[s].seen <= refused + 1
      <4>1. \A s \in Threads \ {t} : pc'[s] = "write_failed" => call'[s].seen <= refused
        BY <2>1 DEF CountInv
      <4>2. \A s \in Threads : call'[s].seen \in Nat
        BY <1>0 DEF TypeOK, Calls
      <4> QED
        BY <2>2, <3>1, <4>1, <4>2
    <3> QED
      BY <1>2, <2>1, <2>2, <3>1, <3>2, <3>3, <3>4, <3>5 DEF CountInv
  <2> QED
    BY <1>4, <2>3, <2>4, <2>5 DEF Progress
<1>5. CASE UNCHANGED vars
  BY <1>5 DEF vars, CountInv, AllCounted, Counted
<1> QED
  BY <1>1, <1>3, <1>4, <1>5 DEF Next

\* An event is in the counters before its callbacks run, and the failure count,
\* which is read and written without the mutex, never passes the number of calls
\* that returned false and is not zero once there is one.
THEOREM CountersAgree == Spec => []CountsAgree
<1>1. Init => CountInv
  <2> SUFFICES ASSUME Init PROVE CountInv
    OBVIOUS
  <2>1. \A type : AllCounted(type) = {}
    BY NoCallType DEF Init, AllCounted, Counted
  <2>2. /\ \A type \in DOMAIN CounterOf : statistics_[CounterOf[type]] = 0
        /\ statistics_["failed"] = 0 /\ refused = 0
    BY CounterOfType DEF Init, Counters
  <2>3. \A t \in Threads : pc[t] = "idle"
    BY DEF Init
  <2>4. \A type \in DOMAIN CounterOf :
          IsFiniteSet(AllCounted(type)) /\ Cardinality(AllCounted(type)) <= statistics_[CounterOf[type]]
    BY <2>1, <2>2, FS_EmptySet
  <2> QED
    BY <2>2, <2>3, <2>4 DEF CountInv
<1>2. CountInv => CountsAgree
  BY DEF CountInv, CountsAgree, AllCounted
<1> QED
  BY <1>1, <1>2, TypeCorrect, CountStep, PTL DEF Spec

===============================================================================
