------------------------------- MODULE Webhooks -------------------------------
(***************************************************************************)
(* The webhook processor: a thread of the server hands it what a provider  *)
(* posted.  It verifies and parses the request on its own, then takes each *)
(* event in turn: it counts the event under mutex_, lets the mutex go,     *)
(* takes it again and runs the callbacks of the event's type under it.     *)
(*                                                                         *)
(* A request has the shape of its JSON text and the event names in it; of  *)
(* an event only the type is kept.                                         *)
(***************************************************************************)
EXTENDS Naturals, Sequences, FiniteSets, SequencesExt

CONSTANTS
  Threads, NoThread,
  SecretSet,       \* config_.secret is not empty
  Requests,        \* the requests providers make
  Registrations,   \* the <<type, behaviour>> pairs the application registers
  MaxRequests,     \* bound on the requests
  MaxCallbacks     \* bound on the callbacks registered

VARIABLES
  callbacks_,    \* the callbacks of each event type, in registration order
  statistics_,   \* the counters
  mutex_,        \* the thread that holds mutex_
  pc,            \* where each thread is
  call,          \* the call each thread makes
  requests,      \* the requests made so far
  refused        \* the calls that returned false (history)

vars == <<callbacks_, statistics_, mutex_, pc, call, requests, refused>>

WebhookEventType ==
  {"DELIVERED", "BOUNCED", "DROPPED", "OPENED", "CLICKED", "UNSUBSCRIBED",
   "SPAM_REPORT", "DEFERRED", "PROCESSED", "UNKNOWN"}

\* What a callback does: it returns, throws, or calls the processor.
Behaviours == {"notes", "fails", "reenters"}

ASSUME WebhookAssumption ==
  /\ NoThread \notin Threads
  /\ Requests \subseteq [provider : STRING, signature : STRING, form : STRING, items : Seq(STRING)]
  /\ Registrations \subseteq WebhookEventType \X Behaviours
  /\ SecretSet \in BOOLEAN /\ MaxRequests \in Nat /\ MaxCallbacks \in Nat

Counters == {"total_events", "delivered", "bounced", "opened", "clicked", "failed"}

(***************************************************************************)
(* Requests                                                                *)
(***************************************************************************)
mapSendGridEventType ==
  [delivered |-> "DELIVERED", bounce |-> "BOUNCED", dropped |-> "DROPPED",
   open |-> "OPENED", click |-> "CLICKED", unsubscribe |-> "UNSUBSCRIBED",
   spamreport |-> "SPAM_REPORT", deferred |-> "DEFERRED", processed |-> "PROCESSED"]
mapMailgunEventType ==
  [delivered |-> "DELIVERED", bounced |-> "BOUNCED", failed |-> "BOUNCED",
   dropped |-> "DROPPED", opened |-> "OPENED", clicked |-> "CLICKED",
   unsubscribed |-> "UNSUBSCRIBED"]
mapSESEventType ==
  [Delivery |-> "DELIVERED", Bounce |-> "BOUNCED", Complaint |-> "SPAM_REPORT"]

TypeIn(table, name) == IF name \in DOMAIN table THEN table[name] ELSE "UNKNOWN"

\* An element of the array is taken for its text: a JSON object has none, and
\* the exception ends the array there.  What came before it is kept.
SendGridEvents(r) ==
  LET taken == {i \in DOMAIN r.items : \A j \in 1..i : r.items[j] # "object"}
  IN IF r.form = "array"
     THEN [i \in 1..Cardinality(taken) |-> TypeIn(mapSendGridEventType, r.items[i])] ELSE <<>>

\* One event, unless the text is not JSON or is not an object, or a field that
\* is read has another shape than expected: the exception comes before the push.
MailgunEvents(r) ==
  IF r.form = "object" /\ r.items[1] # "object"
  THEN <<TypeIn(mapMailgunEventType, r.items[1])>> ELSE <<>>

\* One event whenever the text is JSON: an array or an odd field is caught within
\* parseSESEvent and only leaves the type unknown.
SESEvents(r) ==
  IF r.form = "object" THEN <<TypeIn(mapSESEventType, r.items[1])>>
  ELSE IF r.form = "array" THEN <<"UNKNOWN">> ELSE <<>>

\* createHandler() throws for any other.
SupportedProviders == {"sendgrid", "mailgun", "amazon ses"}

\* Only SendGrid's handler compares the signature.
verifySignature(r) == r.provider = "sendgrid" => r.signature = "right"

Rejected(r) ==
  \/ r.provider \notin SupportedProviders
  \/ SecretSet /\ r.signature # "absent" /\ ~verifySignature(r)

processPayload(r) ==
  CASE r.provider = "sendgrid"   -> SendGridEvents(r)
    [] r.provider = "mailgun"    -> MailgunEvents(r)
    [] r.provider = "amazon ses" -> SESEvents(r)

(***************************************************************************)
(* The processor                                                           *)
(***************************************************************************)
\* events: what was parsed; next and at: the event and the callback at hand;
\* seen: the failure count that was read; then history: the number of callbacks
\* of each type when the call began, and the <<event, callback>> pairs run so far.
NoCall == [events |-> <<>>, next |-> 1, at |-> 1, seen |-> 0,
           known |-> [type \in WebhookEventType |-> 0], ran |-> <<>>]

Init ==
  /\ callbacks_ = [type \in WebhookEventType |-> <<>>]
  /\ statistics_ = [c \in Counters |-> 0]
  /\ mutex_ = NoThread
  /\ pc = [t \in Threads |-> "idle"]
  /\ call = [t \in Threads |-> NoCall]
  /\ requests = 0 /\ refused = 0

Event(t) == call[t].events[call[t].next]
HasEvent(t) == call[t].next <= Len(call[t].events)
Registered == [type \in WebhookEventType |-> Len(callbacks_[type])]

registerCallback(type, behaviour) ==
  /\ mutex_ = NoThread
  /\ Cardinality(UNION {{k} \X DOMAIN callbacks_[k] : k \in WebhookEventType}) < MaxCallbacks
  /\ callbacks_' = [callbacks_ EXCEPT ![type] = Append(@, behaviour)]
  /\ UNCHANGED <<statistics_, mutex_, pc, call, requests, refused>>

\* Verification and parsing touch nothing that is shared.
processWebhook(t, r) ==
  /\ pc[t] = "idle" /\ requests < MaxRequests
  /\ requests' = requests + 1
  /\ call' = [call EXCEPT ![t] = [NoCall EXCEPT
                              !.events = IF Rejected(r) THEN <<>> ELSE processPayload(r),
                              !.known = Registered]]
  /\ pc' = [pc EXCEPT ![t] = IF Rejected(r) THEN "read_failed" ELSE "event"]
  /\ UNCHANGED <<callbacks_, statistics_, mutex_, refused>>

CounterOf ==
  [DELIVERED |-> "delivered", BOUNCED |-> "bounced", OPENED |-> "opened", CLICKED |-> "clicked"]

updateStatistics_NoDelivered(t) ==
  /\ pc[t] = "event" /\ HasEvent(t) /\ mutex_ = NoThread
  /\ statistics_' = [statistics_ EXCEPT !["total_events"] = @ + 1]
  /\ pc' = [pc EXCEPT ![t] = "notify"]
  /\ UNCHANGED <<callbacks_, mutex_, call, requests, refused>>
updateStatistics(t) ==
  /\ pc[t] = "event" /\ HasEvent(t) /\ mutex_ = NoThread
  /\ LET type    == Event(t)
         counted == {"total_events"} \cup
                    (IF type \in DOMAIN CounterOf THEN {CounterOf[type]} ELSE {})
     IN statistics_' = [c \in Counters |-> statistics_[c] + (IF c \in counted THEN 1 ELSE 0)]
  /\ pc' = [pc EXCEPT ![t] = "notify"]
  /\ UNCHANGED <<callbacks_, mutex_, call, requests, refused>>

\* Taking the mutex again, and the callbacks that are registered by now.
FindCallbacks(t) ==
  /\ pc[t] = "notify" /\ mutex_ = NoThread
  /\ IF callbacks_[Event(t)] = <<>>
     THEN /\ pc' = [pc EXCEPT ![t] = "event"]
          /\ call' = [call EXCEPT ![t].next = @ + 1]
          /\ UNCHANGED mutex_
     ELSE /\ pc' = [pc EXCEPT ![t] = "callback"]
          /\ call' = [call EXCEPT ![t].at = 1]
          /\ mutex_' = t
  /\ UNCHANGED <<callbacks_, statistics_, requests, refused>>

Behaviour(t) == callbacks_[Event(t)][call[t].at]
Ran(t) == Append(call[t].ran, <<call[t].next, call[t].at>>)

CallbackReturns_SameEvent(t) ==
  /\ pc[t] = "callback" /\ Behaviour(t) # "reenters"
  /\ IF call[t].at < Len(callbacks_[Event(t)])
     THEN /\ call' = [call EXCEPT ![t].ran = Ran(t), ![t].at = @ + 1]
          /\ UNCHANGED <<pc, mutex_>>
     ELSE /\ call' = [call EXCEPT ![t].ran = Ran(t)]
          /\ pc' = [pc EXCEPT ![t] = "event"]
          /\ mutex_' = NoThread
  /\ UNCHANGED <<callbacks_, statistics_, requests, refused>>
\* The last callback of an event is followed by the next event, without the mutex.
CallbackReturns(t) ==
  /\ pc[t] = "callback" /\ Behaviour(t) # "reenters"
  /\ IF call[t].at < Len(callbacks_[Event(t)])
     THEN /\ call' = [call EXCEPT ![t].ran = Ran(t), ![t].at = @ + 1]
          /\ UNCHANGED <<pc, mutex_>>
     ELSE /\ call' = [call EXCEPT ![t].ran = Ran(t), ![t].next = @ + 1]
          /\ pc' = [pc EXCEPT ![t] = "event"]
          /\ mutex_' = NoThread
  /\ UNCHANGED <<callbacks_, statistics_, requests, refused>>

\* The exception gives the mutex back and ends the whole call.
CallbackThrows_KeepsMutex(t) ==
  /\ pc[t] = "callback" /\ Behaviour(t) = "fails"
  /\ call' = [call EXCEPT ![t].ran = Ran(t)]
  /\ pc' = [pc EXCEPT ![t] = "read_failed"]
  /\ UNCHANGED <<callbacks_, statistics_, mutex_, requests, refused>>
CallbackThrows_Swallowed(t) ==
  /\ pc[t] = "callback" /\ Behaviour(t) = "fails"
  /\ call' = [call EXCEPT ![t].ran = Ran(t), ![t].next = @ + 1]
  /\ pc' = [pc EXCEPT ![t] = "event"]
  /\ mutex_' = NoThread
  /\ UNCHANGED <<callbacks_, statistics_, requests, refused>>
CallbackThrows(t) ==
  /\ pc[t] = "callback" /\ Behaviour(t) = "fails"
  /\ call' = [call EXCEPT ![t].ran = Ran(t)]
  /\ pc' = [pc EXCEPT ![t] = "read_failed"]
  /\ mutex_' = NoThread
  /\ UNCHANGED <<callbacks_, statistics_, requests, refused>>

\* The callback asks for the mutex that its own thread has.
CallbackReenters(t) ==
  /\ pc[t] = "callback" /\ Behaviour(t) = "reenters"
  /\ pc' = [pc EXCEPT ![t] = "stuck"]
  /\ UNCHANGED <<callbacks_, statistics_, mutex_, call, requests, refused>>

ReturnTrue(t) ==
  /\ pc[t] = "event" /\ ~HasEvent(t)
  /\ pc' = [pc EXCEPT ![t] = "idle"]
  /\ call' = [call EXCEPT ![t] = NoCall]
  /\ UNCHANGED <<callbacks_, statistics_, mutex_, requests, refused>>

\* statistics_["failed"]++ is done without the mutex.
ReadFailed(t) ==
  /\ pc[t] = "read_failed"
  /\ call' = [call EXCEPT ![t].seen = statistics_["failed"]]
  /\ pc' = [pc EXCEPT ![t] = "write_failed"]
  /\ UNCHANGED <<callbacks_, statistics_, mutex_, requests, refused>>

WriteFailed_Forgotten(t) ==
  /\ pc[t] = "write_failed"
  /\ pc' = [pc EXCEPT ![t] = "idle"]
  /\ call' = [call EXCEPT ![t] = NoCall]
  /\ refused' = refused + 1
  /\ UNCHANGED <<callbacks_, statistics_, mutex_, requests>>
WriteFailed(t) ==
  /\ pc[t] = "write_failed"
  /\ statistics_' = [statistics_ EXCEPT !["failed"] = call[t].seen + 1]
  /\ pc' = [pc EXCEPT ![t] = "idle"]
  /\ call' = [call EXCEPT ![t] = NoCall]
  /\ refused' = refused + 1
  /\ UNCHANGED <<callbacks_, mutex_, requests>>

\* The next step of the call that a thread makes.
Progress(t) ==
  \/ updateStatistics(t)
  \/ FindCallbacks(t)
  \/ CallbackReturns(t)
  \/ CallbackThrows(t)
  \/ CallbackReenters(t)
  \/ ReturnTrue(t)
  \/ ReadFailed(t)
  \/ WriteFailed(t)

Next ==
  \/ \E registration \in Registrations : registerCallback(registration[1], registration[2])
  \/ \E t \in Threads, r \in Requests : processWebhook(t, r)
  \/ \E t \in Threads : Progress(t)

\* The scheduler runs every thread that can go on; a callback returns, throws
\* or blocks.
Spec == Init /\ [][Next]_vars /\ \A t \in Threads : WF_vars(Progress(t))

(***************************************************************************)
(* Properties                                                              *)
(***************************************************************************)
Before(p, q) == p[1] < q[1] \/ (p[1] = q[1] /\ p[2] < q[2])

\* A call runs the callbacks event by event in the order of the payload, those
\* of one event in the order they were registered, and none of them twice: the
\* two loops of processWebhook, with the mutex given up between two events.
CallbacksInOrder ==
  \A t \in Threads : \A i, j \in DOMAIN call[t].ran :
    i < j => Before(call[t].ran[i], call[t].ran[j])

\* A call that returns true has run every callback that was registered when it
\* began with every event of its type it parsed, however the calls and the
\* registrations of other threads interleaved with it.
Complete(c) ==
  \A i \in DOMAIN c.events : \A k \in 1..c.known[c.events[i]] : <<i, k>> \in ToSet(c.ran)
TrueIsComplete ==
  [][\A t \in Threads : pc[t] = "event" /\ pc'[t] = "idle" => Complete(call[t])]_vars

\* The events of a type that thread t has counted in its call.
Counted(t, type) ==
  {i \in DOMAIN call[t].events : /\ call[t].events[i] = type
                                 /\ i < call[t].next \/ (i = call[t].next /\ pc[t] # "event")}

\* An event is in the counters by the time its callbacks run, so that no thread
\* is notified of more than getStatistics() shows.  The failure count, which is
\* read and written without the mutex and loses updates, never passes the number
\* of calls that returned false and is not left at zero once there is one.
CountsAgree ==
  /\ \A type \in DOMAIN CounterOf :
       Cardinality(UNION {{t} \X Counted(t, type) : t \in Threads})
         <= statistics_[CounterOf[type]]
  /\ statistics_["failed"] <= refused
  /\ refused > 0 => statistics_["failed"] > 0

\* Unless a callback enters the processor again, every call of processWebhook
\* returns: the mutex is given back on every path, when a callback throws too.
CallsReturn ==
  [](\A t \in Threads : pc[t] # "stuck") =>
    \A t \in Threads : (pc[t] # "idle") ~> (pc[t] = "idle")

===============================================================================
