---------------------------- MODULE MailDelivery ----------------------------
(***************************************************************************)
(* What the queue promises for each email, whatever threads, batches and   *)
(* delays there are: an accepted email is sent by one attempt at a time,   *)
(* over all emails, it is attempted at most MaxRetries + 1 times, and a    *)
(* sent, failed, withdrawn or lost email stays so.                         *)
(***************************************************************************)
EXTENDS Naturals

CONSTANTS Emails, MaxRetries

VARIABLES
  fate,  \* what has become of each email
  sends  \* the number of attempts made for it

vars == <<fate, sends>>

Fates == {"unsubmitted", "accepted", "refused", "sending",
          "sent", "failed", "withdrawn", "lost"}

Init == /\ fate = [e \in Emails |-> "unsubmitted"]
        /\ sends = [e \in Emails |-> 0]

Becomes(e, from, to) == fate[e] = from /\ fate' = [fate EXCEPT ![e] = to]

Submit(e)   == Becomes(e, "unsubmitted", "accepted") /\ UNCHANGED sends
Refuse(e)   == Becomes(e, "unsubmitted", "refused")  /\ UNCHANGED sends
Withdraw(e) == Becomes(e, "accepted", "withdrawn")   /\ UNCHANGED sends

\* One attempt at a time.
Attempt(e) == /\ \A f \in Emails : fate[f] # "sending"
              /\ sends[e] <= MaxRetries
              /\ Becomes(e, "accepted", "sending")
              /\ sends' = [sends EXCEPT ![e] = @ + 1]

Succeed(e) == Becomes(e, "sending", "sent")   /\ UNCHANGED sends
Fail(e)    == Becomes(e, "sending", "failed") /\ UNCHANGED sends

\* A failed attempt may be repeated only while attempts are left.
Defer(e) == sends[e] <= MaxRetries /\ Becomes(e, "sending", "accepted") /\ UNCHANGED sends

\* A sender without a transport fails the email without an attempt.
FailUnsent(e) == sends[e] = 0 /\ Becomes(e, "accepted", "failed") /\ UNCHANGED sends

\* Stopping the sender loses emails it has set aside, and destroying it those
\* that still wait; none of them is in hand.
Lose(S) == /\ S # {} /\ \A e \in S : fate[e] = "accepted"
           /\ \A e \in Emails : fate[e] # "sending"
           /\ fate' = [e \in Emails |-> IF e \in S THEN "lost" ELSE fate[e]]
           /\ UNCHANGED sends

Next ==
  \/ \E e \in Emails : \/ Submit(e) \/ Refuse(e) \/ Withdraw(e)
                       \/ Attempt(e) \/ Succeed(e) \/ Fail(e) \/ Defer(e)
                       \/ FailUnsent(e)
  \/ \E S \in SUBSET Emails : Lose(S)

Spec == Init /\ [][Next]_vars

=============================================================================
