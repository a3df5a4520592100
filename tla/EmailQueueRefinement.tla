------------------------ MODULE EmailQueueRefinement ------------------------
(***************************************************************************)
(* EmailQueue implements MailDelivery: the threads, the mutex and the      *)
(* batches are hidden, and each email is mapped to what became of it.      *)
(***************************************************************************)
EXTENDS EmailQueue

fate == [e \in Emails |->
  CASE e \in rejected                   -> "refused"
    [] item[e].status = "NONE" /\ e \notin rejected -> "unsubmitted"
    [] item[e].status = "PROCESSING"    -> "sending"
    [] item[e].status = "SENT"          -> "sent"
    [] item[e].status = "FAILED"        -> "failed"
    [] e \in taken                      -> "withdrawn"
    [] e \in dropped                    -> "lost"
    [] OTHER                            -> "accepted"]

Delivery == INSTANCE MailDelivery WITH sends <- attempts

\* The queue implements the promise of MailDelivery: every step of every thread
\* is one step of a single email's life, or the loss of a batch or of
\* what a destroyed queue still held, or no step.
ImplementsDelivery == Delivery!Spec

=============================================================================
