------------------------------ MODULE Analytics ------------------------------
(***************************************************************************)
(* SimpleAnalyticsManager: totals over all mail, and metrics per provider  *)
(* that exist from the first email sent with it.  Every operation here     *)
(* takes metrics_mutex_ for its whole length and is one step; the reports  *)
(* take it a second time and never give it back.                           *)
(*                                                                         *)
(* A rate or an average is a pair <<part, whole>>, the quotient the code   *)
(* computes; <<0, 0>> is the 0.0 it starts from.                           *)
(***************************************************************************)
EXTENDS Naturals, FiniteSets, Sequences, SequencesExt

CONSTANTS
  ProviderNames,
  Latencies,     \* the latencies of API calls
  Window,        \* the latencies kept of a provider (100)
  MaxOperations  \* bound on the operations the application calls

ASSUME AnalyticsAssumption == Window \in Nat \ {0} /\ MaxOperations \in Nat

VARIABLES
  totals,              \* total_emails_sent_ and the other three
  provider_metrics_,   \* the metrics of the providers that have any
  provider_latencies_, \* the last latencies of each provider
  metrics_mutex_,      \* "free", or "held" by a report for good
  measured,            \* all latencies since the last reset (history)
  operations

vars == <<totals, provider_metrics_, provider_latencies_, metrics_mutex_, measured, operations>>

NoRate == <<0, 0>>
Rate(part, whole) == IF whole > 0 THEN <<part, whole>> ELSE NoRate

EmailTotals == [total_sent |-> 0, total_delivered |-> 0, total_failed |-> 0, total_bounced |-> 0]
ProviderMetrics ==
  [total_sent |-> 0, total_delivered |-> 0, total_failed |-> 0, total_bounced |-> 0,
   delivery_rate |-> NoRate, error_rate |-> NoRate, avg_response_time_ms |-> NoRate]

Init ==
  /\ totals = EmailTotals
  /\ provider_metrics_ = [p \in {} |-> ProviderMetrics]
  /\ provider_latencies_ = [p \in ProviderNames |-> <<>>]
  /\ metrics_mutex_ = "free"
  /\ measured = [p \in ProviderNames |-> <<>>]
  /\ operations = 0

Known(p) == p \in DOMAIN provider_metrics_
Metrics(p) == IF Known(p) THEN provider_metrics_[p] ELSE ProviderMetrics
WithMetrics(p, new) ==
  [q \in DOMAIN provider_metrics_ \cup {p} |-> IF q = p THEN new ELSE provider_metrics_[q]]

\* A thread of the application has the mutex for one operation.
Called == metrics_mutex_ = "free" /\ operations < MaxOperations /\ operations' = operations + 1

recordEmailSent(p) ==
  LET old == Metrics(p)
      new == [old EXCEPT !.total_sent = @ + 1,
                         !.delivery_rate = Rate(old.total_delivered, old.total_sent + 1),
                         !.error_rate = Rate(old.total_failed, old.total_sent + 1)]
  IN /\ Called
     /\ totals' = [totals EXCEPT !.total_sent = @ + 1]
     /\ provider_metrics_' = WithMetrics(p, new)
     /\ UNCHANGED <<provider_latencies_, metrics_mutex_, measured>>

\* A delivery, failure or bounce of a provider without metrics only counts in the totals.
Update(p, new) ==
  /\ provider_metrics_' = IF Known(p) THEN WithMetrics(p, new) ELSE provider_metrics_
  /\ UNCHANGED <<provider_latencies_, metrics_mutex_, measured>>

recordEmailDelivered(p) ==
  LET old == Metrics(p) IN
  /\ Called
  /\ totals' = [totals EXCEPT !.total_delivered = @ + 1]
  /\ Update(p, [old EXCEPT !.total_delivered = @ + 1,
                           !.delivery_rate = Rate(old.total_delivered + 1, old.total_sent)])

recordEmailFailed(p) ==
  LET old == Metrics(p) IN
  /\ Called
  /\ totals' = [totals EXCEPT !.total_failed = @ + 1]
  /\ Update(p, [old EXCEPT !.total_failed = @ + 1,
                           !.error_rate = Rate(old.total_failed + 1, old.total_sent)])

recordEmailBounced(p) ==
  /\ Called
  /\ totals' = [totals EXCEPT !.total_bounced = @ + 1]
  /\ Update(p, [Metrics(p) EXCEPT !.total_bounced = @ + 1])

Average(s) == <<FoldSeq(+, 0, s), Len(s)>>

recordAPICall_OffByOne(p, latency) ==
  LET all    == Append(provider_latencies_[p], latency)
      window == IF Len(all) >= Window THEN Tail(all) ELSE all
  IN /\ Called
     /\ provider_latencies_' = [provider_latencies_ EXCEPT ![p] = window]
     /\ provider_metrics_' =
          IF Known(p) THEN [provider_metrics_ EXCEPT ![p].avg_response_time_ms = Average(window)]
          ELSE provider_metrics_
     /\ measured' = [measured EXCEPT ![p] = Append(@, latency)]
     /\ UNCHANGED <<totals, metrics_mutex_>>
\* The new latency pushes the oldest one out of a full window; the average
\* goes to the provider's metrics, if it has any by now.
recordAPICall(p, latency) ==
  LET all    == Append(provider_latencies_[p], latency)
      window == IF Len(all) > Window THEN Tail(all) ELSE all
  IN /\ Called
     /\ provider_latencies_' = [provider_latencies_ EXCEPT ![p] = window]
     /\ provider_metrics_' =
          IF Known(p) THEN [provider_metrics_ EXCEPT ![p].avg_response_time_ms = Average(window)]
          ELSE provider_metrics_
     /\ measured' = [measured EXCEPT ![p] = Append(@, latency)]
     /\ UNCHANGED <<totals, metrics_mutex_>>

reset_KeepsProviders ==
  /\ Called
  /\ totals' = EmailTotals
  /\ UNCHANGED <<provider_metrics_, provider_latencies_, metrics_mutex_, measured>>
reset ==
  /\ Called
  /\ totals' = EmailTotals
  /\ provider_metrics_' = [p \in {} |-> ProviderMetrics]
  /\ provider_latencies_' = [p \in ProviderNames |-> <<>>]
  /\ measured' = [p \in ProviderNames |-> <<>>]
  /\ UNCHANGED metrics_mutex_

\* toJSON() and toCSV() call getProviderMetrics(), which takes the mutex again.
Report ==
  /\ Called
  /\ metrics_mutex_' = "held"
  /\ UNCHANGED <<totals, provider_metrics_, provider_latencies_, measured>>

Next ==
  \/ \E p \in ProviderNames :
       \/ recordEmailSent(p)
       \/ recordEmailDelivered(p)
       \/ recordEmailFailed(p)
       \/ recordEmailBounced(p)
       \/ \E latency \in Latencies : recordAPICall(p, latency)
  \/ reset
  \/ Report

Spec == Init /\ [][Next]_vars

(***************************************************************************)
(* Properties                                                              *)
(***************************************************************************)
\* A sum over the providers: of each one the numbers up to its count.
SumOver(field) ==
  Cardinality(UNION {{p} \X (1..provider_metrics_[p][field]) : p \in DOMAIN provider_metrics_})

\* The totals and the metrics of the providers tell the same story at any time,
\* a reset included: what was sent adds up, no provider has more deliveries,
\* failures or bounces than there are in all, and each rate is the one of the
\* counts beside it.
MetricsAgree ==
  /\ SumOver("total_sent") = totals.total_sent
  /\ \A field \in {"total_delivered", "total_failed", "total_bounced"} :
       SumOver(field) <= totals[field]
  /\ \A p \in DOMAIN provider_metrics_ :
       LET m == provider_metrics_[p] IN
       /\ m.delivery_rate = Rate(m.total_delivered, m.total_sent)
       /\ m.error_rate = Rate(m.total_failed, m.total_sent)

\* The latencies kept are exactly the last Window that were measured since the
\* last reset, and the average shown is theirs or was never computed.
LatencyWindow ==
  \A p \in ProviderNames :
    LET all  == measured[p]
        kept == provider_latencies_[p]
    IN /\ kept = SubSeq(all, Len(all) - Len(kept) + 1, Len(all))
       /\ Len(kept) = IF Len(all) < Window THEN Len(all) ELSE Window
       /\ Known(p) => provider_metrics_[p].avg_response_time_ms \in {NoRate, Average(kept)}

==============================================================================
