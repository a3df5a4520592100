---------------------------- MODULE AnalyticsProofs ----------------------------
(***************************************************************************)
(* Proofs about Analytics, for any providers, latencies and window: the    *)
(* totals and the metrics of the providers agree, and the latencies kept   *)
(* are the last ones.                                                      *)
(***************************************************************************)
EXTENDS Analytics, FiniteSetTheorems, SequenceTheorems, TLAPS

Fields == {"total_sent", "total_delivered", "total_failed", "total_bounced", "delivery_rate",
           "error_rate", "avg_response_time_ms"}

MetricsOK(m) ==
  /\ DOMAIN m = Fields
  /\ m.total_sent \in Nat /\ m.total_delivered \in Nat
  /\ m.total_failed \in Nat /\ m.total_bounced \in Nat
  /\ m.delivery_rate = Rate(m.total_delivered, m.total_sent)
  /\ m.error_rate = Rate(m.total_failed, m.total_sent)

TypeOK ==
  /\ DOMAIN totals = {"total_sent", "total_delivered", "total_failed", "total_bounced"}
  /\ totals.total_sent \in Nat /\ totals.total_delivered \in Nat
  /\ totals.total_failed \in Nat /\ totals.total_bounced \in Nat
  /\ \A p \in DOMAIN provider_metrics_ : p \in ProviderNames /\ MetricsOK(provider_metrics_[p])
  /\ provider_latencies_ \in [ProviderNames -> Seq(Latencies)]
  /\ measured \in [ProviderNames -> Seq(Latencies)]

(***************************************************************************)
(* Sums                                                                    *)
(***************************************************************************)
\* What SumOver counts, of any counts by provider.
Units(count) == UNION {{p} \X (1..count[p]) : p \in DOMAIN count}

\* The counts of one field.
Column(field) == [p \in DOMAIN provider_metrics_ |-> provider_metrics_[p][field]]

LEMMA SumIsUnits ==
  ASSUME NEW field
  PROVE  /\ SumOver(field) = Cardinality(Units(Column(field)))
         /\ SumOver(field)' = Cardinality(Units(Column(field)'))
<1>1. ASSUME NEW metrics, NEW count, DOMAIN count = DOMAIN metrics,
             \A p \in DOMAIN metrics : count[p] = metrics[p][field]
      PROVE  Units(count) = UNION {{p} \X (1..metrics[p][field]) : p \in DOMAIN metrics}
  BY <1>1 DEF Units
<1>2. Units(Column(field))
        = UNION {{p} \X (1..provider_metrics_[p][field]) : p \in DOMAIN provider_metrics_}
  BY <1>1 DEF Column
<1>3. Units(Column(field)')
        = UNION {{p} \X (1..provider_metrics_'[p][field]) : p \in DOMAIN provider_metrics_'}
  BY <1>1 DEF Column
<1> QED
  BY <1>2, <1>3 DEF SumOver

LEMMA NoUnits ==
  ASSUME NEW count, DOMAIN count = {}
  PROVE  IsFiniteSet(Units(count)) /\ Cardinality(Units(count)) = 0
<1>1. Units(count) = {}
  BY DEF Units
<1> QED
  BY <1>1, FS_EmptySet

\* A count of one provider that stays, or grows by one, takes the sum with it.
LEMMA UnitsGrow ==
  ASSUME NEW old, NEW new, NEW p, NEW k \in {0, 1},
         IsFiniteSet(Units(old)), \A q \in DOMAIN old : old[q] \in Nat,
         DOMAIN new = DOMAIN old \cup {p},
         \A q \in DOMAIN old \ {p} : new[q] = old[q],
         p \in DOMAIN old => new[p] = old[p] + k,
         p \notin DOMAIN old => new[p] = k
  PROVE  IsFiniteSet(Units(new)) /\ Cardinality(Units(new)) = Cardinality(Units(old)) + k
<1> DEFINE before == IF p \in DOMAIN old THEN old[p] ELSE 0
<1>1. before \in Nat /\ new[p] = k + before
  OBVIOUS
<1>2. \A q, i : <<q, i>> \in Units(old) <=> q \in DOMAIN old /\ i \in 1..old[q]
  BY DEF Units
<1>3. \A q, i : <<q, i>> \in Units(new) <=> q \in DOMAIN new /\ i \in 1..new[q]
  BY DEF Units
<1>4. /\ \A u \in Units(old) : u = <<u[1], u[2]>>
      /\ \A u \in Units(new) : u = <<u[1], u[2]>>
  BY DEF Units
<1>5. Cardinality(Units(old)) \in Nat
  BY FS_CardinalityType
<1> HIDE DEF before
<1>6. \A q, i : <<q, i>> \in Units(old) <=> (q = p /\ i \in 1..before) \/ (q # p /\ q \in DOMAIN old /\ i \in 1..old[q])
  <2>1. \A i : i \in 1..before <=> p \in DOMAIN old /\ i \in 1..old[p]
    BY DEF before
  <2> QED
    BY <1>2, <2>1
<1>7. \A q, i : <<q, i>> \in Units(new) <=> (q = p /\ i \in 1..(k + before)) \/ (q # p /\ q \in DOMAIN old /\ i \in 1..old[q])
  BY <1>1, <1>3
<1>8. CASE k = 0
  <2>1. 1..(k + before) = 1..before
    BY <1>1, <1>8
  <2>2. \A q, i : <<q, i>> \in Units(new) <=> <<q, i>> \in Units(old)
    BY <1>6, <1>7, <2>1
  <2>3. \A u : u \in Units(new) <=> u \in Units(old)
    BY <1>4, <2>2
  <2>4. Units(new) = Units(old)
    BY <2>3
  <2> QED
    BY <1>5, <1>8, <2>4
<1>9. CASE k = 1
  <2>1. \A i : i \in 1..(k + before) <=> i \in 1..before \/ i = before + 1
    BY <1>1, <1>9
  <2>2. Units(new) = Units(old) \cup {<<p, before + 1>>}
    BY <1>4, <1>6, <1>7, <2>1
  <2>3. <<p, before + 1>> \notin Units(old)
    BY <1>1, <1>6
  <2>4. PICK u : u = <<p, before + 1>>
    OBVIOUS
  <2>5. /\ IsFiniteSet(Units(old) \cup {u})
        /\ Cardinality(Units(old) \cup {u}) = Cardinality(Units(old)) + 1
    BY <2>3, <2>4, FS_AddElement
  <2> QED
    BY <1>9, <2>2, <2>4, <2>5
<1> QED
  BY <1>8, <1>9

\* Every column has a finite sum, and the columns of counts hold numbers.
Counts == {"total_sent", "total_delivered", "total_failed", "total_bounced"}

LEMMA ColumnType ==
  ASSUME TypeOK, NEW field \in Counts
  PROVE  /\ DOMAIN Column(field) = DOMAIN provider_metrics_
         /\ \A p \in DOMAIN provider_metrics_ : Column(field)[p] \in Nat
<1>1. \A p \in DOMAIN provider_metrics_ : provider_metrics_[p][field] \in Nat
  BY DEF TypeOK, MetricsOK, Counts
<1> QED
  BY <1>1 DEF Column

SumsInv ==
  /\ \A field \in Counts : IsFiniteSet(Units(Column(field)))
  /\ SumOver("total_sent") = totals.total_sent
  /\ SumOver("total_delivered") <= totals.total_delivered
  /\ SumOver("total_failed") <= totals.total_failed
  /\ SumOver("total_bounced") <= totals.total_bounced

LEMMA SumType ==
  ASSUME SumsInv, NEW field \in Counts
  PROVE  SumOver(field) \in Nat
  BY SumIsUnits, FS_CardinalityType DEF SumsInv

\* A metric of one provider that stays, or grows by one, takes the sum with it.
LEMMA SumGrows ==
  ASSUME TypeOK, SumsInv, NEW p, NEW new, provider_metrics_' = WithMetrics(p, new),
         NEW field \in Counts, NEW k \in {0, 1}, new[field] = Metrics(p)[field] + k
  PROVE  IsFiniteSet(Units(Column(field)))' /\ SumOver(field)' = SumOver(field) + k
<1>1. PICK old : old = Column(field)
  OBVIOUS
<1>2. PICK grown : grown = Column(field)'
  OBVIOUS
<1>3. DOMAIN old = DOMAIN provider_metrics_ /\ \A q \in DOMAIN old : old[q] \in Nat
  BY <1>1, ColumnType
<1>4. /\ DOMAIN grown = DOMAIN old \cup {p}
      /\ \A q \in DOMAIN old \ {p} : grown[q] = old[q]
      /\ grown[p] = new[field]
  BY <1>1, <1>2, <1>3 DEF Column, WithMetrics
<1>5. Metrics(p)[field] = IF p \in DOMAIN old THEN old[p] ELSE 0
  BY <1>1, <1>3 DEF Metrics, Known, Column, ProviderMetrics, Counts
<1>6. /\ p \in DOMAIN old => grown[p] = old[p] + k
      /\ p \notin DOMAIN old => grown[p] = k
  BY <1>4, <1>5
<1>7. IsFiniteSet(Units(old))
  BY <1>1 DEF SumsInv
<1>8. IsFiniteSet(Units(grown)) /\ Cardinality(Units(grown)) = Cardinality(Units(old)) + k
  BY <1>3, <1>4, <1>6, <1>7, UnitsGrow
<1>9. SumOver(field)' = Cardinality(Units(grown))
  BY <1>2, SumIsUnits
<1>10. SumOver(field) = Cardinality(Units(old))
  BY <1>1, SumIsUnits
<1> QED
  BY <1>2, <1>8, <1>9, <1>10

(***************************************************************************)
(* The window                                                              *)
(***************************************************************************)
Fits(kept, all) ==
  /\ kept = SubSeq(all, Len(all) - Len(kept) + 1, Len(all))
  /\ Len(kept) = IF Len(all) < Window THEN Len(all) ELSE Window

\* What is kept of a sequence are its last elements.
LEMMA LastOf ==
  ASSUME NEW all \in Seq(Latencies), NEW n \in Nat, n <= Len(all)
  PROVE  LET last == SubSeq(all, Len(all) - n + 1, Len(all)) IN
         /\ last \in Seq(Latencies) /\ Len(last) = n
         /\ \A i \in 1..n : last[i] = all[Len(all) - n + i]
<1>1. Len(all) \in Nat /\ Len(all) - n + 1 \in Nat \ {0}
  BY LenProperties
<1> QED
  BY <1>1

\* A latency that is added moves the window on by one.
LEMMA WindowMoves ==
  ASSUME NEW kept \in Seq(Latencies), NEW all \in Seq(Latencies), NEW latency \in Latencies,
         Fits(kept, all), NEW next,
         next = IF Len(Append(kept, latency)) > Window THEN Tail(Append(kept, latency))
                ELSE Append(kept, latency)
  PROVE  next \in Seq(Latencies) /\ Fits(next, Append(all, latency))
<1> USE AnalyticsAssumption DEF AnalyticsAssumption
<1>1. PICK k, m \in Nat : k = Len(kept) /\ m = Len(all)
  BY LenProperties
<1>2. k = (IF m < Window THEN m ELSE Window) /\ k <= m
  BY <1>1 DEF Fits
<1>3. \A i \in 1..k : kept[i] = all[m - k + i]
  <2>1. PICK last : last = SubSeq(all, Len(all) - k + 1, Len(all))
    OBVIOUS
  <2>2. \A i \in 1..k : last[i] = all[Len(all) - k + i]
    BY <1>1, <1>2, <2>1, LastOf
  <2>3. kept = last
    BY <1>1, <2>1 DEF Fits
  <2> QED
    BY <1>1, <2>2, <2>3
<1>4. PICK more, longer : more = Append(kept, latency) /\ longer = Append(all, latency)
  OBVIOUS
<1>5. /\ more \in Seq(Latencies) /\ Len(more) = k + 1 /\ more[k + 1] = latency
      /\ \A i \in 1..k : more[i] = kept[i]
  BY <1>1, <1>4, AppendProperties
<1>6. /\ longer \in Seq(Latencies) /\ Len(longer) = m + 1 /\ longer[m + 1] = latency
      /\ \A i \in 1..m : longer[i] = all[i]
  BY <1>1, <1>4, AppendProperties
<1>7. \A i \in 1..(k + 1) : more[i] = longer[m - k + i]
  <2>1. ASSUME NEW i \in 1..k PROVE more[i] = longer[m - k + i]
    <3>1. m - k + i \in 1..m
      BY <1>1, <1>2
    <3> QED
      BY <1>3, <1>5, <1>6, <3>1
  <2>2. m - k + (k + 1) = m + 1
    BY <1>1
  <2>3. more[k + 1] = longer[m - k + (k + 1)]
    BY <1>5, <1>6, <2>2
  <2>4. \A i \in 1..(k + 1) : i \in 1..k \/ i = k + 1
    BY <1>1
  <2> QED
    BY <2>1, <2>3, <2>4
<1>8. PICK n \in Nat : n = IF m + 1 < Window THEN m + 1 ELSE Window
  BY <1>1
<1>9. /\ next \in Seq(Latencies) /\ Len(next) = n
      /\ \A i \in 1..n : next[i] = longer[m + 1 - n + i]
  <2>1. CASE k < Window
    <3>1. next = more /\ n = k + 1 /\ k = m
      BY <1>1, <1>2, <1>4, <1>5, <1>8, <2>1
    <3>2. ASSUME NEW i \in 1..n PROVE next[i] = longer[m + 1 - n + i]
      <4>1. i \in 1..(k + 1) /\ m - k + i = m + 1 - n + i
        BY <1>1, <3>1
      <4> QED
        BY <1>7, <3>1, <4>1
    <3> QED
      BY <1>5, <3>1, <3>2
  <2>2. CASE ~(k < Window)
    <3>1. k = Window /\ next = Tail(more) /\ n = k /\ n <= m
      BY <1>1, <1>2, <1>4, <1>5, <1>8, <2>2
    <3>2. /\ next \in Seq(Latencies) /\ Len(next) = k
          /\ \A i \in 1..k : next[i] = more[i + 1]
      <4>1. more # <<>>
        BY <1>1, <1>5
      <4>2. /\ next \in Seq(Latencies) /\ Len(next) = Len(more) - 1
            /\ \A i \in 1..Len(next) : next[i] = more[i + 1]
        <5>1. PICK t : t = Tail(more)
          OBVIOUS
        <5>2. /\ t \in Seq(Latencies) /\ Len(t) = Len(more) - 1
              /\ \A i \in 1..Len(t) : t[i] = more[i + 1]
          BY <1>5, <4>1, <5>1, HeadTailProperties
        <5> QED
          BY <3>1, <5>1, <5>2
      <4>3. Len(next) = k
        BY <1>1, <1>5, <4>2
      <4> QED
        BY <4>2, <4>3
    <3>3. ASSUME NEW i \in 1..n PROVE next[i] = longer[m + 1 - n + i]
      <4>1. i + 1 \in 1..(k + 1) /\ m - k + (i + 1) = m + 1 - n + i
        BY <1>1, <3>1
      <4> QED
        BY <1>7, <3>1, <3>2, <4>1
    <3> QED
      BY <3>1, <3>2, <3>3
  <2> QED
    BY <2>1, <2>2
<1>10. PICK last : last = SubSeq(longer, Len(longer) - n + 1, Len(longer))
  OBVIOUS
<1>11. n <= m + 1
  BY <1>1, <1>8
<1>12. /\ last \in Seq(Latencies) /\ Len(last) = n
       /\ \A i \in 1..n : last[i] = longer[m + 1 - n + i]
  BY <1>6, <1>10, <1>11, LastOf
<1>13. next = last
  BY <1>9, <1>12, SeqEqual
<1> QED
  BY <1>4, <1>6, <1>8, <1>9, <1>10, <1>13 DEF Fits

(***************************************************************************)
(* The invariant                                                           *)
(***************************************************************************)
IInv == TypeOK /\ SumsInv /\ LatencyWindow

LEMMA InitOK == Init => IInv
<1> SUFFICES ASSUME Init PROVE IInv
  OBVIOUS
<1> USE AnalyticsAssumption DEF AnalyticsAssumption
<1>1. DOMAIN provider_metrics_ = {}
  BY DEF Init
<1>2. TypeOK
  <2>1. <<>> \in Seq(Latencies)
    OBVIOUS
  <2> QED
    BY <1>1, <2>1 DEF Init, TypeOK, EmailTotals
<1>3. SumsInv
  <2>1. ASSUME NEW field \in Counts
        PROVE  IsFiniteSet(Units(Column(field))) /\ SumOver(field) = 0
    <3>1. DOMAIN Column(field) = {}
      BY <1>1 DEF Column
    <3> QED
      BY <3>1, NoUnits, SumIsUnits
  <2> QED
    BY <2>1 DEF SumsInv, Init, EmailTotals, Counts
<1>4. LatencyWindow
  <2>1. ASSUME NEW p \in ProviderNames PROVE Fits(provider_latencies_[p], measured[p]) /\ ~Known(p)
    <3>1. provider_latencies_[p] = <<>> /\ measured[p] = <<>>
      BY DEF Init
    <3>2. Len(<<>>) = 0 /\ SubSeq(<<>>, 1, 0) = <<>>
      OBVIOUS
    <3> QED
      BY <1>1, <3>1, <3>2 DEF Fits, Known
  <2> QED
    BY <2>1 DEF LatencyWindow, Fits
<1> QED
  BY <1>2, <1>3, <1>4 DEF IInv

\* What an operation that counts an email does to the metrics of its provider.
LEMMA CountKeeps ==
  ASSUME IInv, NEW p \in ProviderNames, NEW new, MetricsOK(new),
         provider_metrics_' = WithMetrics(p, new), UNCHANGED <<provider_latencies_, measured>>,
         new.avg_response_time_ms = Metrics(p).avg_response_time_ms,
         NEW s \in {0, 1}, NEW d \in {0, 1}, NEW f \in {0, 1}, NEW b \in {0, 1},
         new.total_sent = Metrics(p).total_sent + s,
         new.total_delivered = Metrics(p).total_delivered + d,
         new.total_failed = Metrics(p).total_failed + f,
         new.total_bounced = Metrics(p).total_bounced + b,
         DOMAIN totals' = DOMAIN totals,
         totals'.total_sent = totals.total_sent + s,
         totals'.total_delivered = totals.total_delivered + d,
         totals'.total_failed = totals.total_failed + f,
         totals'.total_bounced = totals.total_bounced + b
  PROVE  IInv'
<1>1. /\ DOMAIN provider_metrics_' = DOMAIN provider_metrics_ \cup {p}
      /\ provider_metrics_'[p] = new
      /\ \A q \in DOMAIN provider_metrics_ \ {p} : provider_metrics_'[q] = provider_metrics_[q]
  BY DEF WithMetrics
<1>2. TypeOK'
  <2>1. ASSUME NEW q \in DOMAIN provider_metrics_'
        PROVE  q \in ProviderNames /\ MetricsOK(provider_metrics_'[q])
    <3>1. CASE q = p
      BY <1>1, <3>1
    <3>2. CASE q # p
      BY <1>1, <3>2 DEF IInv, TypeOK
    <3> QED
      BY <3>1, <3>2
  <2>2. /\ totals'.total_sent \in Nat /\ totals'.total_delivered \in Nat
        /\ totals'.total_failed \in Nat /\ totals'.total_bounced \in Nat
    <3>1. \A n \in Nat, k \in {0, 1} : n + k \in Nat
      OBVIOUS
    <3>2. /\ totals.total_sent \in Nat /\ totals.total_delivered \in Nat
          /\ totals.total_failed \in Nat /\ totals.total_bounced \in Nat
      BY DEF IInv, TypeOK
    <3> QED
      BY <3>1, <3>2
  <2>3. \A q \in DOMAIN provider_metrics_' : q \in ProviderNames /\ MetricsOK(provider_metrics_'[q])
    BY <2>1
  <2> QED
    BY <2>2, <2>3 DEF IInv, TypeOK, MetricsOK
<1>3. /\ IsFiniteSet(Units(Column("total_sent")))'
      /\ SumOver("total_sent")' = SumOver("total_sent") + s
  BY SumGrows DEF IInv, Counts
<1>4. /\ IsFiniteSet(Units(Column("total_delivered")))'
      /\ SumOver("total_delivered")' = SumOver("total_delivered") + d
  BY SumGrows DEF IInv, Counts
<1>5. /\ IsFiniteSet(Units(Column("total_failed")))'
      /\ SumOver("total_failed")' = SumOver("total_failed") + f
  BY SumGrows DEF IInv, Counts
<1>6. /\ IsFiniteSet(Units(Column("total_bounced")))'
      /\ SumOver("total_bounced")' = SumOver("total_bounced") + b
  BY SumGrows DEF IInv, Counts
<1>7. SumsInv'
  <2>1. /\ SumOver("total_sent") \in Nat /\ SumOver("total_delivered") \in Nat
        /\ SumOver("total_failed") \in Nat /\ SumOver("total_bounced") \in Nat
    BY SumType DEF IInv, Counts
  <2>2. \A field \in Counts : IsFiniteSet(Units(Column(field)))'
    BY <1>3, <1>4, <1>5, <1>6 DEF Counts
  <2>3. SumOver("total_sent")' = totals'.total_sent
    BY <1>3 DEF IInv, SumsInv
  <2>4. \A n, m \in Nat, k \in {0, 1} : n <= m => n + k <= m + k
    OBVIOUS
  <2>5. SumOver("total_delivered")' <= totals'.total_delivered
    BY <1>4, <2>1, <2>4 DEF IInv, SumsInv, TypeOK
  <2>6. SumOver("total_failed")' <= totals'.total_failed
    BY <1>5, <2>1, <2>4 DEF IInv, SumsInv, TypeOK
  <2>7. SumOver("total_bounced")' <= totals'.total_bounced
    BY <1>6, <2>1, <2>4 DEF IInv, SumsInv, TypeOK
  <2> QED
    BY <2>2, <2>3, <2>5, <2>6, <2>7 DEF SumsInv
<1>8. LatencyWindow'
  BY <1>1 DEF IInv, LatencyWindow, Known, Metrics, ProviderMetrics
<1> QED
  BY <1>2, <1>7, <1>8 DEF IInv

\* What one does when the provider has no metrics.
LEMMA TotalKeeps ==
  ASSUME IInv, UNCHANGED <<provider_metrics_, provider_latencies_, measured>>,
         NEW d \in {0, 1}, NEW f \in {0, 1}, NEW b \in {0, 1},
         DOMAIN totals' = DOMAIN totals,
         totals'.total_sent = totals.total_sent,
         totals'.total_delivered = totals.total_delivered + d,
         totals'.total_failed = totals.total_failed + f,
         totals'.total_bounced = totals.total_bounced + b
  PROVE  IInv'
<1>1. TypeOK'
  BY DEF IInv, TypeOK, MetricsOK
<1>2. SumsInv'
  <2>1. \A field \in Counts : SumOver(field) \in Nat /\ SumOver(field)' = SumOver(field)
    BY SumType DEF IInv, SumOver
  <2>2. \A field \in Counts : Column(field)' = Column(field)
    BY DEF Column
  <2> QED
    BY <2>1, <2>2 DEF SumsInv, Counts, IInv, TypeOK
<1>3. LatencyWindow'
  BY DEF IInv, LatencyWindow, Known
<1> QED
  BY <1>1, <1>2, <1>3 DEF IInv

LEMMA MetricsKnown ==
  ASSUME TypeOK, NEW p
  PROVE  MetricsOK(Metrics(p))
<1>1. MetricsOK(ProviderMetrics)
  BY DEF MetricsOK, ProviderMetrics, Fields, Rate, NoRate
<1> QED
  BY <1>1 DEF TypeOK, Metrics, Known

LEMMA SentKeeps == ASSUME IInv, NEW p \in ProviderNames, recordEmailSent(p) PROVE IInv'
<1>1. PICK old : old = Metrics(p)
  OBVIOUS
<1>2. MetricsOK(old)
  BY <1>1, MetricsKnown DEF IInv
<1>3. PICK new : new = [old EXCEPT !.total_sent = @ + 1,
                         !.delivery_rate = Rate(old.total_delivered, old.total_sent + 1),
                         !.error_rate = Rate(old.total_failed, old.total_sent + 1)]
  OBVIOUS
<1>4. /\ MetricsOK(new)
      /\ new.total_sent = old.total_sent + 1 /\ new.total_delivered = old.total_delivered + 0
      /\ new.total_failed = old.total_failed + 0 /\ new.total_bounced = old.total_bounced + 0
      /\ new.avg_response_time_ms = old.avg_response_time_ms
  BY <1>2, <1>3 DEF MetricsOK, Fields
<1>5. /\ provider_metrics_' = WithMetrics(p, new)
      /\ UNCHANGED <<provider_latencies_, measured>>
  BY <1>1, <1>3 DEF recordEmailSent
<1>6. /\ DOMAIN totals' = DOMAIN totals
      /\ totals'.total_sent = totals.total_sent + 1
      /\ totals'.total_delivered = totals.total_delivered + 0
      /\ totals'.total_failed = totals.total_failed + 0
      /\ totals'.total_bounced = totals.total_bounced + 0
  BY DEF recordEmailSent, IInv, TypeOK
<1> QED
  BY <1>1, <1>4, <1>5, <1>6, CountKeeps

LEMMA DeliveredKeeps == ASSUME IInv, NEW p \in ProviderNames, recordEmailDelivered(p) PROVE IInv'
<1>1. PICK old : old = Metrics(p)
  OBVIOUS
<1>2. MetricsOK(old)
  BY <1>1, MetricsKnown DEF IInv
<1>3. PICK new : new = [old EXCEPT !.total_delivered = @ + 1,
                           !.delivery_rate = Rate(old.total_delivered + 1, old.total_sent)]
  OBVIOUS
<1>4. /\ MetricsOK(new)
      /\ new.total_sent = old.total_sent + 0 /\ new.total_delivered = old.total_delivered + 1
      /\ new.total_failed = old.total_failed + 0 /\ new.total_bounced = old.total_bounced + 0
      /\ new.avg_response_time_ms = old.avg_response_time_ms
  BY <1>2, <1>3 DEF MetricsOK, Fields
<1>5. Update(p, new)
  BY <1>1, <1>3 DEF recordEmailDelivered
<1>6. /\ DOMAIN totals' = DOMAIN totals
      /\ totals'.total_sent = totals.total_sent + 0 /\ totals'.total_sent = totals.total_sent
      /\ totals'.total_delivered = totals.total_delivered + 1
      /\ totals'.total_failed = totals.total_failed + 0
      /\ totals'.total_bounced = totals.total_bounced + 0
  BY DEF recordEmailDelivered, IInv, TypeOK
<1>7. CASE Known(p)
  <2>1. /\ provider_metrics_' = WithMetrics(p, new)
        /\ UNCHANGED <<provider_latencies_, measured>>
    BY <1>5, <1>7 DEF Update
  <2> QED
    BY <1>1, <1>4, <1>6, <2>1, CountKeeps
<1>8. CASE ~Known(p)
  <2>1. UNCHANGED <<provider_metrics_, provider_latencies_, measured>>
    BY <1>5, <1>8 DEF Update
  <2> QED
    BY <1>6, <2>1, TotalKeeps
<1> QED
  BY <1>7, <1>8

LEMMA FailedKeeps == ASSUME IInv, NEW p \in ProviderNames, recordEmailFailed(p) PROVE IInv'
<1>1. PICK old : old = Metrics(p)
  OBVIOUS
<1>2. MetricsOK(old)
  BY <1>1, MetricsKnown DEF IInv
<1>3. PICK new : new = [old EXCEPT !.total_failed = @ + 1,
                           !.error_rate = Rate(old.total_failed + 1, old.total_sent)]
  OBVIOUS
<1>4. /\ MetricsOK(new)
      /\ new.total_sent = old.total_sent + 0 /\ new.total_delivered = old.total_delivered + 0
      /\ new.total_failed = old.total_failed + 1 /\ new.total_bounced = old.total_bounced + 0
      /\ new.avg_response_time_ms = old.avg_response_time_ms
  BY <1>2, <1>3 DEF MetricsOK, Fields
<1>5. Update(p, new)
  BY <1>1, <1>3 DEF recordEmailFailed
<1>6. /\ DOMAIN totals' = DOMAIN totals
      /\ totals'.total_sent = totals.total_sent + 0 /\ totals'.total_sent = totals.total_sent
      /\ totals'.total_delivered = totals.total_delivered + 0
      /\ totals'.total_failed = totals.total_failed + 1
      /\ totals'.total_bounced = totals.total_bounced + 0
  BY DEF recordEmailFailed, IInv, TypeOK
<1>7. CASE Known(p)
  <2>1. /\ provider_metrics_' = WithMetrics(p, new)
        /\ UNCHANGED <<provider_latencies_, measured>>
    BY <1>5, <1>7 DEF Update
  <2> QED
    BY <1>1, <1>4, <1>6, <2>1, CountKeeps
<1>8. CASE ~Known(p)
  <2>1. UNCHANGED <<provider_metrics_, provider_latencies_, measured>>
    BY <1>5, <1>8 DEF Update
  <2> QED
    BY <1>6, <2>1, TotalKeeps
<1> QED
  BY <1>7, <1>8

LEMMA BouncedKeeps == ASSUME IInv, NEW p \in ProviderNames, recordEmailBounced(p) PROVE IInv'
<1>1. PICK old : old = Metrics(p)
  OBVIOUS
<1>2. MetricsOK(old)
  BY <1>1, MetricsKnown DEF IInv
<1>3. PICK new : new = [old EXCEPT !.total_bounced = @ + 1]
  OBVIOUS
<1>4. /\ MetricsOK(new)
      /\ new.total_sent = old.total_sent + 0 /\ new.total_delivered = old.total_delivered + 0
      /\ new.total_failed = old.total_failed + 0 /\ new.total_bounced = old.total_bounced + 1
      /\ new.avg_response_time_ms = old.avg_response_time_ms
  BY <1>2, <1>3 DEF MetricsOK, Fields
<1>5. Update(p, new)
  BY <1>1, <1>3 DEF recordEmailBounced
<1>6. /\ DOMAIN totals' = DOMAIN totals
      /\ totals'.total_sent = totals.total_sent + 0 /\ totals'.total_sent = totals.total_sent
      /\ totals'.total_delivered = totals.total_delivered + 0
      /\ totals'.total_failed = totals.total_failed + 0
      /\ totals'.total_bounced = totals.total_bounced + 1
  BY DEF recordEmailBounced, IInv, TypeOK
<1>7. CASE Known(p)
  <2>1. /\ provider_metrics_' = WithMetrics(p, new)
        /\ UNCHANGED <<provider_latencies_, measured>>
    BY <1>5, <1>7 DEF Update
  <2> QED
    BY <1>1, <1>4, <1>6, <2>1, CountKeeps
<1>8. CASE ~Known(p)
  <2>1. UNCHANGED <<provider_metrics_, provider_latencies_, measured>>
    BY <1>5, <1>8 DEF Update
  <2> QED
    BY <1>6, <2>1, TotalKeeps
<1> QED
  BY <1>7, <1>8

LEMMA CallKeeps ==
  ASSUME IInv, NEW p \in ProviderNames, NEW latency \in Latencies, recordAPICall(p, latency)
  PROVE  IInv'
<1>1. PICK kept, all : kept = provider_latencies_[p] /\ all = measured[p]
  OBVIOUS
<1>2. PICK more : more = Append(kept, latency)
  OBVIOUS
<1>3. PICK next : next = IF Len(more) > Window THEN Tail(more) ELSE more
  OBVIOUS
<1>4. kept \in Seq(Latencies) /\ all \in Seq(Latencies) /\ Fits(kept, all)
  BY <1>1 DEF IInv, TypeOK, LatencyWindow, Fits
<1>5. next \in Seq(Latencies) /\ Fits(next, Append(all, latency))
  BY <1>2, <1>3, <1>4, WindowMoves
<1>6. Append(all, latency) \in Seq(Latencies)
  BY <1>4, AppendProperties
<1>7. PICK average : average = Average(next)
  OBVIOUS
<1>8. /\ provider_latencies_' = [provider_latencies_ EXCEPT ![p] = next]
      /\ measured' = [measured EXCEPT ![p] = Append(all, latency)]
      /\ provider_metrics_' =
           IF Known(p) THEN [provider_metrics_ EXCEPT ![p].avg_response_time_ms = average]
           ELSE provider_metrics_
      /\ UNCHANGED totals
  BY <1>1, <1>2, <1>3, <1>7 DEF recordAPICall
<1>9. /\ DOMAIN provider_metrics_' = DOMAIN provider_metrics_
      /\ \A q \in DOMAIN provider_metrics_ : q # p => provider_metrics_'[q] = provider_metrics_[q]
      /\ Known(p) => provider_metrics_'[p] = [provider_metrics_[p] EXCEPT !.avg_response_time_ms = average]
  BY <1>8 DEF Known
<1>10. ASSUME NEW q \in DOMAIN provider_metrics_
       PROVE  /\ q \in ProviderNames /\ MetricsOK(provider_metrics_'[q])
              /\ \A field \in Counts : provider_metrics_'[q][field] = provider_metrics_[q][field]
  <2>1. q \in ProviderNames /\ MetricsOK(provider_metrics_[q])
    BY DEF IInv, TypeOK
  <2>2. CASE q # p
    BY <1>9, <2>1, <2>2
  <2>3. CASE q = p
    <3>1. PICK m : m = provider_metrics_[p]
      OBVIOUS
    <3>2. provider_metrics_'[p] = [m EXCEPT !.avg_response_time_ms = average]
      BY <1>9, <2>3, <3>1 DEF Known
    <3>3. MetricsOK(m)
      BY <2>1, <2>3, <3>1
    <3> QED
      BY <2>3, <3>1, <3>2, <3>3 DEF MetricsOK, Fields, Counts
  <2> QED
    BY <2>2, <2>3
<1>11. /\ provider_latencies_' \in [ProviderNames -> Seq(Latencies)]
       /\ measured' \in [ProviderNames -> Seq(Latencies)]
  BY <1>5, <1>6, <1>8 DEF IInv, TypeOK
<1>12. TypeOK'
  <2>1. \A q \in DOMAIN provider_metrics_' : q \in ProviderNames /\ MetricsOK(provider_metrics_'[q])
    BY <1>9, <1>10
  <2> QED
    BY <1>8, <1>11, <2>1 DEF IInv, TypeOK, MetricsOK
<1>13. SumsInv'
  <2>1. ASSUME NEW field \in Counts
        PROVE  Column(field)' = Column(field) /\ SumOver(field)' = SumOver(field)
    <3>1. Column(field)' = Column(field)
      BY <1>9, <1>10 DEF Column
    <3> QED
      BY <3>1, SumIsUnits
  <2> QED
    BY <1>8, <2>1 DEF IInv, SumsInv, Counts
<1>14. LatencyWindow'
  <2>1. ASSUME NEW q \in ProviderNames
        PROVE  /\ Fits(provider_latencies_'[q], measured'[q])
               /\ q \in DOMAIN provider_metrics_' =>
                    provider_metrics_'[q].avg_response_time_ms \in {NoRate, Average(provider_latencies_'[q])}
    <3>1. CASE q # p
      <4>1. provider_latencies_'[q] = provider_latencies_[q] /\ measured'[q] = measured[q]
        BY <1>8, <3>1 DEF IInv, TypeOK
      <4>2. /\ Fits(provider_latencies_[q], measured[q])
            /\ q \in DOMAIN provider_metrics_ =>
                 provider_metrics_[q].avg_response_time_ms \in {NoRate, Average(provider_latencies_[q])}
        BY DEF IInv, LatencyWindow, Fits, Known
      <4> QED
        BY <1>9, <3>1, <4>1, <4>2
    <3>2. CASE q = p
      <4>1. provider_latencies_'[p] = next /\ measured'[p] = Append(all, latency)
        BY <1>8 DEF IInv, TypeOK
      <4>2. ASSUME p \in DOMAIN provider_metrics_
            PROVE  provider_metrics_'[p].avg_response_time_ms = average
        <5>1. MetricsOK(provider_metrics_[p])
          BY <4>2 DEF IInv, TypeOK
        <5>2. PICK m : m = provider_metrics_[p]
          OBVIOUS
        <5> QED
          BY <1>9, <4>2, <5>1, <5>2 DEF Known, MetricsOK, Fields
      <4> QED
        BY <1>5, <1>7, <1>9, <3>2, <4>1, <4>2
    <3> QED
      BY <3>1, <3>2
  <2> QED
    BY <2>1 DEF LatencyWindow, Fits, Known
<1> QED
  BY <1>12, <1>13, <1>14 DEF IInv

LEMMA ResetKeeps == ASSUME reset PROVE IInv'
<1>1. DOMAIN provider_metrics_' = {}
  BY DEF reset
<1>2. TypeOK'
  <2>1. <<>> \in Seq(Latencies)
    OBVIOUS
  <2> QED
    BY <1>1, <2>1 DEF reset, TypeOK, EmailTotals
<1>3. SumsInv'
  <2>1. ASSUME NEW field \in Counts
        PROVE  IsFiniteSet(Units(Column(field)'))  /\ SumOver(field)' = 0
    <3>1. PICK count : count = Column(field)'
      OBVIOUS
    <3>2. DOMAIN count = {}
      BY <1>1, <3>1 DEF Column
    <3> QED
      BY <3>1, <3>2, NoUnits, SumIsUnits
  <2> QED
    BY <2>1 DEF SumsInv, reset, EmailTotals, Counts
<1>4. LatencyWindow'
  <2>1. ASSUME NEW p \in ProviderNames
        PROVE  Fits(provider_latencies_'[p], measured'[p]) /\ p \notin DOMAIN provider_metrics_'
    <3>1. provider_latencies_'[p] = <<>> /\ measured'[p] = <<>>
      BY DEF reset
    <3>2. Len(<<>>) = 0 /\ SubSeq(<<>>, 1, 0) = <<>>
      OBVIOUS
    <3> QED
      BY <1>1, <3>1, <3>2, AnalyticsAssumption DEF Fits, AnalyticsAssumption
  <2> QED
    BY <2>1 DEF LatencyWindow, Fits, Known
<1> QED
  BY <1>2, <1>3, <1>4 DEF IInv

\* A report, and a step of another part, change nothing the invariant is about.
LEMMA StutterKeeps ==
  ASSUME IInv, UNCHANGED <<totals, provider_metrics_, provider_latencies_, measured>>
  PROVE  IInv'
<1>1. TypeOK'
  BY DEF IInv, TypeOK, MetricsOK
<1>2. SumsInv'
  <2>1. \A field \in Counts : SumOver(field)' = SumOver(field) /\ Column(field)' = Column(field)
    BY DEF SumOver, Column
  <2> QED
    BY <2>1 DEF IInv, SumsInv, Counts
<1>3. LatencyWindow'
  BY DEF IInv, LatencyWindow, Known
<1> QED
  BY <1>1, <1>2, <1>3 DEF IInv

LEMMA NextKeeps == IInv /\ [Next]_vars => IInv'
<1> SUFFICES ASSUME IInv, [Next]_vars PROVE IInv'
  OBVIOUS
<1>1. ASSUME NEW p \in ProviderNames, recordEmailSent(p) PROVE IInv'
  BY <1>1, SentKeeps
<1>2. ASSUME NEW p \in ProviderNames, recordEmailDelivered(p) PROVE IInv'
  BY <1>2, DeliveredKeeps
<1>3. ASSUME NEW p \in ProviderNames, recordEmailFailed(p) PROVE IInv'
  BY <1>3, FailedKeeps
<1>4. ASSUME NEW p \in ProviderNames, recordEmailBounced(p) PROVE IInv'
  BY <1>4, BouncedKeeps
<1>5. ASSUME NEW p \in ProviderNames, NEW latency \in Latencies, recordAPICall(p, latency) PROVE IInv'
  BY <1>5, CallKeeps
<1>6. CASE reset
  BY <1>6, ResetKeeps
<1>7. CASE Report
  BY <1>7, StutterKeeps DEF Report
<1>8. CASE UNCHANGED vars
  BY <1>8, StutterKeeps DEF vars
<1> QED
  BY <1>1, <1>2, <1>3, <1>4, <1>5, <1>6, <1>7, <1>8 DEF Next

LEMMA Invariance == Spec => []IInv
  BY InitOK, NextKeeps, PTL DEF Spec

\* The counts add up and the rates are those of the counts beside them,
\* whichever operations were called in whatever order, resets in between.
THEOREM MetricsTrue == Spec => []MetricsAgree
<1>1. IInv => MetricsAgree
  <2> SUFFICES ASSUME IInv PROVE MetricsAgree
    OBVIOUS
  <2>1. \A p \in DOMAIN provider_metrics_ : MetricsOK(provider_metrics_[p])
    BY DEF IInv, TypeOK
  <2>2. \A field \in {"total_delivered", "total_failed", "total_bounced"} :
           SumOver(field) <= totals[field]
    BY DEF IInv, SumsInv
  <2>3. SumOver("total_sent") = totals.total_sent
    BY DEF IInv, SumsInv
  <2> QED
    BY <2>1, <2>2, <2>3 DEF MetricsAgree, MetricsOK
<1> QED
  BY <1>1, Invariance, PTL

\* Of every provider the latencies kept are the last Window measured since the
\* last reset, for every window, and the average shown is theirs.
THEOREM WindowHolds == Spec => []LatencyWindow
<1>1. IInv => LatencyWindow
  BY DEF IInv
<1> QED
  BY <1>1, Invariance, PTL

================================================================================
