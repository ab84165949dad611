----------------------------- MODULE ModelMonitor -----------------------------
(***************************************************************************)
(* ml/monitoring/model_monitor.py: ModelMonitor and the performance check  *)
(* with its two metrics.  The functions hold no state; they are operators. *)
(* Labels are small integers and every mean is kept as a fraction n/d;     *)
(* for the inputs checked, numpy's float64 mean and the thresholds are     *)
(* these fractions exactly, so float comparisons and exact ones agree.     *)
(*                                                                         *)
(* numpy's elementwise operations on two 1-D arrays pair equal indices,    *)
(* repeat an array of length 1, and raise ValueError otherwise, except     *)
(* ==, which under numpy < 1.25 returns the scalar False instead.  The     *)
(* repository pins no numpy version, so an operation that depends on it    *)
(* yields the set of outcomes the builds can produce.                      *)
(***************************************************************************)
EXTENDS Integers, SequencesExt

CONSTANTS
    NaN,     \* np.mean of an empty array (with a RuntimeWarning)
    Raises,  \* the call raises ValueError
    None     \* Python's None

\* ModelMonitor.__init__: the three attributes it sets.
ModelMonitor(drift_threshold, performance_threshold, metric) ==
    [drift_threshold |-> drift_threshold,
     performance_threshold |-> performance_threshold, metric |-> metric]

\* x > y on fractions; any comparison with nan is False.
Greater(x, y) == x # NaN /\ y # NaN /\ x[1] * y[2] > y[1] * x[2]

\* np.mean: the sum over the length, nan for an empty array.
np_mean(s) == IF s = <<>> THEN NaN ELSE <<FoldSeq(+, 0, s), Len(s)>>

\* Whether two 1-D arrays broadcast, and the index pairs numpy combines.
Broadcastable(x, y) == Len(x) = Len(y) \/ Len(x) = 1 \/ Len(y) = 1
Broadcast(x, y) ==
    LET n == IF Len(x) = 1 THEN Len(y) ELSE Len(x) IN
      [i \in 1..n |-> <<x[IF Len(x) = 1 THEN 1 ELSE i], y[IF Len(y) = 1 THEN 1 ELSE i]>>]

\* np.mean((np.array(y_true) - np.array(y_pred)) ** 2)
mean_squared_error(y_true, y_pred) ==
    IF ~Broadcastable(y_true, y_pred) THEN {Raises}
    ELSE LET b == Broadcast(y_true, y_pred) IN
           {np_mean([i \in DOMAIN b |-> (b[i][1] - b[i][2]) * (b[i][1] - b[i][2])])}

\* np.mean(y_true == y_pred); an == that cannot broadcast raises, or is the
\* scalar False, whose mean is 0.0.
accuracy(y_true, y_pred) ==
    IF ~Broadcastable(y_true, y_pred) THEN {Raises, <<0, 1>>}
    ELSE LET b == Broadcast(y_true, y_pred) IN
           {np_mean([i \in DOMAIN b |-> IF b[i][1] = b[i][2] THEN 1 ELSE 0])}

\* The metric of check_performance; an unsupported one raises ValueError.
Performance(m, y_true, y_pred) ==
    CASE m.metric = "mse"      -> mean_squared_error(y_true, y_pred)
      [] m.metric = "accuracy" -> accuracy(y_true, y_pred)
      [] OTHER                 -> {Raises}

\* A faulty verdict, for mutation: a metric equal to the threshold counts.
DegradedAtOrPast(m, perf) ==
    /\ m.performance_threshold # None
    /\ \/ m.metric = "mse" /\ ~Greater(m.performance_threshold, perf) /\ perf # NaN
       \/ m.metric = "accuracy" /\ ~Greater(perf, m.performance_threshold) /\ perf # NaN

\* performance_threshold is not None and (mse > threshold or accuracy < threshold)
Degraded(m, perf) ==
    /\ m.performance_threshold # None
    /\ \/ m.metric = "mse" /\ Greater(perf, m.performance_threshold)
       \/ m.metric = "accuracy" /\ Greater(m.performance_threshold, perf)

\* ModelMonitor.check_performance(y_true, y_pred): the possible outcomes,
\* TRUE, FALSE or ValueError.
check_performance(m, y_true, y_pred) ==
    {IF perf = Raises THEN Raises ELSE Degraded(m, perf) : perf \in Performance(m, y_true, y_pred)}

(***************************************************************************)
(* The reference: what the check is for.  Over the pairs (y_true[i],       *)
(* y_pred[i]) of a batch, a mean squared error above the threshold, or a  *)
(* share of correct predictions below it, is a degradation; no threshold, *)
(* no degradation.                                                         *)
(***************************************************************************)
ReferenceMetric(metric, y_true, y_pred) ==
    LET I == DOMAIN y_true IN
    IF metric = "mse"
      THEN <<FoldFunctionOnSet(+, 0, [i \in I |-> (y_true[i] - y_pred[i])^2], I), Len(y_true)>>
      ELSE <<Cardinality({i \in I : y_true[i] = y_pred[i]}), Len(y_true)>>

ReferenceDegraded(m, y_true, y_pred) ==
    LET v == ReferenceMetric(m.metric, y_true, y_pred)  t == m.performance_threshold IN
      /\ t # None
      /\ IF m.metric = "mse" THEN v[1] * t[2] > t[1] * v[2] ELSE t[1] * v[2] > v[1] * t[2]
=============================================================================
