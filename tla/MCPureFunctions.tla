--------------------------- MODULE MCPureFunctions ---------------------------
(***************************************************************************)
(* The repository's pure functions, each checked against its reference    *)
(* over every bounded input.  A behaviour is one call: of deep_update, on   *)
(* every pair of documents with two keys, two scalars and one level of     *)
(* nesting (these include the two worked examples of spec section 8, with  *)
(* keys and values renamed), or of ModelMonitor.check_performance, on      *)
(* every batch of at most three 0/1 labels and predictions, each metric   *)
(* and each threshold.                                                     *)
(***************************************************************************)
EXTENDS ConfigDoc, ModelMonitor

VARIABLES config, patch, perfCall
vars == <<config, patch, perfCall>>

DocKeys == {"a", "b"}
Scalars == {Scalar(1), Scalar(2)}

\* All field maps over DocKeys with values in V.
FieldsOver(V) == UNION { [K -> V] : K \in SUBSET DocKeys }

\* Values nested at most one document deep.
Values1 == Scalars \cup { Doc(f) : f \in FieldsOver(Scalars) }
TopDocs == FieldsOver(Values1)

\* Batches of 0/1 labels; thresholds 1/3, 1/2 and 1 are exact as floats
\* and equal to the means of some batches; "mae" is unsupported.
Batches == UNION { [1..n -> {0, 1}] : n \in 0..3 }
PerfCalls ==
    [monitor: {ModelMonitor(<<1, 5>>, t, m) : t \in {None, <<1, 3>>, <<1, 2>>, <<1, 1>>},
                                           m \in {"mse", "accuracy", "mae"}},
     y_true: Batches, y_pred: Batches]
NoPerfCall == [monitor |-> None]

Init ==
    \/ config \in TopDocs /\ patch \in TopDocs /\ perfCall = NoPerfCall
    \/ config = NoFields /\ patch = NoFields /\ perfCall \in PerfCalls

\* The inputs are fixed; a behaviour is one call.
Next == UNCHANGED vars

Spec == Init /\ [][Next]_vars

(* The result of deep_update(config, patch) in inject_config is the        *)
(* path-wise merge the spec describes: sibling keys of a nested document   *)
(* survive, and a non-document on either side is replaced wholesale.       *)
DeepUpdateMatchesReference ==
    deep_update(config, patch) = ReferenceMerge(config, patch)

(* On a non-empty batch of predictions paired one to one with the labels,  *)
(* ModelMonitor.check_performance reports a degradation exactly when the   *)
(* mean squared error is above the threshold or the accuracy below it, and *)
(* never when no threshold is set, whichever numpy builds it; an           *)
(* unsupported metric raises ValueError.  Thresholds equal to a batch's    *)
(* metric are included.                                                    *)
CheckPerformanceMatchesReference ==
    perfCall # NoPerfCall =>
      LET m == perfCall.monitor  yt == perfCall.y_true  yp == perfCall.y_pred IN
        /\ m.metric \notin {"mse", "accuracy"} => check_performance(m, yt, yp) = {Raises}
        /\ (m.metric \in {"mse", "accuracy"} /\ Len(yt) = Len(yp) /\ yt # <<>>)
              => check_performance(m, yt, yp) = {ReferenceDegraded(m, yt, yp)}
=============================================================================
