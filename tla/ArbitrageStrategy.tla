-------------------------- MODULE ArbitrageStrategy --------------------------
(***************************************************************************)
(* The strategies of noderr_python/strategy/arbitrage.py.                  *)
(*                                                                         *)
(* SimpleArbitrageStrategy keeps counters in self.state and a window of    *)
(* execution times.  analyze is a coroutine without an await, and          *)
(* on_execution_result is synchronous, so each call is one atomic step;    *)
(* the executor (not in the repository) may call them in any order.        *)
(* Prices are integers whose float spread equals the exact one (checked    *)
(* for the price set of the MC module); the spread is kept as a fraction.  *)
(* A result's latency_ms is the ordinal of the result: what the window     *)
(* property tells apart is which results' latencies are kept.              *)
(* TriangularArbitrageStrategy.analyze returns None.                       *)
(***************************************************************************)
EXTENDS Integers, Sequences, FiniteSets

CONSTANTS
    Prices,          \* prices an exchange may quote
    MinSpreadNum, MinSpreadDen,  \* min_spread_pct as a fraction
    ResultKinds,     \* what an ExecutionResult may report (records)
    MaxSignals,      \* bound on the signals analyze emits
    MaxResults,      \* bound on the results the executor reports
    Missing          \* no "price" for an exchange in market_data.metadata

\* len(self.state["execution_times"]) is capped at 50 (line 168).
WindowSize == 50

VARIABLES
    trades_count, successful_arbs, opportunities_found, opportunities_executed,
    last_spread,      \* <<numerator, denominator>> of spread_pct
    execution_times,  \* the window: latency_ms of the results kept
    signals,          \* every buy Signal analyze returned, in order
    results,          \* how many results on_execution_result was given
    outcome           \* what the last analyze call did
vars == <<trades_count, successful_arbs, opportunities_found, opportunities_executed,
          last_spread, execution_times, signals, results, outcome>>
counters == <<trades_count, successful_arbs, opportunities_found, opportunities_executed>>

Exchanges == {"exchange1", "exchange2"}
MarketData == [Exchanges -> Prices \cup {Missing}]

AbsDiff(a, b) == IF a > b THEN a - b ELSE b - a
MinOf(a, b)   == IF a < b THEN a ELSE b

\* spread_pct = abs(price1 - price2) / min(price1, price2) * 100
Spread(p1, p2) == <<AbsDiff(p1, p2) * 100, MinOf(p1, p2)>>
\* spread_pct >= self.parameters["min_spread_pct"]
MeetsMinSpread(s) == s[1] * MinSpreadDen >= MinSpreadNum * s[2]

\* self.state = {...} in SimpleArbitrageStrategy.__init__
Init ==
    /\ trades_count = 0 /\ successful_arbs = 0
    /\ opportunities_found = 0 /\ opportunities_executed = 0
    /\ last_spread = <<0, 1>>
    /\ execution_times = <<>>
    /\ signals = <<>>
    /\ results = 0
    /\ outcome = "none"

\* A faulty buy Signal, for mutation: the comparison reversed.
BuySignalReversed(p1, p2, s) ==
    [exchange |-> IF p1 > p2 THEN "exchange1" ELSE "exchange2",
     planned_sell_exchange |-> IF p1 > p2 THEN "exchange2" ELSE "exchange1",
     pair_trade_id |-> trades_count, spread |-> s, prices |-> <<p1, p2>>]

\* The buy Signal of an opportunity: buy where the price is lower.
BuySignal(p1, p2, s) ==
    [exchange |-> IF p1 < p2 THEN "exchange1" ELSE "exchange2",
     planned_sell_exchange |-> IF p1 < p2 THEN "exchange2" ELSE "exchange1",
     pair_trade_id |-> trades_count, spread |-> s, prices |-> <<p1, p2>>]

\* analyze returns None: a price is missing, or the spread is too small.
NoSignal ==
    /\ outcome' = "None"
    /\ UNCHANGED <<counters, last_spread, signals>>

\* A faulty raise, for mutation: the trade counted before the division.
RaiseAfterCount ==
    /\ trades_count' = trades_count + 1
    /\ outcome' = "ZeroDivisionError"
    /\ UNCHANGED <<successful_arbs, opportunities_found, opportunities_executed,
                   last_spread, signals>>

\* min(price1, price2) = 0: the division raises before any assignment.
Raise ==
    /\ outcome' = "ZeroDivisionError"
    /\ UNCHANGED <<counters, last_spread, signals>>

\* A faulty evaluation, for mutation: every spread counts as an opportunity.
EvaluateCountsAll(p1, p2) ==
    LET s == Spread(p1, p2) IN
    /\ last_spread' = s
    /\ opportunities_found' = opportunities_found + 1
    /\ IF MeetsMinSpread(s)
         THEN /\ signals' = Append(signals, BuySignal(p1, p2, s))
              /\ trades_count' = trades_count + 1
              /\ opportunities_executed' = opportunities_executed + 1
              /\ outcome' = "Signal"
         ELSE /\ outcome' = "None"
              /\ UNCHANGED <<trades_count, opportunities_executed, signals>>
    /\ UNCHANGED successful_arbs

\* The spread is recorded; at least min_spread_pct yields a buy Signal
\* with pair_trade_id arb_<trades_count>, then both counters advance.
Evaluate(p1, p2) ==
    LET s == Spread(p1, p2) IN
    /\ last_spread' = s
    /\ IF MeetsMinSpread(s)
         THEN /\ opportunities_found' = opportunities_found + 1
              /\ signals' = Append(signals, BuySignal(p1, p2, s))
              /\ trades_count' = trades_count + 1
              /\ opportunities_executed' = opportunities_executed + 1
              /\ outcome' = "Signal"
         ELSE /\ outcome' = "None"
              /\ UNCHANGED <<trades_count, opportunities_found, opportunities_executed, signals>>
    /\ UNCHANGED successful_arbs

\* SimpleArbitrageStrategy.analyze(market_data).
analyze(md) ==
    LET p1 == md["exchange1"]  p2 == md["exchange2"] IN
    CASE p1 = Missing \/ p2 = Missing -> NoSignal
      [] MinOf(p1, p2) = 0           -> Raise
      [] OTHER                       -> Evaluate(p1, p2)

Analyze ==
    /\ Len(signals) < MaxSignals
    /\ \E md \in MarketData : analyze(md)
    /\ UNCHANGED <<execution_times, results>>

\* A faulty window, for mutation: it keeps the last 49 times.
KeepLatest49(times) == IF Len(times) > WindowSize THEN SubSeq(times, Len(times) - 48, Len(times)) ELSE times

\* append(result.latency_ms); if len(...) > 50: keep the last 50
KeepLatest(times) ==
    IF Len(times) > WindowSize THEN SubSeq(times, Len(times) - WindowSize + 1, Len(times)) ELSE times

\* The first leg of an arbitrage pair succeeded and reports the second.
CompletedArb(res) ==
    res.successful /\ res.trade_type = "arbitrage_leg1" /\ res.second_leg_result = "success"

\* SimpleArbitrageStrategy.on_execution_result(result).  The base class's
\* on_execution_result (BaseStrategy, not in the repository) is taken to
\* leave self.state alone.  total_profit is not modelled.
OnExecutionResult ==
    /\ results < MaxResults
    /\ \E res \in ResultKinds :
         /\ execution_times' = KeepLatest(Append(execution_times, results + 1))
         /\ successful_arbs' = IF CompletedArb(res) THEN successful_arbs + 1 ELSE successful_arbs
    /\ results' = results + 1
    /\ UNCHANGED <<trades_count, opportunities_found, opportunities_executed,
                   last_spread, signals, outcome>>

\* TriangularArbitrageStrategy.analyze: a placeholder that returns None.
TriangularAnalyze ==
    /\ outcome' = "None"
    /\ UNCHANGED <<counters, last_spread, execution_times, signals, results>>

Next == Analyze \/ OnExecutionResult \/ TriangularAnalyze

Spec == Init /\ [][Next]_vars

(***************************************************************************)
(* Properties                                                              *)
(***************************************************************************)
TypeOK ==
    /\ {trades_count, opportunities_found, opportunities_executed} \subseteq 0..MaxSignals
    /\ successful_arbs \in 0..MaxResults
    /\ execution_times \in Seq(1..MaxResults)
    /\ last_spread \in Nat \X Nat
    /\ results \in 0..MaxResults
    /\ outcome \in {"none", "None", "Signal", "ZeroDivisionError"}

(* The execution_times window is always the latencies of the latest        *)
(* min(n, 50) results, oldest first, after any number n of results: the  *)
(* trim in on_execution_result neither lets the list grow nor drops one   *)
(* too many at the boundary (entropy_score reads it).                      *)
ExecutionTimesAreLatest ==
    LET k == IF results < WindowSize THEN results ELSE WindowSize IN
      execution_times = [i \in 1..k |-> results - k + i]

(* Whatever mix of missing, zero and valid prices analyze was called with, *)
(* the Signals it returned carry pair_trade_ids arb_0, arb_1, ... in order *)
(* with no gap or repeat, and trades_count and opportunities_executed      *)
(* count exactly those Signals: a call that raises ZeroDivisionError       *)
(* leaves no trace.                                                        *)
PairTradeIdsConsecutive ==
    /\ \A k \in 1..Len(signals) : signals[k].pair_trade_id = k - 1
    /\ trades_count = Len(signals)
    /\ opportunities_executed = Len(signals)

(* Every Signal buys on the exchange quoting the lower price, plans to     *)
(* sell on the other, and was returned only for a spread of at least       *)
(* min_spread_pct (the boundary case spread = min_spread_pct included).   *)
SignalsBuyLow ==
    \A k \in 1..Len(signals) :
       LET g == signals[k]  p == g.prices IN
         /\ g.exchange # g.planned_sell_exchange
         /\ p[IF g.exchange = "exchange1" THEN 1 ELSE 2] < p[IF g.exchange = "exchange1" THEN 2 ELSE 1]
         /\ MeetsMinSpread(g.spread)
=============================================================================
