------------------------- MODULE MCArbitrageStrategy -------------------------
(* Prices 200/201 give a spread of exactly 0.5%, 201/202 one just below,   *)
(* 0 a ZeroDivisionError; the float comparisons of the code agree with the *)
(* exact ones on these prices.  More than 50 results pass the window trim. *)
EXTENDS ArbitrageStrategy

MCPrices == {0, 200, 201, 202}
MCResultKinds ==
    [successful: BOOLEAN, trade_type: {"arbitrage_leg1", "other"},
     second_leg_result: {"success", "failed"}]
=============================================================================
