-------------------------- MODULE MCPaperExecution --------------------------
(* Small instances of PaperExecution.                                      *)
EXTENDS PaperExecution, TLC

CONSTANTS o1, o2, btc, eth

(* A request with a fresh ticker at 1. *)
Req(t, side, s, q, p, v) ==
  [type |-> t, side |-> side, symbol |-> s, qty |-> q, price |-> p, ticker |-> 1,
   stale |-> FALSE, venue |-> v]

(* Fills of both symbols through the mock, at, above and below the market  *)
(* and the estimate, a sale and a price that is no price; an order for     *)
(* each sandbox; and one request for each check that turns requests down:  *)
(* no price to estimate with, a LIMIT without price, no quantity, an       *)
(* unknown venue, a stale ticker, too large an order.                      *)
MCRequests ==
  {Req("LIMIT", "BUY", btc, 2, 1, "mock"),
   Req("MARKET", "BUY", eth, 1, None, "mock"),
   Req("MARKET", "SELL", btc, 1, 2, "mock"),
   Req("MARKET", "BUY", eth, 1, -1, "mock"),
   Req("STOP_LOSS", "SELL", btc, 1, None, "coinbase"),
   Req("LIMIT", "BUY", btc, 2, 1, "alpaca"),
   [Req("MARKET", "BUY", btc, 1, None, "coinbase") EXCEPT !.ticker = None],
   Req("LIMIT", "BUY", btc, 1, None, "coinbase"),
   Req("MARKET", "BUY", btc, 0, None, "mock"),
   Req("MARKET", "BUY", btc, 1, None, "unknown"),
   [Req("MARKET", "BUY", btc, 1, None, "coinbase") EXCEPT !.stale = TRUE],
   Req("LIMIT", "SELL", btc, 3, 1, "mock")}

(* The requests that can reach the sandbox. *)
MCLiveRequests ==
  {Req("MARKET", "BUY", btc, 2, None, "coinbase"),
   Req("MARKET", "SELL", btc, 1, None, "coinbase")}

(* Those, an order of each other adapter and one that none takes. *)
MCMixedRequests ==
  MCLiveRequests \cup
  {Req("LIMIT", "BUY", btc, 1, 1, "mock"), Req("LIMIT", "BUY", btc, 1, 1, "coinbase"),
   Req("MARKET", "BUY", btc, 1, None, "unknown")}

MCOrders == {o1, o2}
MCSymbols == {btc, eth}
Symmetry == Permutations(MCOrders)
=============================================================================
