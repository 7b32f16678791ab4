-------------------------- MODULE MCReconciliation --------------------------
(* Two calls about one or two venues and one unregistered name; the venues *)
(* list an asset that the ledger keeps and one that it does not.           *)
EXTENDS Reconciliation

CONSTANTS c1, c2, coinbase, alpaca, kraken, usd, equity

MCCalls == {c1, c2}
MCVenues == {coinbase}
MCTwoVenues == {coinbase, alpaca}
MCStrangers == {kraken}
MCAssets == {usd, equity}
MCKept == {usd}
=============================================================================
