---------------------------- MODULE MCMarketFeed ----------------------------
(* Two starts, two stops and two messages, at a queue for one.             *)
EXTENDS MarketFeed

CONSTANTS s1, s2

MCStops == {s1, s2}
=============================================================================
