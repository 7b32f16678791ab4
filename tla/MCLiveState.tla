---------------------------- MODULE MCLiveState ----------------------------
(* Audit: five numbers, so that a row can be lost, deleted and followed by *)
(* others.  Raw file: three messages and two accidents.  Portfolio: two    *)
(* symbols; prices are multiples of 720, so that the averages of three     *)
(* fills of one or two are whole.  Order flow: four prices, so that a      *)
(* value area grows both ways.                                             *)
EXTENDS LiveState

CONSTANTS e1, e2, m1, m2, btc, eth, r1, a1

MCEvents == {e1, e2}
MCMessages == {m1, m2}
Symmetry == Permutations(MCEvents) \cup Permutations(MCMessages)

MCSymbols == {btc, eth}
MCReaders == {r1}
MCMarks == {900}
MCFills ==
  [symbol : {btc}, buy : BOOLEAN, quantity : {1, 2}, price : {720, 1440}, fee : {1}]
    \cup [symbol : {eth}, buy : BOOLEAN, quantity : {1}, price : {720}, fee : {0}]

MCGrain == <<720, 60, 1>>

MCAskers == {a1}
MCPrices == 1..4
MCTrades ==
  [price : MCPrices, buy : {TRUE}, quantity : {2}]
    \cup [price : {2, 3}, buy : {FALSE}, quantity : {1}]
=============================================================================
