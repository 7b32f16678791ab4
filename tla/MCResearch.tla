----------------------------- MODULE MCResearch -----------------------------
(* Walk-forward requests of every small shape, the ones with an empty      *)
(* window or a negative length included, and frames around the bars that   *)
(* the guard samples (25 26 27 29 30 32 33 35 36 38 of 43) and the bar it  *)
(* perturbs after (30).                                                    *)
EXTENDS Research

MCWalkRequests ==
  [methodology : {"ROLLING", "EXPANDING"}, train : -1 .. 3, purge : -1 .. 2,
   test : -2 .. 3, embargo : {0, 1}, step : -1 .. 4]
MCAlphas == {2, 4}

EventBars == {14, 25, 27, 28, 29, 30, 31, 33, 42}
FewBars == { S \in SUBSET EventBars : Cardinality(S) <= 3 }

Outline(length, up, down, loud) ==
  [length |-> length, up |-> up, down |-> down, loud |-> loud]

MCOutlines ==
  UNION { { Outline(43, up, S \ up, loud) : up \in SUBSET S, loud \in {{}, S} } :
            S \in FewBars }
  \cup { Outline(length, {t}, {}, {t + 2}) : length \in {39, 40, 41}, t \in 28 .. 32 }
=============================================================================
