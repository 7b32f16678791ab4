----------------------------- MODULE MCPlatform -----------------------------
(* Two threads, so that any two calls meet; three calls, so that a third    *)
(* finds what the two left.                                                 *)
EXTENDS Platform

CONSTANTS t1, t2, cvd, poc

MCThreads == {t1, t2}
MCBuiltins == <<cvd, poc>>
MCExchanges == {Coinbase, Alpaca}
MCReportFiles == <<"certification.json", "markdown reports">>
Symmetry == Permutations(MCThreads)
=============================================================================
