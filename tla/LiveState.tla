----------------------------- MODULE LiveState -----------------------------
(***************************************************************************)
(* What the event loop writes while the platform runs, and threads, files  *)
(* and tables show of it: the audit table, the raw message file, the       *)
(* positions and the cash, and the order flow.  No step writes to two of   *)
(* them, so one is looked at in a behaviour, and the others rest.          *)
(***************************************************************************)
EXTENDS AuditChain, RawChain, Portfolio, Microstructure

VARIABLE part   \* the one that is looked at

vars == <<part, auditVars, rawVars, portfolioVars, flowVars>>

Parts == {"audit table", "raw file", "portfolio", "order flow"}

TypeOK ==
  part \in Parts /\ AuditTypeOK /\ RawTypeOK /\ PortfolioTypeOK /\ FlowTypeOK

Init == part \in Parts /\ AuditInit /\ RawInit /\ PortfolioInit /\ FlowInit

Next ==
  /\ UNCHANGED part
  /\ \/ part = "audit table" /\ AuditNext /\ UNCHANGED <<rawVars, portfolioVars, flowVars>>
     \/ part = "raw file" /\ RawNext /\ UNCHANGED <<auditVars, portfolioVars, flowVars>>
     \/ part = "portfolio" /\ PortfolioNext /\ UNCHANGED <<auditVars, rawVars, flowVars>>
     \/ part = "order flow" /\ FlowNext /\ UNCHANGED <<auditVars, rawVars, portfolioVars>>

Spec == Init /\ [][Next]_vars
=============================================================================
