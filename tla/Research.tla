------------------------------ MODULE Research ------------------------------
(***************************************************************************)
(* The research endpoints (apps/backend/main.py:384-452) and the lookahead *)
(* guard: a request runs one computation from its beginning to its end in  *)
(* one thread, and shares no state with other requests but the tables it   *)
(* adds rows to.                                                           *)
(***************************************************************************)
EXTENDS Backtest, WalkForward, MultipleTesting, LookaheadGuard

VARIABLES job   \* the computation of this request

Jobs == {"none", "backtest", "walk_forward", "multiple_testing", "guard"}

vars == <<bvars, wvars, family, gvars, job>>

Init == BInit /\ WInit /\ MInit /\ GuardInit /\ job = "none"

RunBacktest ==
  /\ job \in {"none", "backtest"} /\ job' = "backtest"
  /\ BNext /\ UNCHANGED <<wvars, family, gvars>>

RunWalkForward ==
  /\ job \in {"none", "walk_forward"} /\ job' = "walk_forward"
  /\ WNext /\ UNCHANGED <<bvars, family, gvars>>

RunAdjustment ==
  /\ job = "none" /\ job' = "multiple_testing"
  /\ Adjust /\ UNCHANGED <<bvars, wvars, gvars>>

RunGuard ==
  /\ job \in {"none", "guard"} /\ job' = "guard"
  /\ GuardNext /\ UNCHANGED <<bvars, wvars, family>>

Next == RunBacktest \/ RunWalkForward \/ RunAdjustment \/ RunGuard

\* A computation that was begun goes on: it waits for nothing.
Spec == Init /\ [][Next]_vars /\ WF_vars(RunWalkForward)

TypeOK == BTypeOK /\ WTypeOK /\ MTypeOK /\ GuardTypeOK /\ job \in Jobs
=============================================================================
