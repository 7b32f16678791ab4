--------------------------- MODULE OrderLifecycle ---------------------------
(***************************************************************************)
(* The promise core/execution/order_state_machine.py makes about a paper   *)
(* order: its status moves only along LEGAL_TRANSITIONS, one edge at a     *)
(* time, whoever asks for the move.  PaperExecution implements this        *)
(* specification.                                                          *)
(***************************************************************************)
CONSTANT Orders     \* identities of OrderRecord objects

VARIABLE status     \* status[o]: OrderRecord.status, or "ABSENT" before it is built

OrderStatus ==
  {"CREATED", "VALIDATING", "SAFETY_CHECK", "SUBMITTING", "SUBMISSION_UNCONFIRMED",
   "ACKNOWLEDGED", "PARTIALLY_FILLED", "FILLED", "CANCEL_PENDING", "CANCELLED",
   "REJECTED", "EXPIRED", "ERROR"}

LegalTransitions ==
  [s \in OrderStatus |->
     CASE s = "CREATED"      -> {"VALIDATING", "REJECTED", "ERROR"}
       [] s = "VALIDATING"   -> {"SAFETY_CHECK", "REJECTED", "ERROR"}
       [] s = "SAFETY_CHECK" -> {"SUBMITTING", "REJECTED", "ERROR"}
       [] s = "SUBMITTING"   -> {"ACKNOWLEDGED", "SUBMISSION_UNCONFIRMED", "REJECTED", "ERROR"}
       [] s = "SUBMISSION_UNCONFIRMED" -> {"ACKNOWLEDGED", "CANCELLED", "REJECTED", "ERROR"}
       [] s = "ACKNOWLEDGED" -> {"PARTIALLY_FILLED", "FILLED", "CANCEL_PENDING", "CANCELLED",
                                 "EXPIRED", "ERROR"}
       [] s = "PARTIALLY_FILLED" -> {"PARTIALLY_FILLED", "FILLED", "CANCEL_PENDING",
                                     "CANCELLED", "ERROR"}
       [] s = "CANCEL_PENDING" -> {"CANCELLED", "FILLED", "PARTIALLY_FILLED", "ERROR"}
       [] OTHER              -> {}]

Init == status = [o \in Orders |-> "ABSENT"]

(* The record is built with status CREATED. *)
Create(o) ==
  /\ status[o] = "ABSENT"
  /\ status' = [status EXCEPT ![o] = "CREATED"]

(* OrderStateMachine.transition: a target outside the allowed set raises   *)
(* and leaves the record as it was, so only legal moves are steps.         *)
Transition(o, target) ==
  /\ status[o] \in OrderStatus
  /\ target \in LegalTransitions[status[o]]
  /\ status' = [status EXCEPT ![o] = target]

Next == \E o \in Orders : Create(o) \/ \E t \in OrderStatus : Transition(o, t)

Spec == Init /\ [][Next]_status
=============================================================================
