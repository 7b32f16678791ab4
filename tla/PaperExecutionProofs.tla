------------------------ MODULE PaperExecutionProofs ------------------------
(***************************************************************************)
(* Proofs about PaperExecution, for any set of orders, any requests and    *)
(* any limits.                                                             *)
(***************************************************************************)
EXTENDS PaperExecution, SumTheorems

USE RequestsAssumption

(* The value a submission's record starts from, and the constants the      *)
(* actions write, are records of the declared type.                        *)
LEMMA RecordTypes ==
  NoRecord \in Record /\ CreatedRow \in Record /\ SentRow \in Record
BY DEF NoRecord, CreatedRow, SentRow, Record, Status, Lifecycle!OrderStatus

(* A process that starts with empty tables starts with typed ones. *)
LEMMA InitType == Init => TypeOK
<1> SUFFICES ASSUME Init PROVE TypeOK
  OBVIOUS
<1>1. /\ loop \in Orders \cup {NoTask}
      /\ task \in [Orders -> {"none", "running", "returned", "raised", "crashed"}]
      /\ pc \in [Orders -> PC]
  BY DEF Init, PC
<1>2. req \in [Orders -> Requests \cup {NoTask}]
  BY DEF Init
<1>3. mem \in [Orders -> Record] /\ row \in [Orders -> Record]
  BY RecordTypes DEF Init
<1>4. fills \in [Orders -> 0..MaxQty] /\ vfill \in [Orders -> 0..MaxQty]
  BY DEF Init
<1>5. position \in [Symbols -> Int] /\ mark \in [Symbols -> Nat] /\ cash \in Int
  BY DEF Init
<1>6. venue \in [Orders -> {"none", "sent", "booked", "refused"}]
  BY DEF Init
<1> QED
  BY <1>1, <1>2, <1>3, <1>4, <1>5, <1>6 DEF Init, TypeOK

(* What the constants say of a request. *)
LEMMA RequestFields ==
  ASSUME NEW r \in Requests
  PROVE  /\ r.symbol \in Symbols /\ r.qty \in 0..MaxQty /\ r.side \in {"BUY", "SELL"}
         /\ FillPrice(r) \in Int
         /\ Estimate(r) # None => Estimate(r) \in Int /\ Notional(r) \in Int
<1>1. r.qty \in Int /\ r.price \in Int \cup {None} /\ r.ticker \in Int \cup {None}
  BY DEF Request
<1>2. FillPrice(r) \in Int /\ (Estimate(r) # None => Estimate(r) \in Int)
  BY <1>1 DEF FillPrice, Estimate
<1>3. \A i, j \in Int : i * j \in Int
  OBVIOUS
<1> QED
  BY <1>1, <1>2, <1>3 DEF Request, Notional

-----------------------------------------------------------------------------
(* Type correctness.                                                       *)

(* Changing one field of one record keeps the table of records typed.      *)
LEMMA RecordUpdates ==
  ASSUME NEW f \in [Orders -> Record], NEW o \in Orders
  PROVE  /\ \A s \in Status : [f EXCEPT ![o].status = s] \in [Orders -> Record]
         /\ \A g \in BOOLEAN : [f EXCEPT ![o].gate = g] \in [Orders -> Record]
         /\ \A s \in Status, e \in BOOLEAN :
              [f EXCEPT ![o].status = s, ![o].exch = e] \in [Orders -> Record]
         /\ \A s \in Status, q \in 0..MaxQty :
              [f EXCEPT ![o].status = s, ![o].filled = q] \in [Orders -> Record]
BY DEF Record

(* The statuses the actions name are statuses of the state machine. *)
LEMMA Statuses ==
  {"ABSENT", "CREATED", "VALIDATING", "SAFETY_CHECK", "SUBMITTING", "SUBMISSION_UNCONFIRMED",
   "ACKNOWLEDGED", "FILLED", "REJECTED", "ERROR"} \subseteq Status
BY DEF Status, Lifecycle!OrderStatus

(* A transition, legal or refused, leaves a record. *)
LEMMA SetStatusType ==
  ASSUME TypeOK, NEW o \in Orders, NEW s \in Status, SetStatus(o, s)
  PROVE  mem' \in [Orders -> Record]
BY RecordUpdates DEF TypeOK, SetStatus

(* The invariant of one submission. *)
OrderInv(o) == RecordAt(o) /\ RowAt(o) /\ VenueAt(o) /\ LoopAt(o)

(* What a fill costs is a number, and its price is positive. *)
LEMMA CostType ==
  ASSUME TypeOK, NEW o \in Orders, req[o] \in Requests
  PROVE  Cost(o) \in Int
<1>1. fills[o] \in Int /\ FillPrice(req[o]) \in Int
  BY RequestFields DEF TypeOK
<1>2. Signed(o, fills[o]) \in Int
  BY <1>1 DEF Signed
<1>3. \A i, j \in Int : i * j \in Int
  OBVIOUS
<1>4. Signed(o, fills[o]) * FillPrice(req[o]) \in Int
  BY <1>1, <1>2, <1>3
<1> QED
  BY <1>4 DEF Cost

(* Every step keeps the types. *)
LEMMA NextType == TypeOK /\ (\A o \in Orders : OrderInv(o)) /\ [Next]_vars => TypeOK'
<1> SUFFICES ASSUME TypeOK, \A o \in Orders : OrderInv(o), [Next]_vars PROVE TypeOK'
  OBVIOUS
<1>0. \A o \in Orders : task[o] = "running" => req[o] \in Requests
  BY DEF OrderInv, LoopAt
<1>00. \A o \in Orders : pc[o] = "apply_position" => FillPrice(req[o]) > 0
  BY DEF OrderInv, VenueAt
<1> USE DEF TypeOK, PC, engineVars, dbVars, venueVars, flagVars
<1>1. ASSUME NEW o \in Orders, NEW r \in Requests, Submit(o, r) PROVE TypeOK'
  <2>1. mem' \in [Orders -> Record]
    BY <1>1, SetStatusType, RecordUpdates, Statuses DEF Submit
  <2>2. row' \in [Orders -> Record]
    BY <1>1, <2>1 DEF Submit
  <2> QED
    BY <1>1, <2>1, <2>2 DEF Submit
<1>2. ASSUME NEW o \in Orders, Validate(o) PROVE TypeOK'
  <2>1. mem' \in [Orders -> Record]
    BY <1>2, SetStatusType, RecordUpdates, Statuses DEF Validate
  <2> QED
    BY <1>2, <2>1 DEF Validate, Goto
<1>3. ASSUME NEW o \in Orders, CheckRequest(o) PROVE TypeOK'
  <2>1. mem' \in [Orders -> Record]
    BY <1>3, SetStatusType, RecordUpdates, Statuses DEF CheckRequest
  <2> QED
    BY <1>3, <2>1 DEF CheckRequest, Goto
<1>4. ASSUME NEW o \in Orders, EvaluateGate(o) PROVE TypeOK'
  <2>1. mem' \in [Orders -> Record]
    <3>1. CASE SetStatus(o, "REJECTED")
      BY <3>1, SetStatusType, Statuses
    <3>2. CASE mem' = [mem EXCEPT ![o].gate = TRUE]
      BY <3>2, RecordUpdates
    <3> QED
      BY <1>4, <3>1, <3>2 DEF EvaluateGate
  <2> QED
    BY <1>4, <2>1 DEF EvaluateGate, Goto
<1>5. ASSUME NEW o \in Orders, EvaluateRisk(o) PROVE TypeOK'
  <2>1. mem' \in [Orders -> Record]
    BY <1>5, SetStatusType, RecordUpdates, Statuses DEF EvaluateRisk
  <2> QED
    BY <1>5, <2>1 DEF EvaluateRisk, Goto, Leave
<1>6. ASSUME NEW o \in Orders, PersistSubmitting(o) PROVE TypeOK'
  BY <1>6 DEF PersistSubmitting, UpdateRow, Goto, Leave
<1>7. ASSUME NEW o \in Orders, Dispatch(o) PROVE TypeOK'
  <2>1. mem' \in [Orders -> Record]
    BY <1>7, SetStatusType, RecordUpdates, Statuses DEF Dispatch
  <2> QED
    BY <1>7, <2>1 DEF Dispatch, Goto
<1>71. ASSUME NEW o \in Orders, DispatchMock(o) PROVE TypeOK'
  <2>1. mem' \in [Orders -> Record]
    <3>1. "ACKNOWLEDGED" \in Status
      BY Statuses
    <3> QED
      BY <1>71, <3>1, RecordUpdates DEF DispatchMock
  <2>2. vfill' \in [Orders -> 0..MaxQty]
    <3>1. req[o].qty \in 0..MaxQty
      BY <1>71, <1>0, RequestFields DEF DispatchMock, Holds, Running
    <3> QED
      BY <1>71, <3>1 DEF DispatchMock
  <2> QED
    BY <1>71, <2>1, <2>2 DEF DispatchMock, Goto
<1>8. ASSUME NEW o \in Orders, Acknowledge(o) \/ Refuse(o) PROVE TypeOK'
  <2>1. ASSUME NEW s \in Status, Resume(o, s), cooling' \in BOOLEAN
        PROVE  TypeOK'
    <3>1. mem' \in [Orders -> Record]
      BY <2>1, RecordUpdates DEF Resume
    <3> QED
      BY <2>1, <3>1 DEF Resume
  <2> QED
    BY <1>8, <2>1, Statuses DEF Acknowledge, Refuse
<1>9. ASSUME NEW o \in Orders, InsertFill(o) PROVE TypeOK'
  <2>1. mem' \in [Orders -> Record]
    <3>1. CASE SetStatus(o, "ERROR")
      BY <3>1, SetStatusType, Statuses
    <3>2. CASE mem' = [mem EXCEPT ![o].status = "FILLED", ![o].filled = vfill[o]]
      <4>1. vfill[o] \in 0..MaxQty /\ "FILLED" \in Status
        BY Statuses
      <4> QED
        BY <3>2, <4>1, RecordUpdates
    <3> QED
      BY <1>9, <3>1, <3>2 DEF InsertFill
  <2> QED
    BY <1>9, <2>1 DEF InsertFill, Goto
<1>10. ASSUME NEW o \in Orders, ApplyPosition(o) PROVE TypeOK'
  <2>1. CASE UNCHANGED <<position, mark>> /\ Leave(o, "raised")
    BY <1>10, <2>1 DEF ApplyPosition, Leave
  <2>2. CASE /\ position' = [position EXCEPT ![req[o].symbol] = @ + Signed(o, fills[o])]
             /\ mark' = [mark EXCEPT ![req[o].symbol] = IF @ = 0 THEN FillPrice(req[o]) ELSE @]
             /\ Goto(o, IF HasBalance THEN "apply_balance" ELSE "final")
    <3>1. req[o] \in Requests /\ FillPrice(req[o]) \in Nat
      BY <1>10, <1>0, <1>00, RequestFields DEF ApplyPosition, Holds, Running
    <3>2. mark' \in [Symbols -> Nat]
      BY <2>2, <3>1
    <3>3. Signed(o, fills[o]) \in Int
      BY DEF Signed
    <3>4. position' \in [Symbols -> Int]
      <4> DEFINE d == Signed(o, fills[o])
                 s == req[o].symbol
      <4>1. position' = [position EXCEPT ![s] = position[s] + d] /\ s \in Symbols
        BY <2>2, <3>1, RequestFields
      <4>2. position[s] + d \in Int
        BY <3>3, <4>1
      <4> HIDE DEF d, s
      <4> QED
        BY <4>1, <4>2
    <3> QED
      BY <1>10, <2>2, <3>2, <3>4 DEF ApplyPosition, Goto
  <2> QED
    BY <1>10, <2>1, <2>2 DEF ApplyPosition
<1>11. ASSUME NEW o \in Orders, ApplyBalance(o) PROVE TypeOK'
  <2>1. Cost(o) \in Int
    BY <1>11, <1>0, CostType DEF ApplyBalance, Holds, Running
  <2> QED
    BY <1>11, <2>1 DEF ApplyBalance, Goto, Leave
<1>12. ASSUME NEW o \in Orders, FinalUpdate(o) PROVE TypeOK'
  BY <1>12 DEF FinalUpdate, UpdateRow, Leave
<1>13. ASSUME NEW o \in Orders, VenueDecides(o) PROVE TypeOK'
  BY <1>13 DEF VenueDecides
<1>14. ASSUME NEW o \in Orders, VenueExecutes(o) PROVE TypeOK'
  BY <1>14 DEF VenueExecutes
<1>141. ASSUME NEW s \in Symbols, NEW p \in 1..MaxPrice, MarkToMarket(s, p) PROVE TypeOK'
  BY <1>141 DEF MarkToMarket
<1>15. ASSUME TriggerStop \/ ResetStop \/ SetReconciliationBlocked \/ CooldownExpires \/ Crash
       PROVE  TypeOK'
  BY <1>15 DEF TriggerStop, ResetStop, SetReconciliationBlocked, CooldownExpires, Crash
<1>16. CASE UNCHANGED vars
  BY <1>16 DEF vars
<1> QED
  BY <1>1, <1>2, <1>3, <1>4, <1>5, <1>6, <1>7, <1>71, <1>8, <1>9, <1>10, <1>11, <1>12,
     <1>13, <1>14, <1>141, <1>15, <1>16 DEF Next, Step

-----------------------------------------------------------------------------
(* Each submission's part of the invariant.                                *)

(* Nothing that OrderInv(p) reads of p itself changes. *)
Frame(p) ==
  /\ task'[p] = task[p] /\ pc'[p] = pc[p] /\ req'[p] = req[p]
  /\ mem'[p] = mem[p] /\ row'[p] = row[p] /\ fills'[p] = fills[p]
  /\ venue'[p] = venue[p] /\ vfill'[p] = vfill[p]
  /\ loop' = p <=> loop = p

(* The stop and the block do not come while a coroutine holds the loop. *)
OrderlyStop ==
  /\ stopOrder' = "stop" => stopOrder = "stop" \/ loop = NoTask
  /\ reconBlocked' => reconBlocked \/ loop = NoTask

(* A submission whose record, rows and venue state stay as they are keeps  *)
(* its part of the invariant.                                              *)
LEMMA FrameKeeps ==
  ASSUME NEW p \in Orders, OrderInv(p), Frame(p), OrderlyStop
  PROVE  OrderInv(p)'
<1>1. RecordAt(p)'
  BY DEF OrderInv, Frame, RecordAt
<1>2. RowAt(p)'
  BY DEF OrderInv, Frame, RowAt
<1>3. VenueAt(p)'
  BY DEF OrderInv, Frame, VenueAt
<1>4. LoopAt(p)'
  BY DEF OrderInv, Frame, LoopAt, Running, OrderlyStop
<1> QED
  BY <1>1, <1>2, <1>3, <1>4 DEF OrderInv

(* A submission's step leaves every other submission alone. *)
LEMMA StepFrame ==
  ASSUME TypeOK, NEW o \in Orders, NEW p \in Orders, p # o,
         Step(o) \/ \E r \in Requests : Submit(o, r)
  PROVE  Frame(p) /\ OrderlyStop
<1> USE DEF TypeOK, Frame, OrderlyStop, engineVars, dbVars, venueVars, flagVars
<1>1. CASE \E r \in Requests : Submit(o, r)
  BY <1>1 DEF Submit, SetStatus
<1>2. CASE Validate(o) \/ CheckRequest(o) \/ EvaluateGate(o) \/ EvaluateRisk(o)
  BY <1>2 DEF Validate, CheckRequest, EvaluateGate, EvaluateRisk, Holds, SetStatus, Goto, Leave
<1>3. CASE PersistSubmitting(o) \/ Dispatch(o) \/ DispatchMock(o)
  BY <1>3 DEF PersistSubmitting, Dispatch, DispatchMock, UpdateRow, Holds, SetStatus, Goto, Leave
<1>4. CASE Acknowledge(o) \/ Refuse(o)
  BY <1>4 DEF Acknowledge, Refuse, Resume
<1>5. CASE InsertFill(o) \/ ApplyPosition(o)
  BY <1>5 DEF InsertFill, ApplyPosition, Holds, SetStatus, Goto, Leave
<1>6. CASE ApplyBalance(o) \/ FinalUpdate(o)
  BY <1>6 DEF ApplyBalance, FinalUpdate, UpdateRow, Holds, Goto, Leave
<1> QED
  BY <1>1, <1>2, <1>3, <1>4, <1>5, <1>6 DEF Step

(* A transition that was taken changes the status of the record only. *)
LEMMA SetStatusFields ==
  ASSUME TypeOK, NEW o \in Orders, NEW s, SetStatus(o, s)
  PROVE  /\ mem'[o].status = s /\ mem'[o].gate = mem[o].gate
         /\ mem'[o].exch = mem[o].exch /\ mem'[o].filled = mem[o].filled
BY DEF TypeOK, SetStatus, Record

(* Records with equal fields are equal. *)
LEMMA RecordEqual ==
  ASSUME NEW r \in Record, NEW q \in Record, r.status = q.status, r.gate = q.gate,
         r.exch = q.exch, r.filled = q.filled
  PROVE  r = q
BY DEF Record

(* The submission's own steps, one by one. *)
LEMMA OwnStep ==
  ASSUME TypeOK, StopFlags, NEW o \in Orders, OrderInv(o),
         Step(o) \/ \E r \in Requests : Submit(o, r)
  PROVE  OrderInv(o)'
<1> USE DEF TypeOK, OrderInv, RecordAt, RowAt, VenueAt, LoopAt, Checking, Exchanging, Ended,
            PC, Running, engineVars, dbVars, venueVars, flagVars
<1>0. \A f \in [Orders -> Record] : f[o] \in Record
  OBVIOUS
<1>1. ASSUME NEW r \in Requests, Submit(o, r) PROVE OrderInv(o)'
  <2>1. RecordAt(o)'
    BY <1>1, SetStatusFields DEF Submit, NoRecord, CreatedRow, Record
  <2>2. RowAt(o)'
    <3>1. mem' \in [Orders -> Record]
      BY <1>1, SetStatusType, Statuses DEF Submit
    <3>2. /\ mem'[o].status = "CREATED" /\ mem'[o].gate = FALSE
          /\ mem'[o].exch = FALSE /\ mem'[o].filled = 0
      BY <1>1, SetStatusFields DEF Submit, Record
    <3>3. mem'[o] = CreatedRow
      BY <3>1, <3>2, RecordEqual, RecordTypes DEF CreatedRow
    <3> QED
      BY <1>1, <3>3 DEF Submit
  <2>3. VenueAt(o)'
    BY <1>1, SetStatusFields DEF Submit, NoRecord, CreatedRow, Record
  <2>4. LoopAt(o)'
    BY <1>1, SetStatusFields DEF Submit, NoRecord, CreatedRow, Record
  <2> QED
    BY <2>1, <2>2, <2>3, <2>4
<1>2. CASE Validate(o)
  BY <1>2 DEF Validate, Holds, SetStatus, Goto, Record
<1>3. CASE CheckRequest(o)
  <2>0. /\ pc[o] = "lookup" /\ loop = o /\ task[o] = "running"
        /\ UNCHANGED <<loop, task, req, row, fills, venue, vfill, stopOrder, reconBlocked>>
    BY <1>3 DEF CheckRequest, Holds, Goto
  <2>1. CASE Acceptable(req[o]) /\ SetStatus(o, "SAFETY_CHECK") /\ Goto(o, "gate")
    <3>1. req[o].qty > 0
      BY <2>1 DEF Acceptable
    <3>2. /\ mem'[o].status = "SAFETY_CHECK" /\ mem'[o].gate = mem[o].gate
          /\ mem'[o].exch = mem[o].exch /\ mem'[o].filled = mem[o].filled /\ pc'[o] = "gate"
      BY <2>1, SetStatusFields DEF Goto
    <3>3. RecordAt(o)' /\ RowAt(o)'
      BY <2>0, <3>2
    <3>4. VenueAt(o)'
      BY <2>0, <3>1, <3>2
    <3>5. LoopAt(o)'
      BY <2>0, <3>2
    <3> QED
      BY <3>3, <3>4, <3>5
  <2>2. CASE SetStatus(o, "REJECTED") /\ Goto(o, "final")
    <3>2. /\ mem'[o].status = "REJECTED" /\ mem'[o].gate = mem[o].gate
          /\ mem'[o].exch = mem[o].exch /\ mem'[o].filled = mem[o].filled /\ pc'[o] = "final"
      BY <2>2, SetStatusFields DEF Goto
    <3>3. RecordAt(o)' /\ RowAt(o)'
      BY <2>0, <3>2
    <3>4. VenueAt(o)'
      BY <2>0, <3>2
    <3>5. LoopAt(o)'
      BY <2>0, <3>2
    <3> QED
      BY <3>3, <3>4, <3>5
  <2> QED
    BY <1>3, <2>1, <2>2 DEF CheckRequest
<1>4. CASE EvaluateGate(o)
  <2>1. RecordAt(o)'
    BY <1>4 DEF EvaluateGate, GatePasses, StopFlags, Holds, SetStatus, Goto, Record
  <2>2. RowAt(o)'
    BY <1>4 DEF EvaluateGate, GatePasses, StopFlags, Holds, SetStatus, Goto, Record
  <2>3. VenueAt(o)'
    <3>1. /\ pc[o] = "gate" /\ pc'[o] \in {"risk", "final"} /\ venue[o] = "none"
          /\ UNCHANGED <<req, fills, venue, vfill>>
      BY <1>4 DEF EvaluateGate, Holds, Goto
    <3>2. /\ mem'[o].exch = mem[o].exch /\ mem'[o].filled = mem[o].filled
          /\ mem'[o].status \in {mem[o].status, "REJECTED"}
      BY <1>4 DEF EvaluateGate, Holds, SetStatus, Record
    <3> QED
      BY <3>1, <3>2
  <2>4. LoopAt(o)'
    BY <1>4 DEF EvaluateGate, GatePasses, StopFlags, Holds, SetStatus, Goto, Record
  <2> QED
    BY <2>1, <2>2, <2>3, <2>4
<1>5. CASE EvaluateRisk(o)
  <2>1. RecordAt(o)'
    BY <1>5, SetStatusFields DEF EvaluateRisk, Holds, Goto, Leave
  <2>2. RowAt(o)'
    BY <1>5, SetStatusFields DEF EvaluateRisk, Holds, Goto, Leave
  <2>3. VenueAt(o)'
    BY <1>5, SetStatusFields DEF EvaluateRisk, Holds, Goto, Leave
  <2>4. LoopAt(o)'
    BY <1>5, SetStatusFields DEF EvaluateRisk, Holds, Goto, Leave
  <2> QED
    BY <2>1, <2>2, <2>3, <2>4
<1>6. CASE PersistSubmitting(o)
  <2>1. RecordAt(o)'
    BY <1>6 DEF PersistSubmitting, UpdateRow, Holds, Goto, Leave, SentRow, Record
  <2>2. RowAt(o)'
    <3>1. /\ mem[o].status = "SUBMITTING" /\ mem[o].gate = TRUE
          /\ mem[o].exch = FALSE /\ mem[o].filled = 0
      BY <1>6 DEF PersistSubmitting, Holds, Record
    <3>2. mem[o] = SentRow
      BY <3>1, RecordEqual, RecordTypes DEF SentRow
    <3> QED
      BY <1>6, <3>2 DEF PersistSubmitting, UpdateRow, Holds, Goto, Leave
  <2>3. VenueAt(o)'
    BY <1>6 DEF PersistSubmitting, UpdateRow, Holds, Goto, Leave, SentRow, Record
  <2>4. LoopAt(o)'
    BY <1>6 DEF PersistSubmitting, UpdateRow, Holds, Goto, Leave, SentRow, Record
  <2> QED
    BY <2>1, <2>2, <2>3, <2>4
<1>7. CASE Dispatch(o)
  <2>1. RecordAt(o)'
    BY <1>7, SetStatusFields DEF Dispatch, Holds, Goto
  <2>2. RowAt(o)'
    BY <1>7, SetStatusFields DEF Dispatch, Holds, Goto
  <2>3. VenueAt(o)'
    BY <1>7, SetStatusFields DEF Dispatch, Holds, Goto
  <2>4. LoopAt(o)'
    BY <1>7, SetStatusFields DEF Dispatch, Holds, Goto
  <2> QED
    BY <2>1, <2>2, <2>3, <2>4
<1>71. CASE DispatchMock(o)
  <2>0. mem'[o] = [mem[o] EXCEPT !.status = "ACKNOWLEDGED", !.exch = TRUE]
    BY <1>71 DEF DispatchMock
  <2>1. /\ pc[o] = "dispatch" /\ task[o] = "running" /\ loop = o
        /\ vfill'[o] = req[o].qty /\ venue'[o] = "booked"
        /\ pc'[o] = (IF FillPrice(req[o]) > 0 THEN "insert_fill" ELSE "final")
        /\ UNCHANGED <<loop, task, req, row, fills, stopOrder, reconBlocked>>
    BY <1>71 DEF DispatchMock, Holds, Goto
  <2>2. /\ mem'[o].status = "ACKNOWLEDGED" /\ mem'[o].gate = TRUE /\ mem'[o].exch = TRUE
        /\ mem'[o].filled = 0 /\ fills[o] = 0
    BY <2>0, <2>1 DEF Record
  <2>21. req[o].qty \in Nat /\ req[o].qty > 0
    BY <2>1, RequestFields
  <2>3. RecordAt(o)' /\ RowAt(o)'
    BY <2>1, <2>2
  <2>4. VenueAt(o)'
    <3>1. CASE FillPrice(req[o]) > 0
      <4>1. (FillPrice(req[o]) > 0)' /\ pc'[o] = "insert_fill"
        BY <2>1, <3>1 DEF FillPrice
      <4>2. (req[o].venue = "mock")' /\ (req[o].qty \in Nat /\ req[o].qty > 0)'
        BY <1>71, <2>1, <2>21 DEF DispatchMock
      <4> QED
        BY <2>1, <2>2, <2>21, <4>1, <4>2
    <3>2. CASE ~(FillPrice(req[o]) > 0)
      <4>1. pc'[o] = "final"
        BY <2>1, <3>2
      <4> QED
        BY <2>1, <2>2, <2>21, <4>1
    <3> QED
      BY <3>1, <3>2
  <2>5. LoopAt(o)'
    BY <2>1, <2>2
  <2> QED
    BY <2>3, <2>4, <2>5
<1>8. CASE Acknowledge(o)
  <2>0. mem'[o] = [mem[o] EXCEPT !.status = "ACKNOWLEDGED",
                                 !.exch = ("ACKNOWLEDGED" = "ACKNOWLEDGED")]
    BY <1>8 DEF Acknowledge, Resume
  <2>1. /\ pc[o] = "await" /\ pc'[o] = "final" /\ loop' = o /\ task[o] = "running"
        /\ venue[o] = "booked"
        /\ UNCHANGED <<task, req, row, fills, venue, vfill, stopOrder, reconBlocked>>
    BY <1>8 DEF Acknowledge, Resume, InFlight
  <2>2. /\ mem'[o].status = "ACKNOWLEDGED" /\ mem'[o].gate = TRUE /\ mem'[o].exch = TRUE
        /\ mem'[o].filled = 0 /\ fills[o] = 0
    BY <2>0, <2>1 DEF Record
  <2>3. RecordAt(o)' /\ RowAt(o)'
    BY <2>1, <2>2
  <2>4. VenueAt(o)'
    BY <2>1, <2>2
  <2>5. LoopAt(o)'
    BY <2>1, <2>2
  <2> QED
    BY <2>3, <2>4, <2>5
<1>9. CASE Refuse(o)
  <2>1. ASSUME NEW st \in {"SUBMISSION_UNCONFIRMED", "REJECTED"}, Resume(o, st)
        PROVE  OrderInv(o)'
    <3>0. mem'[o] = [mem[o] EXCEPT !.status = st, !.exch = FALSE]
      <4>1. (st = "ACKNOWLEDGED") = FALSE
        OBVIOUS
      <4> QED
        BY <2>1, <4>1 DEF Resume
    <3>1. /\ pc[o] = "await" /\ pc'[o] = "final" /\ loop' = o /\ task[o] = "running"
          /\ UNCHANGED <<task, req, row, fills, venue, vfill, stopOrder, reconBlocked>>
      BY <2>1 DEF Resume, InFlight
    <3>2. /\ mem'[o].status = st /\ mem'[o].gate = TRUE /\ mem'[o].exch = FALSE
          /\ mem'[o].filled = 0 /\ fills[o] = 0
      BY <2>1, <3>0, <3>1 DEF Record
    <3>3. RecordAt(o)' /\ RowAt(o)'
      BY <2>1, <3>1, <3>2
    <3>4. VenueAt(o)'
      BY <2>1, <3>1, <3>2
    <3>5. LoopAt(o)'
      BY <2>1, <3>1, <3>2
    <3> QED
      BY <3>3, <3>4, <3>5
  <2> QED
    BY <1>9, <2>1 DEF Refuse
<1>10. CASE InsertFill(o)
  <2>1. RecordAt(o)'
    BY <1>10 DEF InsertFill, Holds, SetStatus, Goto, Record
  <2>2. RowAt(o)'
    BY <1>10 DEF InsertFill, Holds, SetStatus, Goto, Record
  <2>3. VenueAt(o)'
    <3>1. /\ pc[o] = "insert_fill" /\ mem[o].gate /\ venue[o] = "booked"
          /\ mem[o].exch /\ vfill[o] > 0 /\ vfill[o] <= req[o].qty
          /\ mem[o].filled = 0 /\ fills[o] = 0
          /\ req[o].venue = "mock" /\ FillPrice(req[o]) > 0
          /\ UNCHANGED <<req, venue, vfill>>
      BY <1>10 DEF InsertFill, Holds
    <3>2. CASE /\ fills' = [fills EXCEPT ![o] = vfill[o]]
               /\ mem' = [mem EXCEPT ![o].status = "FILLED", ![o].filled = vfill[o]]
               /\ Goto(o, "apply_position")
      <4>1. /\ mem'[o].status = "FILLED" /\ mem'[o].filled = vfill[o]
            /\ mem'[o].gate = mem[o].gate /\ mem'[o].exch = mem[o].exch
            /\ fills'[o] = vfill[o] /\ pc'[o] = "apply_position"
        BY <3>2 DEF Goto, Record
      <4> QED
        BY <3>1, <4>1
    <3>3. CASE SetStatus(o, "ERROR") /\ Goto(o, "final") /\ UNCHANGED fills
      <4>1. /\ mem'[o].status = "ERROR" /\ mem'[o].filled = mem[o].filled
            /\ mem'[o].gate = mem[o].gate /\ mem'[o].exch = mem[o].exch
            /\ fills'[o] = fills[o] /\ pc'[o] = "final"
        BY <3>3, SetStatusFields DEF Goto
      <4> QED
        BY <3>1, <4>1
    <3> QED
      BY <1>10, <3>2, <3>3 DEF InsertFill
  <2>4. LoopAt(o)'
    BY <1>10 DEF InsertFill, Holds, SetStatus, Goto, Record
  <2> QED
    BY <2>1, <2>2, <2>3, <2>4
<1>11. CASE ApplyPosition(o)
  <2>1. RecordAt(o)'
    BY <1>11 DEF ApplyPosition, Holds, Goto, Leave
  <2>2. RowAt(o)'
    BY <1>11 DEF ApplyPosition, Holds, Goto, Leave
  <2>3. VenueAt(o)'
    BY <1>11 DEF ApplyPosition, Holds, Goto, Leave
  <2>4. LoopAt(o)'
    BY <1>11 DEF ApplyPosition, Holds, Goto, Leave
  <2> QED
    BY <2>1, <2>2, <2>3, <2>4
<1>12. CASE ApplyBalance(o)
  <2>1. RecordAt(o)'
    BY <1>12 DEF ApplyBalance, Holds, Goto, Leave
  <2>2. RowAt(o)'
    BY <1>12 DEF ApplyBalance, Holds, Goto, Leave
  <2>3. VenueAt(o)'
    BY <1>12 DEF ApplyBalance, Holds, Goto, Leave
  <2>4. LoopAt(o)'
    BY <1>12 DEF ApplyBalance, Holds, Goto, Leave
  <2> QED
    BY <2>1, <2>2, <2>3, <2>4
<1>13. CASE FinalUpdate(o)
  <2>1. RecordAt(o)'
    BY <1>13 DEF FinalUpdate, UpdateRow, Holds, Leave
  <2>2. RowAt(o)'
    BY <1>13 DEF FinalUpdate, UpdateRow, Holds, Leave
  <2>3. VenueAt(o)'
    BY <1>13 DEF FinalUpdate, UpdateRow, Holds, Leave
  <2>4. LoopAt(o)'
    BY <1>13 DEF FinalUpdate, UpdateRow, Holds, Leave
  <2> QED
    BY <2>1, <2>2, <2>3, <2>4
<1> QED
  BY <1>1, <1>2, <1>3, <1>4, <1>5, <1>6, <1>7, <1>71, <1>8, <1>9, <1>10, <1>11, <1>12,
     <1>13 DEF Step

(* The surroundings: the sandbox, the operator, the clock, the process.    *)
LEMMA OutsideStep ==
  ASSUME TypeOK, StopFlags, NEW p \in Orders, OrderInv(p),
         \/ \E o \in Orders : VenueDecides(o) \/ VenueExecutes(o)
         \/ \E s \in Symbols : \E x \in 1..MaxPrice : MarkToMarket(s, x)
         \/ TriggerStop \/ ResetStop \/ SetReconciliationBlocked \/ CooldownExpires \/ Crash
         \/ UNCHANGED vars
  PROVE  OrderInv(p)'
<1> USE DEF OrderlyStop, engineVars, dbVars, venueVars, flagVars
<1>1. ASSUME NEW o \in Orders, VenueDecides(o) PROVE OrderInv(p)'
  <2>1. CASE p # o
    BY <1>1, <2>1, FrameKeeps DEF VenueDecides, Frame, TypeOK
  <2>2. CASE p = o
    BY <1>1, <2>2 DEF VenueDecides, TypeOK, OrderInv, RecordAt, RowAt, VenueAt, LoopAt, Running
  <2> QED
    BY <2>1, <2>2
<1>2. ASSUME NEW o \in Orders, VenueExecutes(o) PROVE OrderInv(p)'
  <2>1. CASE p # o
    BY <1>2, <2>1, FrameKeeps DEF VenueExecutes, Frame, TypeOK
  <2>2. CASE p = o
    BY <1>2, <2>2 DEF VenueExecutes, TypeOK, OrderInv, RecordAt, RowAt, VenueAt, LoopAt, Running
  <2> QED
    BY <2>1, <2>2
<1>3. CASE TriggerStop \/ ResetStop \/ SetReconciliationBlocked \/ CooldownExpires
  BY <1>3, FrameKeeps DEF TriggerStop, ResetStop, SetReconciliationBlocked, CooldownExpires, Frame
<1>31. ASSUME NEW s \in Symbols, NEW x \in 1..MaxPrice, MarkToMarket(s, x) PROVE OrderInv(p)'
  BY <1>31, FrameKeeps DEF MarkToMarket, Frame
<1>4. CASE Crash
  BY <1>4 DEF Crash, TypeOK, OrderInv, RecordAt, RowAt, VenueAt, LoopAt, Running
<1>5. CASE UNCHANGED vars
  BY <1>5, FrameKeeps DEF vars, Frame
<1> QED
  BY <1>1, <1>2, <1>3, <1>31, <1>4, <1>5

(* The two flags of the emergency stop are set and reset together. *)
LEMMA NextStopFlags == TypeOK /\ StopFlags /\ [Next]_vars => StopFlags'
<1> SUFFICES ASSUME StopFlags, [Next]_vars PROVE StopFlags'
  OBVIOUS
<1> USE DEF StopFlags, flagVars
<1>1. ASSUME NEW o \in Orders, NEW r \in Requests, Submit(o, r) PROVE StopFlags'
  BY <1>1 DEF Submit
<1>2. ASSUME NEW o \in Orders, Step(o) PROVE StopFlags'
  BY <1>2 DEF Step, Validate, CheckRequest, EvaluateGate, EvaluateRisk, PersistSubmitting,
      Dispatch, DispatchMock, Acknowledge, Refuse, Resume, InsertFill, ApplyPosition,
      ApplyBalance, FinalUpdate
<1>3. ASSUME NEW o \in Orders, VenueDecides(o) \/ VenueExecutes(o) PROVE StopFlags'
  BY <1>3 DEF VenueDecides, VenueExecutes
<1>31. ASSUME NEW s \in Symbols, NEW x \in 1..MaxPrice, MarkToMarket(s, x) PROVE StopFlags'
  BY <1>31 DEF MarkToMarket
<1>4. CASE TriggerStop \/ ResetStop \/ SetReconciliationBlocked \/ CooldownExpires \/ Crash
  BY <1>4 DEF TriggerStop, ResetStop, SetReconciliationBlocked, CooldownExpires, Crash
<1>5. CASE UNCHANGED vars
  BY <1>5 DEF vars
<1> QED
  BY <1>1, <1>2, <1>3, <1>31, <1>4, <1>5 DEF Next

-----------------------------------------------------------------------------
(* The limits on positions and exposure when a fill is booked.             *)

(* A step that leaves positions and marks alone and adds no submission to  *)
(* those whose risk check has passed keeps their reservation.              *)
LEMMA ReservedFrame ==
  ASSUME LimitsReserved, position' = position, mark' = mark,
         \A p \in Orders : Pending(p)' => Pending(p) /\ req'[p] = req[p]
  PROVE  LimitsReserved'
<1>1. Active' = Active /\ Exposure' = Exposure
  BY DEF Active, Exposure, Sizes
<1>2. \A p \in Orders : Pending(p)' =>
        /\ req[p].symbol \in Active \/ Cardinality(Active) < MaxPositions
        /\ Estimate(req[p]) # None
        /\ Exposure + Notional(req[p]) <= MaxExposure
        /\ req'[p] = req[p]
  BY DEF LimitsReserved
<1> HIDE DEF Exposure, Active
<1> QED
  BY <1>1, <1>2 DEF LimitsReserved, PositionsWithinLimit, Estimate, Notional

(* One new position makes one more active symbol at most. *)
LEMMA OneMoreActive ==
  ASSUME TypeOK, TypeOK', NEW s \in Symbols,
         \A t \in Symbols \ {s} : position'[t] = position[t],
         Cardinality(Active) <= MaxPositions,
         s \in Active \/ Cardinality(Active) < MaxPositions
  PROVE  Cardinality(Active') <= MaxPositions
<1>1. IsFiniteSet(Active) /\ IsFiniteSet(Active \cup {s})
  <2>1. Active \subseteq Symbols /\ Active \cup {s} \subseteq Symbols
    BY DEF Active
  <2> QED
    BY <2>1, FS_Subset, FiniteAssumption
<1>2. Active' \subseteq Active \cup {s}
  BY DEF Active
<1>3. Cardinality(Active') <= Cardinality(Active \cup {s})
  BY <1>1, <1>2, FS_Subset
<1>4. Cardinality(Active \cup {s}) <= MaxPositions
  <2>0. Cardinality(Active) \in Nat
    BY <1>1, FS_CardinalityType
  <2>1. CASE s \in Active
    BY <2>1, <1>1, FS_AddElement
  <2>2. CASE s \notin Active
    BY <2>0, <2>2, <1>1, FS_AddElement
  <2> QED
    BY <2>1, <2>2
<1>5. IsFiniteSet(Active') /\ Cardinality(Active') \in Nat /\ Cardinality(Active \cup {s}) \in Nat
  BY <1>1, <1>2, FS_Subset, FS_CardinalityType
<1> QED
  BY <1>3, <1>4, <1>5

(* Arithmetic of the exposure: a position that grew by no more than q,     *)
(* valued at no more than e.                                               *)
LEMMA SizeGrows ==
  ASSUME NEW a \in Nat, NEW b \in Nat, NEW n \in Nat, NEW m \in Nat, NEW e \in Int,
         a <= b + n, m <= e
  PROVE  a * m <= b * m + n * e
<1>1. \A i, j, k \in Nat : i <= j => i * k <= j * k
  OBVIOUS
<1>2. a * m <= (b + n) * m
  BY <1>1
<1>3. (b + n) * m = b * m + n * m
  OBVIOUS
<1>4. n * m <= n * e
  <2>1. \A i, j, k \in Nat : i <= j => k * i <= k * j
    OBVIOUS
  <2>2. e \in Nat
    OBVIOUS
  <2> QED
    BY <2>1, <2>2
<1>5. a * m \in Int /\ b * m \in Int /\ n * m \in Int /\ n * e \in Int /\ (b + n) * m \in Int
  OBVIOUS
<1>6. \A w, x, y, z \in Int : w <= x + y /\ y <= z => w <= x + z
  OBVIOUS
<1> QED
  BY <1>2, <1>3, <1>4, <1>5, <1>6

SizesTyped == \A s \in Symbols : Sizes[s] \in Int

(* The size of a position is a number. *)
LEMMA SizesType == TypeOK => SizesTyped
<1> SUFFICES ASSUME TypeOK, NEW s \in Symbols PROVE Sizes[s] \in Int
  BY DEF SizesTyped
<1>1. Abs(position[s]) \in Int /\ mark[s] \in Int
  BY DEF TypeOK, Abs
<1>2. \A i, j \in Int : i * j \in Int
  OBVIOUS
<1> QED
  BY <1>1, <1>2 DEF Sizes

(* The exposure is a number.                                               *)
LEMMA ExposureType == TypeOK => Exposure \in Int
BY SizesType, FiniteAssumption, SumOfOneMore DEF Exposure, SizesTyped

(* One position changes: the exposure changes by as much as its size.      *)
LEMMA ExposureChange ==
  ASSUME NEW s \in Symbols, \A t \in Symbols : Sizes[t] \in Int /\ Sizes'[t] \in Int,
         \A t \in Symbols \ {s} : Sizes'[t] = Sizes[t]
  PROVE  Exposure' = Exposure + (Sizes'[s] - Sizes[s])
<1>1. IsFiniteSet(Symbols)
  BY FiniteAssumption
<1> DEFINE f == Sizes
           g == Sizes'
<1>2. /\ \A t \in Symbols : f[t] \in Int /\ g[t] \in Int
      /\ \A t \in Symbols \ {s} : g[t] = f[t]
  OBVIOUS
<1>3. Exposure = SumFunctionOnSet(f, Symbols) /\ Exposure' = SumFunctionOnSet(g, Symbols)
  BY DEF Exposure
<1>4. Sizes'[s] - Sizes[s] = g[s] - f[s]
  OBVIOUS
<1> HIDE DEF f, g
<1>5. SumFunctionOnSet(g, Symbols) = SumFunctionOnSet(f, Symbols) + (g[s] - f[s])
  BY <1>1, <1>2, SumChange
<1> QED
  BY <1>3, <1>4, <1>5

(* A fill adds no more to the exposure than its quantity at the estimate,  *)
(* if the position is valued no higher.                                    *)
LEMMA ExposureGrows ==
  ASSUME TypeOK, TypeOK', NEW s \in Symbols, NEW d \in Int, NEW n \in Nat, NEW e \in Int,
         Abs(d) <= n, mark'[s] <= e,
         position' = [position EXCEPT ![s] = @ + d],
         \A t \in Symbols \ {s} : mark'[t] = mark[t],
         mark[s] # 0 => mark'[s] = mark[s],
         mark[s] = 0 => position[s] = 0
  PROVE  Exposure' <= Exposure + n * e
<1>1. \A t \in Symbols : Sizes[t] \in Int /\ Sizes'[t] \in Int
  <2>1. (TypeOK => SizesTyped) /\ (TypeOK => SizesTyped)'
    BY SizesType, PTL
  <2> QED
    BY <2>1 DEF SizesTyped
<1>2. \A t \in Symbols \ {s} : Sizes'[t] = Sizes[t]
  BY DEF TypeOK, Sizes
<1>3. Sizes'[s] <= Sizes[s] + n * e
  <2> DEFINE a == Abs(position'[s])
             b == Abs(position[s])
             m == mark'[s]
  <2>1. a \in Nat /\ b \in Nat /\ m \in Nat
    BY DEF TypeOK, Abs
  <2>2. position'[s] = position[s] + d
    BY DEF TypeOK
  <2>3. a <= b + n
    BY <2>2 DEF TypeOK, Abs
  <2>4. Sizes[s] = b * mark[s] /\ Sizes'[s] = a * m
    BY DEF Sizes
  <2>5. b * mark[s] = b * m
    <3>1. CASE mark[s] # 0
      BY <3>1
    <3>2. CASE mark[s] = 0
      <4>1. b = 0
        BY <3>2 DEF Abs
      <4> HIDE DEF b, m
      <4>2. \A i \in Nat : 0 * i = 0
        OBVIOUS
      <4> QED
        BY <2>1, <3>2, <4>1, <4>2
    <3> QED
      BY <3>1, <3>2
  <2>6. m <= e
    OBVIOUS
  <2> HIDE DEF a, b, m
  <2> QED
    BY <2>1, <2>3, <2>4, <2>5, <2>6, SizeGrows
<1>4. Exposure' = Exposure + (Sizes'[s] - Sizes[s])
  BY <1>1, <1>2, ExposureChange
<1>5. Exposure \in Int
  BY ExposureType
<1>6. \A i, j, k \in Int : i * j \in Int /\ (j <= i + k => \A x \in Int : x + (j - i) <= x + k)
  OBVIOUS
<1>7. n * e \in Int /\ Sizes[s] \in Int /\ Sizes'[s] \in Int
  BY <1>1, <1>6
<1> QED
  BY <1>3, <1>4, <1>5, <1>6, <1>7

(* A submission whose check has passed holds the loop. *)
LEMMA PendingHolds ==
  ASSUME NEW o \in Orders, OrderInv(o), Pending(o)
  PROVE  loop = o
BY DEF Pending, OrderInv, LoopAt

(* No step takes the place that a submission was promised by its check.    *)
LEMMA NextLimits ==
  TypeOK /\ TypeOK' /\ (\A o \in Orders : OrderInv(o)) /\ LimitsReserved /\ [Next]_vars
    => LimitsReserved'
<1> SUFFICES ASSUME TypeOK, TypeOK', \A o \in Orders : OrderInv(o), LimitsReserved, [Next]_vars
             PROVE  LimitsReserved'
  OBVIOUS
<1> USE DEF Pending, Running, engineVars, dbVars, venueVars, flagVars
<1>1. ASSUME NEW o \in Orders, NEW r \in Requests, Submit(o, r) PROVE LimitsReserved'
  BY <1>1, ReservedFrame DEF Submit, TypeOK
<1>2. ASSUME NEW o \in Orders, Validate(o) \/ CheckRequest(o) \/ EvaluateGate(o)
      PROVE  LimitsReserved'
  BY <1>2, ReservedFrame DEF Validate, CheckRequest, EvaluateGate, Holds, Goto, TypeOK
<1>3. ASSUME NEW o \in Orders, EvaluateRisk(o) PROVE LimitsReserved'
  <2>1. CASE RiskPasses(req[o]) /\ Estimate(req[o]) # None /\ Goto(o, "persist")
    <3>1. position' = position /\ mark' = mark /\ req' = req
          /\ task' = task /\ pc' = [pc EXCEPT ![o] = "persist"]
      BY <1>3, <2>1 DEF EvaluateRisk, Goto
    <3>2. Active' = Active /\ Exposure' = Exposure
      BY <3>1 DEF Active, Exposure, Sizes
    <3>3. \A p \in Orders : Pending(p)' => Pending(p) \/ p = o
      BY <3>1 DEF TypeOK
    <3>4. /\ req[o].symbol \in Active \/ Cardinality(Active) < MaxPositions
          /\ Exposure + Notional(req[o]) <= MaxExposure
      BY <2>1 DEF RiskPasses
    <3>5. \A p \in Orders : Pending(p)' =>
            /\ req[p].symbol \in Active \/ Cardinality(Active) < MaxPositions
            /\ Estimate(req[p]) # None
            /\ Exposure + Notional(req[p]) <= MaxExposure
      BY <2>1, <3>3, <3>4 DEF LimitsReserved
    <3> HIDE DEF Pending
    <3> QED
      BY <3>1, <3>2, <3>5 DEF LimitsReserved, PositionsWithinLimit, Estimate, Notional
  <2>2. CASE Leave(o, "raised") \/ Goto(o, "final")
    BY <1>3, <2>2, ReservedFrame DEF EvaluateRisk, Leave, Goto, TypeOK
  <2> QED
    BY <1>3, <2>1, <2>2 DEF EvaluateRisk
<1>4. ASSUME NEW o \in Orders, PersistSubmitting(o) PROVE LimitsReserved'
  BY <1>4, ReservedFrame DEF PersistSubmitting, Holds, Goto, Leave, TypeOK
<1>5. ASSUME NEW o \in Orders, Dispatch(o) PROVE LimitsReserved'
  BY <1>5, ReservedFrame DEF Dispatch, Holds, Goto, TypeOK
<1>51. ASSUME NEW o \in Orders, DispatchMock(o) PROVE LimitsReserved'
  BY <1>51, ReservedFrame DEF DispatchMock, Holds, Goto, TypeOK
<1>6. ASSUME NEW o \in Orders, Acknowledge(o) \/ Refuse(o) PROVE LimitsReserved'
  BY <1>6, ReservedFrame DEF Acknowledge, Refuse, Resume, InFlight, TypeOK
<1>7. ASSUME NEW o \in Orders, InsertFill(o) PROVE LimitsReserved'
  BY <1>7, ReservedFrame DEF InsertFill, Holds, Goto, TypeOK
<1>8. ASSUME NEW o \in Orders, ApplyPosition(o) PROVE LimitsReserved'
  <2>1. CASE UNCHANGED <<position, mark>> /\ Leave(o, "raised")
    BY <1>8, <2>1, ReservedFrame DEF ApplyPosition, Leave, TypeOK
  <2>2. CASE /\ position' = [position EXCEPT ![req[o].symbol] = @ + Signed(o, fills[o])]
             /\ mark' = [mark EXCEPT ![req[o].symbol] = IF @ = 0 THEN FillPrice(req[o]) ELSE @]
             /\ Goto(o, IF HasBalance THEN "apply_balance" ELSE "final")
    <3>1. loop = o /\ task[o] = "running" /\ pc[o] = "apply_position" /\ req' = req
      BY <1>8 DEF ApplyPosition, Holds
    <3>2. req[o] \in Requests /\ FillPrice(req[o]) > 0 /\ req[o].symbol \in Symbols
      BY <3>1, RequestFields DEF OrderInv, LoopAt, VenueAt
    <3>3. \A p \in Orders : ~Pending(p)'
      <4>1. \A p \in Orders : Pending(p) => p = o
        BY <3>1, PendingHolds
      <4>2. task' = task /\ pc'[o] \in {"apply_balance", "final"}
            /\ \A p \in Orders \ {o} : pc'[p] = pc[p]
        BY <2>2 DEF Goto, TypeOK
      <4> QED
        BY <3>1, <4>1, <4>2
    <3>4. Cardinality(Active') <= MaxPositions
      <4>1. \A t \in Symbols \ {req[o].symbol} : position'[t] = position[t]
        BY <2>2 DEF TypeOK
      <4>2. Pending(o)
        BY <3>1 DEF OrderInv, VenueAt
      <4> QED
        BY <3>2, <4>1, <4>2, OneMoreActive DEF LimitsReserved, PositionsWithinLimit
    <3>5. \A s \in Symbols : mark'[s] = 0 => position'[s] = 0
      <4>1. mark'[req[o].symbol] # 0
        BY <2>2, <3>2 DEF TypeOK
      <4> QED
        BY <2>2, <4>1 DEF LimitsReserved, TypeOK
    <3> HIDE DEF Pending
    <3> QED
      BY <3>3, <3>4, <3>5 DEF LimitsReserved, PositionsWithinLimit
  <2> QED
    BY <1>8, <2>1, <2>2 DEF ApplyPosition
<1>9. ASSUME NEW o \in Orders, ApplyBalance(o) \/ FinalUpdate(o) PROVE LimitsReserved'
  BY <1>9, ReservedFrame DEF ApplyBalance, FinalUpdate, Holds, Goto, Leave, TypeOK
<1>10. ASSUME NEW o \in Orders, VenueDecides(o) \/ VenueExecutes(o) PROVE LimitsReserved'
  BY <1>10, ReservedFrame DEF VenueDecides, VenueExecutes
<1>101. ASSUME NEW s \in Symbols, NEW x \in 1..MaxPrice, MarkToMarket(s, x) PROVE LimitsReserved'
  <2>1. position' = position /\ task' = task /\ pc' = pc /\ req' = req /\ loop = NoTask
        /\ mark' = [mark EXCEPT ![s] = x]
    BY <1>101 DEF MarkToMarket
  <2>2. \A p \in Orders : ~Pending(p)'
    <3>1. \A p \in Orders : Pending(p) => loop = p
      BY PendingHolds
    <3> QED
      BY <2>1, <3>1
  <2>3. \A t \in Symbols : mark'[t] = 0 => position'[t] = 0
    BY <2>1 DEF LimitsReserved, TypeOK
  <2>4. Active' = Active
    BY <2>1 DEF Active
  <2> HIDE DEF Pending
  <2> QED
    BY <2>2, <2>3, <2>4 DEF LimitsReserved, PositionsWithinLimit
<1>11. CASE TriggerStop \/ ResetStop \/ SetReconciliationBlocked \/ CooldownExpires
  BY <1>11, ReservedFrame DEF TriggerStop, ResetStop, SetReconciliationBlocked, CooldownExpires
<1>12. CASE Crash
  BY <1>12, ReservedFrame DEF Crash, TypeOK
<1>13. CASE UNCHANGED vars
  BY <1>13, ReservedFrame DEF vars
<1> QED
  BY <1>1, <1>2, <1>3, <1>4, <1>5, <1>51, <1>6, <1>7, <1>8, <1>9, <1>10, <1>101, <1>11, <1>12,
     <1>13 DEF Next, Step

-----------------------------------------------------------------------------
(* The ledger.                                                             *)

(* Fills are numbers, and the sets they are summed over are finite.        *)
LEMMA SignedFillType == ASSUME TypeOK PROVE \A o \in Orders : SignedFill[o] \in Int
BY DEF TypeOK, SignedFill, Signed

LEMMA FillCostType ==
  ASSUME TypeOK, \A o \in Orders : OrderInv(o)
  PROVE  \A o \in Orders : task[o] = "running" \/ Credited(o) => FillCost[o] \in Int
<1> SUFFICES ASSUME NEW o \in Orders, task[o] = "running" \/ Credited(o)
             PROVE  FillCost[o] \in Int
  OBVIOUS
<1>1. task[o] # "none"
  BY DEF OrderInv, LoopAt, Credited
<1>2. req[o] \in Requests
  BY <1>1 DEF OrderInv, LoopAt
<1> QED
  BY <1>2, CostType DEF FillCost

LEMMA LedgerSets ==
  /\ IsFiniteSet(AllCredited) /\ AllCredited \subseteq Orders
  /\ \A s : IsFiniteSet(PostedOn(s)) /\ PostedOn(s) \subseteq Orders
<1>1. AllCredited \subseteq Orders /\ \A s : PostedOn(s) \subseteq Orders
  BY DEF AllCredited, PostedOn
<1> QED
  BY <1>1, FS_Subset, FiniteAssumption

(* What a posted or credited submission reads of itself. *)
FillFrame(p) ==
  /\ Posted(p)' <=> Posted(p)
  /\ Posted(p) => fills'[p] = fills[p] /\ req'[p] = req[p]

(* The sums over the posted and the credited orders change only with the   *)
(* orders in them.                                                         *)
LEMMA SumsStay ==
  ASSUME \A p \in Orders : Posted(p) => fills'[p] = fills[p] /\ req'[p] = req[p]
  PROVE  /\ SumFunctionOnSet(FillCost', AllCredited) = SumFunctionOnSet(FillCost, AllCredited)
         /\ \A s : SumFunctionOnSet(SignedFill', PostedOn(s)) = SumFunctionOnSet(SignedFill,
              PostedOn(s))
<1>1. \A p \in Orders : Posted(p) => SignedFill'[p] = SignedFill[p] /\ FillCost'[p] = FillCost[p]
  BY DEF SignedFill, FillCost, Cost, Signed
<1>2. \A p \in AllCredited : Posted(p)
  BY DEF AllCredited, Credited, Posted
<1>3. \A s : \A p \in PostedOn(s) : Posted(p)
  BY DEF PostedOn
<1>4. \A p \in AllCredited : FillCost'[p] = FillCost[p]
  BY <1>1, <1>2, LedgerSets
<1>5. \A s : \A p \in PostedOn(s) : SignedFill'[p] = SignedFill[p]
  BY <1>1, <1>3, LedgerSets
<1>6. SumFunctionOnSet(FillCost', AllCredited) = SumFunctionOnSet(FillCost, AllCredited)
  BY <1>4, LedgerSets, SumSame
<1>7. ASSUME NEW s
      PROVE  SumFunctionOnSet(SignedFill', PostedOn(s)) = SumFunctionOnSet(SignedFill, PostedOn(s))
  BY <1>5, LedgerSets, SumSame
<1> QED
  BY <1>6, <1>7

(* A step outside apply_fill moves no submission into or out of the sums   *)
(* and changes no fill that is in them.                                    *)
LEMMA LedgerFrame ==
  ASSUME LedgerFollowsFills, position' = position, cash' = cash,
         \A p \in Orders : FillFrame(p) /\ (Credited(p)' <=> Credited(p))
  PROVE  LedgerFollowsFills'
<1>1. AllCredited' = AllCredited
  BY DEF AllCredited
<1>2. \A s : PostedOn(s)' = PostedOn(s)
  BY DEF PostedOn, FillFrame
<1>3. \A p \in Orders : Posted(p) => fills'[p] = fills[p] /\ req'[p] = req[p]
  BY DEF FillFrame
<1>4. /\ SumFunctionOnSet(FillCost', AllCredited) = SumFunctionOnSet(FillCost, AllCredited)
      /\ \A s : SumFunctionOnSet(SignedFill', PostedOn(s)) = SumFunctionOnSet(SignedFill, PostedOn(s))
  BY <1>3, SumsStay
<1> QED
  BY <1>1, <1>2, <1>4 DEF LedgerFollowsFills

(* No step counts a fill twice, drops it or counts it before it is there.  *)
LEMMA NextLedger ==
  TypeOK /\ TypeOK' /\ (\A o \in Orders : OrderInv(o)) /\ LedgerFollowsFills /\ [Next]_vars
    => LedgerFollowsFills'
<1> SUFFICES ASSUME TypeOK, TypeOK', \A o \in Orders : OrderInv(o), LedgerFollowsFills, [Next]_vars
             PROVE  LedgerFollowsFills'
  OBVIOUS
<1> USE DEF engineVars, dbVars, venueVars, flagVars
<1>1. ASSUME NEW o \in Orders, NEW r \in Requests, Submit(o, r) PROVE LedgerFollowsFills'
  <2>1. pc[o] = "idle" /\ pc'[o] \in {"idle", "validate"}
    BY <1>1 DEF Submit, OrderInv, LoopAt, TypeOK
  <2> QED
    BY <1>1, <2>1, LedgerFrame DEF Submit, FillFrame, Posted, Credited, TypeOK
<1>2. ASSUME NEW o \in Orders,
             \/ Validate(o) \/ CheckRequest(o) \/ EvaluateGate(o) \/ EvaluateRisk(o)
             \/ PersistSubmitting(o) \/ Dispatch(o) \/ DispatchMock(o)
             \/ Acknowledge(o) \/ Refuse(o)
      PROVE  LedgerFollowsFills'
  <2>1. /\ position' = position /\ cash' = cash /\ fills' = fills /\ req' = req
        /\ \A p \in Orders \ {o} : pc'[p] = pc[p]
        /\ pc[o] \in Checking \cup {"dispatch", "await"}
    <3>1. CASE Validate(o) \/ CheckRequest(o) \/ EvaluateGate(o) \/ EvaluateRisk(o)
      BY <3>1 DEF Validate, CheckRequest, EvaluateGate, EvaluateRisk, Holds, Goto, Leave, TypeOK,
      Checking
    <3>2. CASE PersistSubmitting(o) \/ Dispatch(o) \/ DispatchMock(o) \/ Acknowledge(o) \/ Refuse(o)
      BY <3>2 DEF PersistSubmitting, Dispatch, DispatchMock, Acknowledge, Refuse, Resume, InFlight,
          Holds, Goto, Leave, TypeOK, Checking
    <3> QED
      BY <1>2, <3>1, <3>2
  <2>2. ~(fills[o] > 0)
    BY <2>1 DEF OrderInv, RecordAt, VenueAt, Checking
  <2> QED
    BY <2>1, <2>2, LedgerFrame DEF FillFrame, Posted, Credited
<1>3. ASSUME NEW o \in Orders, InsertFill(o) PROVE LedgerFollowsFills'
  <2>1. /\ position' = position /\ cash' = cash /\ req' = req
        /\ \A p \in Orders \ {o} : pc'[p] = pc[p] /\ fills'[p] = fills[p]
        /\ pc[o] = "insert_fill"
        /\ pc'[o] = "apply_position" \/ (pc'[o] = "final" /\ fills'[o] = fills[o])
    BY <1>3 DEF InsertFill, Holds, Goto, TypeOK
  <2>2. ~(fills[o] > 0)
    BY <2>1 DEF OrderInv, RecordAt, VenueAt
  <2> QED
    BY <2>1, <2>2, LedgerFrame DEF FillFrame, Posted, Credited
<1>4. ASSUME NEW o \in Orders, ApplyPosition(o) PROVE LedgerFollowsFills'
  <2>1. CASE UNCHANGED <<position, mark>> /\ Leave(o, "raised")
    BY <1>4, <2>1, LedgerFrame DEF ApplyPosition, Leave, FillFrame, Posted, Credited, TypeOK
  <2>2. CASE /\ position' = [position EXCEPT ![req[o].symbol] = @ + Signed(o, fills[o])]
             /\ Goto(o, IF HasBalance THEN "apply_balance" ELSE "final")
    <3>0. /\ fills' = fills /\ req' = req /\ cash' = cash /\ pc[o] = "apply_position"
          /\ pc' = [pc EXCEPT ![o] = IF HasBalance THEN "apply_balance" ELSE "final"]
      BY <1>4, <2>2 DEF ApplyPosition, Holds, Goto
    <3>1. ~Posted(o) /\ Posted(o)' /\ fills[o] > 0
      BY <3>0 DEF Posted, OrderInv, RecordAt, VenueAt, TypeOK
    <3>2. /\ \A p \in Orders \ {o} : Posted(p)' <=> Posted(p)
          /\ \A p \in Orders : Credited(p)' <=> Credited(p)
      BY <3>0 DEF Posted, Credited, TypeOK
    <3>3. PICK s \in Symbols : s = req[o].symbol
      BY <1>4, RequestFields DEF ApplyPosition, Holds, OrderInv, LoopAt, Running
    <3>4. /\ SumFunctionOnSet(FillCost', AllCredited) = SumFunctionOnSet(FillCost, AllCredited)
          /\ \A t : SumFunctionOnSet(SignedFill', PostedOn(t)) = SumFunctionOnSet(SignedFill,
               PostedOn(t))
      BY <3>0, SumsStay
    <3>5. AllCredited' = AllCredited
      BY <3>2 DEF AllCredited
    <3>6. \A t : t # s => PostedOn(t)' = PostedOn(t)
      BY <3>0, <3>1, <3>2, <3>3 DEF PostedOn
    <3>7. PostedOn(s)' = PostedOn(s) \cup {o} /\ o \notin PostedOn(s)
      BY <3>0, <3>1, <3>2, <3>3 DEF PostedOn
    <3>8. SumFunctionOnSet(SignedFill, PostedOn(s) \cup {o})
            = SumFunctionOnSet(SignedFill, PostedOn(s)) + SignedFill[o]
      BY <3>7, LedgerSets, SignedFillType, SumAdd
    <3>9. SignedFill' = SignedFill /\ SignedFill[o] = Signed(o, fills[o])
      BY <3>0 DEF SignedFill, Signed
    <3>91. FillCost' = FillCost
      BY <3>0 DEF FillCost, Cost, Signed
    <3>10. ASSUME NEW t \in Symbols
           PROVE  position'[t] = SumFunctionOnSet(SignedFill', PostedOn(t)')
      <4>1. CASE t = s
        <5>1. position'[s] = position[s] + Signed(o, fills[o])
          BY <2>2, <3>3 DEF TypeOK
        <5>2. position[s] = SumFunctionOnSet(SignedFill, PostedOn(s))
          BY <3>3 DEF LedgerFollowsFills
        <5> QED
          BY <4>1, <5>1, <5>2, <3>7, <3>8, <3>9
      <4>2. CASE t # s
        <5>1. position'[t] = position[t]
          BY <2>2, <3>3, <4>2 DEF TypeOK
        <5> QED
          BY <4>2, <5>1, <3>6, <3>9 DEF LedgerFollowsFills
      <4> QED
        BY <4>1, <4>2
    <3> QED
      BY <3>0, <3>5, <3>91, <3>10 DEF LedgerFollowsFills
  <2> QED
    BY <1>4, <2>1, <2>2 DEF ApplyPosition
<1>5. ASSUME NEW o \in Orders, ApplyBalance(o) PROVE LedgerFollowsFills'
  <2>1. CASE cash' = cash /\ Leave(o, "raised")
    BY <1>5, <2>1, LedgerFrame DEF ApplyBalance, Leave, FillFrame, Posted, Credited, TypeOK
  <2>2. CASE cash' = cash - Cost(o) /\ Goto(o, "final")
    <3>0. /\ fills' = fills /\ req' = req /\ position' = position /\ pc[o] = "apply_balance"
          /\ pc' = [pc EXCEPT ![o] = "final"]
      BY <1>5, <2>2 DEF ApplyBalance, Holds, Goto
    <3>1. ~Credited(o) /\ Credited(o)'
      BY <3>0 DEF Credited, OrderInv, RecordAt, VenueAt, TypeOK
    <3>2. /\ \A p \in Orders \ {o} : Credited(p)' <=> Credited(p)
          /\ \A p \in Orders : Posted(p)' <=> Posted(p)
      BY <3>0 DEF Posted, Credited, TypeOK
    <3>3. SignedFill' = SignedFill /\ FillCost' = FillCost /\ FillCost[o] = Cost(o)
      BY <3>0 DEF SignedFill, FillCost, Cost, Signed
    <3>4. \A t : PostedOn(t)' = PostedOn(t)
      BY <3>0, <3>2 DEF PostedOn
    <3>5. AllCredited' = AllCredited \cup {o} /\ o \notin AllCredited
      BY <3>1, <3>2 DEF AllCredited
    <3>60. \A p \in AllCredited \cup {o} : FillCost[p] \in Int
      <4>1. task[o] = "running"
        BY <1>5 DEF ApplyBalance, Holds, Running
      <4>2. \A p \in AllCredited : p \in Orders /\ Credited(p)
        BY DEF AllCredited
      <4> QED
        BY <4>1, <4>2, FillCostType
    <3>6. SumFunctionOnSet(FillCost, AllCredited \cup {o})
            = SumFunctionOnSet(FillCost, AllCredited) + FillCost[o]
      BY <3>5, <3>60, LedgerSets, SumAdd
    <3>7. SumFunctionOnSet(FillCost, AllCredited) \in Int /\ FillCost[o] \in Int
      BY <3>60, LedgerSets, SumOfOneMore
    <3>8. cash' = Cash0 - SumFunctionOnSet(FillCost', AllCredited')
      BY <2>2, <3>3, <3>5, <3>6, <3>7 DEF LedgerFollowsFills
    <3> QED
      BY <3>0, <3>3, <3>4, <3>8 DEF LedgerFollowsFills
  <2> QED
    BY <1>5, <2>1, <2>2 DEF ApplyBalance
<1>6. ASSUME NEW o \in Orders, FinalUpdate(o) PROVE LedgerFollowsFills'
  BY <1>6, LedgerFrame DEF FinalUpdate, Holds, Leave, FillFrame, Posted, Credited, TypeOK
<1>7. ASSUME NEW o \in Orders, VenueDecides(o) \/ VenueExecutes(o) PROVE LedgerFollowsFills'
  BY <1>7, LedgerFrame DEF VenueDecides, VenueExecutes, FillFrame, Posted, Credited
<1>71. ASSUME NEW s \in Symbols, NEW x \in 1..MaxPrice, MarkToMarket(s, x)
       PROVE  LedgerFollowsFills'
  BY <1>71, LedgerFrame DEF MarkToMarket, FillFrame, Posted, Credited
<1>8. CASE TriggerStop \/ ResetStop \/ SetReconciliationBlocked \/ CooldownExpires \/ Crash
  BY <1>8, LedgerFrame DEF TriggerStop, ResetStop, SetReconciliationBlocked, CooldownExpires,
      Crash, FillFrame, Posted, Credited
<1>9. CASE UNCHANGED vars
  BY <1>9, LedgerFrame DEF vars, FillFrame, Posted, Credited
<1> QED
  BY <1>1, <1>2, <1>3, <1>4, <1>5, <1>6, <1>7, <1>71, <1>8, <1>9 DEF Next, Step

-----------------------------------------------------------------------------
(* The inductive invariant and what follows from it.                       *)

(* The invariant holds of a process with empty tables. *)
LEMMA InitInvariant == Init => IInv
<1> SUFFICES ASSUME Init PROVE IInv
  OBVIOUS
<1>1. TypeOK
  BY InitType
<1>2. ASSUME NEW o \in Orders PROVE OrderInv(o)
  BY DEF Init, OrderInv, RecordAt, RowAt, VenueAt, LoopAt, Running, NoRecord,
         Checking, Exchanging, Ended
<1>3. StopFlags
  BY DEF Init, StopFlags
<1>4. LimitsReserved
  <2>1. Active = {}
    BY DEF Init, Active
  <2> QED
    BY <2>1, FS_EmptySet DEF Init, LimitsReserved, PositionsWithinLimit, Pending, Running
<1>5. LedgerFollowsFills
  <2>1. AllCredited = {} /\ \A s \in Symbols : PostedOn(s) = {}
    BY DEF Init, AllCredited, PostedOn, Credited, Posted
  <2>2. SumFunctionOnSet(SignedFill, {}) = 0 /\ SumFunctionOnSet(FillCost, {}) = 0
    BY SumOfNone
  <2> QED
    BY <2>1, <2>2 DEF Init, LedgerFollowsFills
<1> QED
  BY <1>1, <1>2, <1>3, <1>4, <1>5 DEF IInv, OrderInv

(* Every step of a submission, and of what surrounds it, keeps the         *)
(* invariant.                                                              *)
LEMMA NextInvariant == IInv /\ [Next]_vars => IInv'
<1> SUFFICES ASSUME IInv, [Next]_vars PROVE IInv'
  OBVIOUS
<1>1. TypeOK /\ StopFlags /\ LimitsReserved /\ LedgerFollowsFills /\ \A o \in Orders : OrderInv(o)
  BY DEF IInv, OrderInv
<1>2. TypeOK'
  BY <1>1, NextType
<1>3. StopFlags'
  BY <1>1, NextStopFlags
<1>4. LimitsReserved'
  BY <1>1, <1>2, NextLimits
<1>5. ASSUME NEW p \in Orders PROVE OrderInv(p)'
  <2>1. ASSUME NEW o \in Orders, Step(o) \/ \E r \in Requests : Submit(o, r)
        PROVE  OrderInv(p)'
    <3>1. CASE p = o
      BY <1>1, <2>1, <3>1, OwnStep
    <3>2. CASE p # o
      BY <1>1, <2>1, <3>2, StepFrame, FrameKeeps
    <3> QED
      BY <3>1, <3>2
  <2> QED
    BY <1>1, <2>1, OutsideStep DEF Next
<1>6. LedgerFollowsFills'
  BY <1>1, <1>2, NextLedger
<1> QED
  BY <1>2, <1>3, <1>4, <1>5, <1>6 DEF IInv, OrderInv

(* IInv is inductive: it holds whatever the interleaving of the            *)
(* submissions, whichever write fails and wherever the process dies.       *)
THEOREM Invariant == Spec => []IInv
BY InitInvariant, NextInvariant, PTL DEF Spec

(* Every variable keeps its declared type: the types of the model are      *)
(* those of the code's records, tables and flags.                          *)
THEOREM TypeCorrect == Spec => []TypeOK
<1>1. IInv => TypeOK
  BY DEF IInv
<1> QED
  BY <1>1, Invariant, PTL

(* Whatever the sandbox may know of is in paper_orders already, for any    *)
(* number of orders (the UPDATE before the adapter call).                  *)
THEOREM WriteAheadHolds == Spec => []WriteAhead
<1>1. IInv => WriteAhead
  <2> SUFFICES ASSUME IInv, NEW o \in Orders, venue[o] # "none"
               PROVE  row[o].gate /\ row[o].status \notin {"ABSENT", "CREATED"}
    BY DEF WriteAhead
  <2>1. pc[o] \in Exchanging \cup Ended /\ mem[o].gate
    BY DEF IInv, TypeOK, PC, VenueAt, Checking, Exchanging, Ended
  <2>2. CASE row[o] = SentRow
    BY <2>2 DEF SentRow
  <2>3. CASE row[o] = mem[o] /\ pc[o] = "done"
    BY <2>1, <2>3 DEF IInv, RecordAt, Ended
  <2> QED
    BY <2>1, <2>2, <2>3 DEF IInv, RowAt, Exchanging, Ended
<1> QED
  BY <1>1, Invariant, PTL

(* No acknowledgement or fill is recorded that the sandbox did not make    *)
(* (the prohibition at the head of paper_engine.py).                       *)
THEOREM NoSyntheticFillHolds == Spec => []NoSyntheticFill
<1>1. IInv => NoSyntheticFill
  <2> SUFFICES ASSUME IInv, NEW o \in Orders
               PROVE  /\ mem[o].exch \/ row[o].exch \/ row[o].status \in {"ACKNOWLEDGED", "FILLED"}
                           => venue[o] = "booked"
                      /\ fills[o] > 0 => vfill[o] > 0
                      /\ row[o].filled <= fills[o]
    BY DEF NoSyntheticFill
  <2>1. row[o] \in {NoRecord, CreatedRow, SentRow} \/ row[o] = mem[o]
    BY DEF IInv, TypeOK, PC, RowAt, Checking, Exchanging, Ended
  <2>2. /\ mem[o].exch \/ mem[o].status \in {"ACKNOWLEDGED", "FILLED"} => venue[o] = "booked"
        /\ mem[o].filled = fills[o] /\ (fills[o] > 0 => vfill[o] > 0)
        /\ fills[o] \in Nat /\ vfill[o] \in Nat
    BY DEF IInv, TypeOK, VenueAt
  <2>3. CASE row[o] \in {NoRecord, CreatedRow, SentRow}
    BY <2>2, <2>3 DEF NoRecord, CreatedRow, SentRow
  <2>4. CASE row[o] = mem[o]
    BY <2>2, <2>4
  <2> QED
    BY <2>1, <2>3, <2>4
<1> QED
  BY <1>1, Invariant, PTL

(* A submission that returned has told paper_orders the truth, and a row   *)
(* in a passing status belongs to one that did not.                        *)
THEOREM RowsSettleHolds == Spec => []RowsSettle
<1>1. IInv => RowsSettle
  <2> SUFFICES ASSUME IInv, NEW o \in Orders
               PROVE  /\ task[o] = "returned" =>
                           /\ row[o] = mem[o]
                           /\ row[o].filled = fills[o]
                           /\ row[o].status = "FILLED" <=> fills[o] > 0
                      /\ row[o].status \in {"CREATED", "SUBMITTING"} =>
                           task[o] \in {"running", "raised", "crashed"}
    BY DEF RowsSettle
  <2>1. task[o] = "returned" => row[o] = mem[o] /\ pc[o] = "done"
    BY DEF IInv, RowAt, LoopAt
  <2>2. mem[o].filled = fills[o] /\ (mem[o].status = "FILLED" <=> fills[o] > 0)
    BY DEF IInv, VenueAt
  <2>3. task[o] = "none" => row[o].status = "ABSENT"
    BY DEF IInv, LoopAt, RowAt, NoRecord
  <2>4. task[o] = "returned" => row[o].status \notin {"CREATED", "SUBMITTING"}
    BY <2>1 DEF IInv, RecordAt, Ended
  <2> QED
    BY <2>1, <2>2, <2>3, <2>4 DEF IInv, TypeOK
<1> QED
  BY <1>1, Invariant, PTL

(* Positions and cash are the sums of the recorded fills that the ledger   *)
(* statements reached: no fill is counted twice, none on the wrong symbol, *)
(* none before it is recorded, whichever statement fails or crash comes    *)
(* (PortfolioEngine.apply_fill, for any number of orders and symbols).     *)
THEOREM LedgerHolds == Spec => []LedgerFollowsFills
<1>1. IInv => LedgerFollowsFills
  BY DEF IInv
<1> QED
  BY <1>1, Invariant, PTL

(* When a fill is booked, the number of positions stays within its limit,  *)
(* and so does the exposure unless the position is valued higher than the  *)
(* risk check estimated: no step between the check and the upsert takes    *)
(* the room the check found (submit_paper_order does not suspend there).   *)
THEOREM FillKeepsLimitsHolds == Spec => FillKeepsLimits
<1> DEFINE Kept == \A s \in Symbols : position'[s] # position[s] =>
                     /\ PositionsWithinLimit'
                     /\ mark'[s] <= Estimate(req[loop]) => Exposure' <= MaxExposure
<1>1. ASSUME IInv, IInv', Next PROVE Kept
  <2> USE DEF venueVars, engineVars, dbVars, flagVars
  <2>0. TypeOK /\ TypeOK' /\ LimitsReserved /\ PositionsWithinLimit'
        /\ \A o \in Orders : OrderInv(o)
    BY <1>1 DEF IInv, LimitsReserved, OrderInv
  <2>1. ASSUME NEW o \in Orders, ApplyPosition(o), NEW s \in Symbols,
               position'[s] # position[s], mark'[s] <= Estimate(req[o])
        PROVE  Exposure' <= MaxExposure
    <3> DEFINE r == req[o]
    <3>1. /\ loop = o /\ Running(o) /\ pc[o] = "apply_position"
          /\ position' = [position EXCEPT ![r.symbol] = @ + Signed(o, fills[o])]
          /\ mark' = [mark EXCEPT ![r.symbol] = IF @ = 0 THEN FillPrice(r) ELSE @]
      BY <2>1 DEF ApplyPosition, Holds
    <3>2. r \in Requests /\ r.venue = "mock" /\ mem[o].status = "FILLED"
      BY <2>0, <3>1 DEF OrderInv, LoopAt, VenueAt, RecordAt, Running
    <3>3. Pending(o)
      BY <3>1, <3>2 DEF Pending
    <3>4. s = r.symbol
      BY <2>0, <2>1, <3>1 DEF TypeOK
    <3>5. /\ Estimate(r) # None /\ Exposure + Notional(r) <= MaxExposure
          /\ mark[s] = 0 => position[s] = 0
      BY <2>0, <3>3 DEF LimitsReserved
    <3>6. /\ Estimate(r) \in Int /\ Notional(r) \in Int /\ r.qty \in Nat
          /\ Notional(r) = r.qty * Estimate(r)
      BY <3>2, <3>5, RequestFields DEF Notional
    <3>7. fills[o] \in Nat /\ fills[o] <= r.qty
      BY <2>0, <3>2 DEF OrderInv, VenueAt, TypeOK
    <3>8. Signed(o, fills[o]) \in Int /\ Abs(Signed(o, fills[o])) <= r.qty
      BY <3>6, <3>7 DEF Signed, Abs
    <3>9. /\ \A t \in Symbols \ {s} : mark'[t] = mark[t]
          /\ mark[s] # 0 => mark'[s] = mark[s]
      BY <2>0, <3>1, <3>4 DEF TypeOK
    <3>10. Exposure' <= Exposure + r.qty * Estimate(r)
      <4> HIDE DEF r
      <4> QED
        BY <2>0, <2>1, <3>1, <3>4, <3>5, <3>6, <3>8, <3>9, ExposureGrows DEF r
    <3>11. Exposure \in Int /\ Exposure' \in Int
      <4>1. (TypeOK => Exposure \in Int) /\ (TypeOK => Exposure \in Int)'
        BY ExposureType, PTL
      <4> QED
        BY <2>0, <4>1
    <3>12. MaxExposure \in Int
      OBVIOUS
    <3>13. \A i, j, k, m \in Int : i <= j + k /\ j + k <= m => i <= m
      OBVIOUS
    <3> QED
      BY <3>5, <3>6, <3>10, <3>11, <3>12, <3>13
  <2>2. ASSUME NEW o \in Orders, ApplyPosition(o) PROVE Kept
    <3>1. loop = o
      BY <2>2 DEF ApplyPosition, Holds
    <3> QED
      BY <2>0, <2>1, <2>2, <3>1
  <2>3. ASSUME NEW o \in Orders,
               \/ \E r \in Requests : Submit(o, r)
               \/ Validate(o) \/ CheckRequest(o) \/ EvaluateGate(o) \/ EvaluateRisk(o)
               \/ PersistSubmitting(o) \/ Dispatch(o) \/ DispatchMock(o) \/ Acknowledge(o)
               \/ Refuse(o) \/ InsertFill(o) \/ ApplyBalance(o) \/ FinalUpdate(o)
               \/ VenueDecides(o) \/ VenueExecutes(o)
        PROVE  position' = position
    BY <2>3 DEF Submit, Validate, CheckRequest, EvaluateGate, EvaluateRisk, PersistSubmitting,
        Dispatch, DispatchMock, Acknowledge, Refuse, Resume, InsertFill, ApplyBalance,
        FinalUpdate, VenueDecides, VenueExecutes
  <2>4. ASSUME \/ \E s \in Symbols : \E x \in 1..MaxPrice : MarkToMarket(s, x)
               \/ TriggerStop \/ ResetStop \/ SetReconciliationBlocked \/ CooldownExpires \/ Crash
        PROVE  position' = position
    BY <2>4 DEF MarkToMarket, TriggerStop, ResetStop, SetReconciliationBlocked, CooldownExpires,
        Crash
  <2>5. position' = position => Kept
    OBVIOUS
  <2> HIDE DEF Kept
  <2> QED
    BY <1>1, <2>2, <2>3, <2>4, <2>5 DEF Next, Step
<1>2. IInv /\ IInv' /\ [Next]_vars => [Kept]_vars
  <2> HIDE DEF Kept
  <2> QED
    BY <1>1
<1> QED
  BY <1>2, Invariant, PTL DEF Spec, FillKeepsLimits

(* While the operator's stop or a reconciliation's block stands, no order  *)
(* leaves for a venue.                                                     *)
THEOREM StopHoldsAlways == Spec => StopHolds
<1>1. ASSUME IInv, Next,
             NEW o \in Orders, venue[o] = "none", venue'[o] # "none"
      PROVE  stopOrder # "stop" /\ ~reconBlocked
  <2> USE DEF venueVars, engineVars, dbVars, flagVars
  <2>1. ASSUME NEW p \in Orders, Dispatch(p) \/ DispatchMock(p)
        PROVE  stopOrder # "stop" /\ ~reconBlocked
    <3>1. p = o
      BY <1>1, <2>1 DEF Dispatch, DispatchMock, IInv, TypeOK
    <3> QED
      BY <1>1, <2>1, <3>1 DEF Dispatch, DispatchMock, Holds, IInv, LoopAt
  <2>2. ASSUME NEW p \in Orders, VenueDecides(p) PROVE FALSE
    BY <1>1, <2>2 DEF VenueDecides, IInv, TypeOK
  <2>3. ASSUME NEW p \in Orders,
               \/ \E r \in Requests : Submit(p, r)
               \/ Validate(p) \/ CheckRequest(p) \/ EvaluateGate(p) \/ EvaluateRisk(p)
               \/ PersistSubmitting(p) \/ Acknowledge(p) \/ Refuse(p) \/ InsertFill(p)
               \/ ApplyPosition(p) \/ ApplyBalance(p) \/ FinalUpdate(p) \/ VenueExecutes(p)
        PROVE  venue' = venue
    BY <2>3 DEF Submit, Validate, CheckRequest, EvaluateGate, EvaluateRisk, PersistSubmitting,
        Acknowledge, Refuse, Resume, InsertFill, ApplyPosition, ApplyBalance, FinalUpdate,
        VenueExecutes
  <2>4. ASSUME \/ \E s \in Symbols : \E x \in 1..MaxPrice : MarkToMarket(s, x)
               \/ TriggerStop \/ ResetStop \/ SetReconciliationBlocked \/ CooldownExpires \/ Crash
        PROVE  venue' = venue
    BY <2>4 DEF MarkToMarket, TriggerStop, ResetStop, SetReconciliationBlocked, CooldownExpires,
        Crash
  <2> QED
    BY <1>1, <2>1, <2>2, <2>3, <2>4 DEF Next, Step
<1>2. IInv /\ [Next]_vars =>
        [\A o \in Orders :
           venue[o] = "none" /\ venue'[o] # "none" => stopOrder # "stop" /\ ~reconBlocked]_vars
  BY <1>1
<1> QED
  BY <1>2, Invariant, PTL DEF Spec, StopHolds

-----------------------------------------------------------------------------
(* The refinement of OrderLifecycle.                                       *)

(* The record statuses of the submissions, as OrderLifecycle sees them. *)
StatusOf == [o \in Orders |-> mem[o].status]

(* A step that writes one record's status moves the abstract status at     *)
(* that order alone.                                                       *)
LEMMA OneStatusMoves ==
  ASSUME TypeOK, NEW o \in Orders, NEW s,
         \/ SetStatus(o, s)
         \/ \E e : mem' = [mem EXCEPT ![o].status = s, ![o].exch = e]
         \/ \E q : mem' = [mem EXCEPT ![o].status = s, ![o].filled = q]
  PROVE  StatusOf' = [StatusOf EXCEPT ![o] = s]
<1>1. \A p \in Orders : mem'[p].status = IF p = o THEN s ELSE mem[p].status
  BY DEF TypeOK, SetStatus, Record
<1> QED
  BY <1>1 DEF StatusOf

(* Every legal move is a step of the abstract specification. *)
LEMMA LegalMove ==
  ASSUME TypeOK, NEW o \in Orders, NEW s,
         StatusOf' = [StatusOf EXCEPT ![o] = s],
         \/ mem[o].status = "ABSENT" /\ s = "CREATED"
         \/ mem[o].status = "CREATED" /\ s = "VALIDATING"
         \/ mem[o].status = "VALIDATING" /\ s \in {"SAFETY_CHECK", "REJECTED"}
         \/ mem[o].status = "SAFETY_CHECK" /\ s \in {"SUBMITTING", "REJECTED"}
         \/ mem[o].status = "SUBMITTING"
              /\ s \in {"ACKNOWLEDGED", "SUBMISSION_UNCONFIRMED", "REJECTED", "ERROR"}
         \/ mem[o].status = "ACKNOWLEDGED" /\ s \in {"FILLED", "ERROR"}
  PROVE  Lifecycle!Next
<1>1. StatusOf[o] = mem[o].status
  BY DEF StatusOf
<1>2. CASE mem[o].status = "ABSENT" /\ s = "CREATED"
  <2>1. Lifecycle!Create(o)
    BY <1>1, <1>2 DEF Lifecycle!Create, StatusOf
  <2> QED
    BY <2>1 DEF Lifecycle!Next
<1>3. CASE mem[o].status # "ABSENT"
  <2>1. mem[o].status \in Lifecycle!OrderStatus /\ s \in Lifecycle!OrderStatus
    BY <1>3 DEF TypeOK, Record, Status, Lifecycle!OrderStatus
  <2>2. s \in Lifecycle!LegalTransitions[mem[o].status]
    BY <1>3, <2>1 DEF Lifecycle!LegalTransitions
  <2>3. Lifecycle!Transition(o, s)
    BY <1>1, <2>1, <2>2 DEF Lifecycle!Transition, StatusOf
  <2> QED
    BY <2>1, <2>3 DEF Lifecycle!Next
<1> QED
  BY <1>2, <1>3

(* Every submission moves its record along LEGAL_TRANSITIONS, one edge at  *)
(* a time: PaperExecution implements OrderLifecycle.                       *)
THEOREM Refinement == Spec => FollowsLifecycle
<1>1. Init => Lifecycle!Init
  BY DEF Init, Lifecycle!Init, NoRecord
<1>2. IInv /\ [Next]_vars => [Lifecycle!Next]_StatusOf
  <2> SUFFICES ASSUME IInv, [Next]_vars PROVE Lifecycle!Next \/ StatusOf' = StatusOf
    OBVIOUS
  <2> USE DEF engineVars, dbVars, venueVars, flagVars
  <2>0. TypeOK /\ \A o \in Orders : RecordAt(o) /\ LoopAt(o)
    BY DEF IInv
  <2>1. ASSUME NEW o \in Orders, NEW r \in Requests, Submit(o, r) PROVE Lifecycle!Next
    BY <2>0, <2>1, OneStatusMoves, LegalMove DEF Submit, LoopAt
  <2>2. ASSUME NEW o \in Orders, Validate(o) \/ CheckRequest(o) PROVE Lifecycle!Next
    BY <2>0, <2>2, OneStatusMoves, LegalMove DEF Validate, CheckRequest, Holds, RecordAt
  <2>3. ASSUME NEW o \in Orders, EvaluateGate(o) \/ EvaluateRisk(o)
        PROVE  Lifecycle!Next \/ StatusOf' = StatusOf
    <3>1. CASE mem' = [mem EXCEPT ![o].gate = TRUE] \/ mem' = mem
      <4>1. ASSUME NEW p \in Orders PROVE mem'[p].status = mem[p].status
        <5>1. mem \in [Orders -> Record]
          BY <2>0 DEF TypeOK
        <5>2. \A r \in Record : [r EXCEPT !.gate = TRUE].status = r.status
          BY DEF Record
        <5> QED
          BY <3>1, <5>1, <5>2
      <4> QED
        BY <4>1 DEF StatusOf
    <3>2. CASE SetStatus(o, "REJECTED") \/ SetStatus(o, "SUBMITTING")
      BY <2>0, <2>3, <3>2, OneStatusMoves, LegalMove DEF EvaluateGate, EvaluateRisk, Holds, RecordAt
    <3> QED
      BY <2>3, <3>1, <3>2 DEF EvaluateGate, EvaluateRisk
  <2>4. ASSUME NEW o \in Orders, Dispatch(o) PROVE Lifecycle!Next \/ StatusOf' = StatusOf
    <3>1. CASE SetStatus(o, "ERROR")
      BY <2>0, <2>4, <3>1, OneStatusMoves, LegalMove DEF Dispatch, Holds, RecordAt
    <3>2. CASE mem' = mem
      BY <3>2 DEF StatusOf
    <3> QED
      BY <2>4, <3>1, <3>2 DEF Dispatch
  <2>41. ASSUME NEW o \in Orders, DispatchMock(o) PROVE Lifecycle!Next
    <3>1. StatusOf' = [StatusOf EXCEPT ![o] = "ACKNOWLEDGED"]
      BY <2>0, <2>41, OneStatusMoves DEF DispatchMock
    <3>2. mem[o].status = "SUBMITTING"
      BY <2>0, <2>41 DEF DispatchMock, Holds, RecordAt
    <3> QED
      BY <2>0, <3>1, <3>2, LegalMove
  <2>5. ASSUME NEW o \in Orders, Acknowledge(o) \/ Refuse(o) PROVE Lifecycle!Next
    <3>1. ASSUME NEW s \in {"ACKNOWLEDGED", "SUBMISSION_UNCONFIRMED", "REJECTED"}, Resume(o, s)
          PROVE  Lifecycle!Next
      <4>1. StatusOf' = [StatusOf EXCEPT ![o] = s]
        BY <2>0, <3>1, OneStatusMoves DEF Resume
      <4>2. mem[o].status = "SUBMITTING"
        BY <2>0, <3>1 DEF Resume, InFlight, RecordAt
      <4> QED
        BY <2>0, <4>1, <4>2, LegalMove
    <3> QED
      BY <2>5, <3>1 DEF Acknowledge, Refuse
  <2>6. ASSUME NEW o \in Orders, InsertFill(o) PROVE Lifecycle!Next
    <3>1. mem[o].status = "ACKNOWLEDGED"
      BY <2>0, <2>6 DEF InsertFill, Holds, RecordAt
    <3>2. CASE SetStatus(o, "ERROR")
      BY <2>0, <3>1, <3>2, OneStatusMoves, LegalMove
    <3>3. CASE mem' = [mem EXCEPT ![o].status = "FILLED", ![o].filled = vfill[o]]
      <4>1. StatusOf' = [StatusOf EXCEPT ![o] = "FILLED"]
        BY <2>0, <3>3, OneStatusMoves
      <4> QED
        BY <2>0, <3>1, <4>1, LegalMove
    <3> QED
      BY <2>6, <3>2, <3>3 DEF InsertFill
  <2>7. ASSUME NEW o \in Orders,
               \/ PersistSubmitting(o) \/ ApplyPosition(o) \/ ApplyBalance(o) \/ FinalUpdate(o)
               \/ VenueDecides(o) \/ VenueExecutes(o)
        PROVE  StatusOf' = StatusOf
    BY <2>7 DEF PersistSubmitting, ApplyPosition, ApplyBalance, FinalUpdate, VenueDecides,
        VenueExecutes, StatusOf
  <2>71. ASSUME NEW s \in Symbols, NEW x \in 1..MaxPrice, MarkToMarket(s, x)
         PROVE  StatusOf' = StatusOf
    BY <2>71 DEF MarkToMarket, StatusOf
  <2>8. CASE \/ TriggerStop \/ ResetStop \/ SetReconciliationBlocked \/ CooldownExpires
             \/ Crash \/ UNCHANGED vars
    BY <2>8 DEF TriggerStop, ResetStop, SetReconciliationBlocked, CooldownExpires, Crash, vars,
        StatusOf
  <2> QED
    BY <2>1, <2>2, <2>3, <2>4, <2>41, <2>5, <2>6, <2>7, <2>71, <2>8 DEF Next, Step
<1>3. StatusOf = [o \in Orders |-> mem[o].status]
  BY DEF StatusOf
<1> QED
  BY <1>1, <1>2, Invariant, PTL DEF Spec, FollowsLifecycle, Lifecycle!Spec, StatusOf

(* The paper_orders row only moves forward in the transition graph, and    *)
(* its gate mark, venue id and filled quantity are never taken back.       *)
THEOREM RowsMoveForwardHolds == Spec => RowsMoveForward
<1> DEFINE one == Lifecycle!LegalTransitions
           grow(T) == T \cup UNION {one[t] : t \in T}
<1>1. /\ {"VALIDATING", "REJECTED", "ERROR"} \subseteq one["CREATED"]
      /\ "SAFETY_CHECK" \in one["VALIDATING"] /\ "SUBMITTING" \in one["SAFETY_CHECK"]
      /\ {"SUBMISSION_UNCONFIRMED", "ACKNOWLEDGED", "REJECTED", "ERROR"} \subseteq one["SUBMITTING"]
      /\ "FILLED" \in one["ACKNOWLEDGED"]
  BY DEF Lifecycle!LegalTransitions, Lifecycle!OrderStatus
<1>2. \A T : T \subseteq grow(T)
  OBVIOUS
<1>3. \A T, t : t \in T => one[t] \subseteq grow(T)
  OBVIOUS
<1>4. \A s \in Lifecycle!OrderStatus :
        Reachable[s] = grow(grow(grow(grow(grow(grow(one[s]))))))
  BY DEF Reachable
<1>5. {"REJECTED", "SUBMITTING"} \subseteq Reachable["CREATED"]
  <2> HIDE DEF one, grow
  <2>1. "SAFETY_CHECK" \in grow(one["CREATED"])
    BY <1>1, <1>3
  <2>2. "SUBMITTING" \in grow(grow(one["CREATED"]))
    BY <1>1, <1>3, <2>1
  <2>3. "REJECTED" \in grow(grow(one["CREATED"]))
    BY <1>1, <1>2
  <2>4. {"REJECTED", "SUBMITTING"} \subseteq grow(grow(grow(grow(one["CREATED"]))))
    BY <1>2, <2>2, <2>3
  <2>5. {"REJECTED", "SUBMITTING"} \subseteq grow(grow(grow(grow(grow(grow(one["CREATED"]))))))
    BY <1>2, <2>4
  <2> QED
    BY <1>4, <2>5 DEF Lifecycle!OrderStatus
<1>6. {"SUBMISSION_UNCONFIRMED", "ACKNOWLEDGED", "REJECTED", "ERROR", "FILLED"}
        \subseteq Reachable["SUBMITTING"]
  <2> HIDE DEF one, grow
  <2>1. "FILLED" \in grow(one["SUBMITTING"])
    BY <1>1, <1>3
  <2>2. {"SUBMISSION_UNCONFIRMED", "ACKNOWLEDGED", "REJECTED", "ERROR", "FILLED"}
          \subseteq grow(one["SUBMITTING"])
    BY <1>1, <1>2, <2>1
  <2>3. grow(one["SUBMITTING"]) \subseteq grow(grow(grow(grow(one["SUBMITTING"]))))
    BY <1>2
  <2>4. grow(one["SUBMITTING"]) \subseteq grow(grow(grow(grow(grow(grow(one["SUBMITTING"]))))))
    BY <1>2, <2>3
  <2> QED
    BY <1>4, <2>2, <2>4 DEF Lifecycle!OrderStatus
<1> HIDE DEF one, grow
<1> DEFINE Forward(o) ==
             row'[o] # row[o] /\ row[o].status # "ABSENT" =>
               /\ row'[o].status \in Reachable[row[o].status]
               /\ row[o].gate => row'[o].gate
               /\ row[o].exch => row'[o].exch
               /\ row'[o].filled >= row[o].filled
<1>7. ASSUME IInv, Next, NEW o \in Orders PROVE Forward(o)
  <2> USE DEF engineVars, dbVars, venueVars, flagVars
  <2>1. ASSUME NEW p \in Orders,
               PersistSubmitting(p) \/ FinalUpdate(p) \/ \E r \in Requests : Submit(p, r),
               p # o
        PROVE  Forward(o)
    BY <1>7, <2>1 DEF PersistSubmitting, FinalUpdate, UpdateRow, Submit, IInv, TypeOK
  <2>2. ASSUME NEW r \in Requests, Submit(o, r) PROVE Forward(o)
    BY <1>7, <2>2 DEF Submit, IInv, RowAt, LoopAt, NoRecord
  <2>3. ASSUME PersistSubmitting(o) PROVE Forward(o)
    <3>1. pc[o] = "persist" /\ row[o] = CreatedRow /\ mem[o].status = "SUBMITTING" /\ mem[o].gate
      BY <1>7, <2>3 DEF PersistSubmitting, Holds, IInv, RowAt, RecordAt, Checking
    <3>2. mem[o].filled \in Nat
      BY <1>7 DEF IInv, TypeOK, Record
    <3>3. row' = row \/ row'[o] = mem[o]
      BY <1>7, <2>3 DEF PersistSubmitting, UpdateRow, IInv, TypeOK
    <3> QED
      BY <1>5, <3>1, <3>2, <3>3 DEF CreatedRow
  <2>4. ASSUME FinalUpdate(o) PROVE Forward(o)
    <3>1. pc[o] = "final" /\ mem[o].filled \in Nat
      BY <1>7, <2>4 DEF FinalUpdate, Holds, IInv, TypeOK, Record
    <3>2. row' = row \/ row'[o] = mem[o]
      BY <1>7, <2>4 DEF FinalUpdate, UpdateRow, IInv, TypeOK
    <3>3. CASE row[o] = CreatedRow /\ mem[o].status = "REJECTED"
      BY <1>5, <3>1, <3>2, <3>3 DEF CreatedRow
    <3>4. CASE row[o] = SentRow /\ mem[o].gate
      <4>1. mem[o].status \in {"SUBMISSION_UNCONFIRMED", "ACKNOWLEDGED", "REJECTED", "ERROR", "FILLED"}
        BY <1>7, <3>1 DEF IInv, RecordAt, Ended
      <4> QED
        BY <1>6, <3>1, <3>2, <3>4, <4>1 DEF SentRow
    <3> QED
      BY <1>7, <3>1, <3>3, <3>4 DEF IInv, RowAt
  <2>5. ASSUME NEW p \in Orders,
               \/ Validate(p) \/ CheckRequest(p) \/ EvaluateGate(p) \/ EvaluateRisk(p)
               \/ Dispatch(p) \/ DispatchMock(p) \/ Acknowledge(p) \/ Refuse(p) \/ InsertFill(p)
               \/ ApplyPosition(p) \/ ApplyBalance(p) \/ VenueDecides(p) \/ VenueExecutes(p)
        PROVE  row' = row
    BY <2>5 DEF Validate, CheckRequest, EvaluateGate, EvaluateRisk, Dispatch, DispatchMock,
        Acknowledge, Refuse, Resume, InsertFill, ApplyPosition, ApplyBalance, VenueDecides,
        VenueExecutes
  <2>6. ASSUME \/ \E s \in Symbols : \E x \in 1..MaxPrice : MarkToMarket(s, x)
               \/ TriggerStop \/ ResetStop \/ SetReconciliationBlocked \/ CooldownExpires \/ Crash
        PROVE  row' = row
    BY <2>6 DEF MarkToMarket, TriggerStop, ResetStop, SetReconciliationBlocked, CooldownExpires, Crash
  <2> QED
    BY <1>7, <2>1, <2>2, <2>3, <2>4, <2>5, <2>6 DEF Next, Step
<1>8. IInv /\ [Next]_vars => [\A o \in Orders : Forward(o)]_vars
  <2> HIDE DEF Forward
  <2> QED
    BY <1>7
<1> QED
  BY <1>8, Invariant, PTL DEF Spec, RowsMoveForward
=============================================================================
