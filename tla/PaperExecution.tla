--------------------------- MODULE PaperExecution ---------------------------
(***************************************************************************)
(* The submission of paper orders: PaperOrderEngine.submit_paper_order     *)
(* with the safety gate, the risk engine, the ledger and the SQLite rows   *)
(* it writes, for several orders at once.                                  *)
(*                                                                         *)
(* Each submission is a coroutine of one asyncio loop.  It runs without    *)
(* interruption except at its only await, the HTTP request to the sandbox; *)
(* `loop' names the coroutine that holds the loop.  Every SQL statement is *)
(* a transaction of its own (DatabaseEngine.execute_non_query commits), so *)
(* every statement is an action here: it commits, or it raises, and the    *)
(* process may die between any two of them.  A restart finds the tables    *)
(* and nothing else.                                                       *)
(*                                                                         *)
(* Two kinds of adapter answer.  Of those of the sandboxes, Coinbase's     *)
(* sends what is not a LIMIT order (a LIMIT, and with Alpaca every order,  *)
(* raises on the attribute time_in_force that OrderRecord lacks), and its  *)
(* answers never carry a fill.  The mock of the tests, which               *)
(* ExchangeRegistry.register takes in TEST mode only, does not suspend and *)
(* reports the whole order filled.  So a booked fill has a price of its    *)
(* own, which need not be the one the risk check used.                     *)
(***************************************************************************)
EXTENDS Integers, FiniteSets, Functions

CONSTANTS
  Orders,        \* order identities; each is submitted at most once
  Symbols,       \* traded symbols
  Requests,      \* the requests a client may post, see Request below
  MaxQty,        \* largest quantity in Requests (a bound of the model)
  MaxPrice,      \* largest market price (a bound of the model)
  MockPrice,     \* the price the mock invents for an order without one
  Fee,           \* the fee of a fill, for every fill the same
  MaxNotional,   \* risk.max_order_notional_usd
  MaxExposure,   \* risk.max_portfolio_exposure_usd
  MaxPositions,  \* risk.max_concurrent_positions
  Cash0,         \* the USD balance at the start
  HasBalance,    \* is there a USD row in paper_balances
  NoTask,        \* the event loop is free
  None           \* Python's None, of a price that is not there

(* price: of the request; nothing validates it.  ticker and stale: what    *)
(* worker.latest_tickers says of the symbol when the request arrives.      *)
Request ==
  [type : {"MARKET", "LIMIT", "STOP_LOSS", "TAKE_PROFIT"}, side : {"BUY", "SELL"}, symbol : Symbols,
   qty : 0..MaxQty, price : Int \cup {None}, ticker : 1..MaxPrice \cup {None},
   stale : BOOLEAN, venue : {"coinbase", "alpaca", "mock", "unknown"}]

ASSUME RequestsAssumption ==
  /\ MaxQty \in Nat /\ MaxPrice \in Nat
  /\ Requests \subseteq Request
  /\ \A r \in Requests : r.ticker = None => ~r.stale
  /\ None \notin Int /\ MockPrice \in Nat \ {0} /\ Fee \in Nat
  /\ NoTask \notin Orders
  /\ HasBalance \in BOOLEAN
  /\ MaxNotional \in Nat /\ MaxExposure \in Nat /\ MaxPositions \in Nat /\ Cash0 \in Int

ASSUME FiniteAssumption == IsFiniteSet(Orders) /\ IsFiniteSet(Symbols)

VARIABLES
  loop,          \* the coroutine running on the event loop, or NoTask
  task,          \* task[o]: how the submission of o stands
  pc,            \* pc[o]: the next statement of the submission of o
  req,           \* req[o]: its PaperOrderRequest
  mem,           \* mem[o]: its OrderRecord, as last written by the coroutine
  row,           \* row[o]: paper_orders
  fills,         \* fills[o]: quantity of o's row in paper_fills, 0 if none
  position,      \* paper_positions, signed quantity
  mark,          \* paper_positions.current_market_price, 0 before the row is there
  cash,          \* paper_balances, USD
  venue,         \* venue[o]: what the sandbox knows of o
  vfill,         \* vfill[o]: quantity the sandbox has executed
  cfgStop,       \* cfg.risk.emergency_stop_active
  riskStop,      \* RiskEngine.emergency_stop_triggered
  reconBlocked,  \* ExecutionSafetyGate._reconciliation_blocked
  cooling,       \* last_trade_timestamp is younger than the cooldown
  stopOrder      \* history: the operator's last word on the emergency stop

engineVars == <<loop, task, pc, req, mem>>
dbVars     == <<row, fills, position, mark, cash>>
venueVars  == <<venue, vfill>>
flagVars   == <<cfgStop, riskStop, reconBlocked, cooling>>
vars == <<engineVars, dbVars, venueVars, flagVars, stopOrder>>

Lifecycle == INSTANCE OrderLifecycle WITH status <- [o \in Orders |-> mem[o].status]

Status == Lifecycle!OrderStatus \cup {"ABSENT"}
Record == [status : Status, gate : BOOLEAN, exch : BOOLEAN, filled : 0..MaxQty]
NoRecord == [status |-> "ABSENT", gate |-> FALSE, exch |-> FALSE, filled |-> 0]

PC == {"idle", "validate", "lookup", "gate", "risk", "persist", "dispatch", "await",
       "insert_fill", "apply_position", "apply_balance", "final", "done"}

TypeOK ==
  /\ loop \in Orders \cup {NoTask}
  /\ task \in [Orders -> {"none", "running", "returned", "raised", "crashed"}]
  /\ pc \in [Orders -> PC]
  /\ req \in [Orders -> Requests \cup {NoTask}]
  /\ mem \in [Orders -> Record]
  /\ row \in [Orders -> Record]
  /\ fills \in [Orders -> 0..MaxQty]
  /\ position \in [Symbols -> Int]
  /\ mark \in [Symbols -> Nat]
  /\ cash \in Int
  /\ venue \in [Orders -> {"none", "sent", "booked", "refused"}]
  /\ vfill \in [Orders -> 0..MaxQty]
  /\ cfgStop \in BOOLEAN /\ riskStop \in BOOLEAN
  /\ reconBlocked \in BOOLEAN /\ cooling \in BOOLEAN
  /\ stopOrder \in {"none", "stop", "stop_then_restart"}

Init ==
  /\ loop = NoTask
  /\ task = [o \in Orders |-> "none"]
  /\ pc = [o \in Orders |-> "idle"]
  /\ req = [o \in Orders |-> NoTask]
  /\ mem = [o \in Orders |-> NoRecord]
  /\ row = [o \in Orders |-> NoRecord]
  /\ fills = [o \in Orders |-> 0]
  /\ position = [s \in Symbols |-> 0]
  /\ mark = [s \in Symbols |-> 0]
  /\ cash = Cash0
  /\ venue = [o \in Orders |-> "none"]
  /\ vfill = [o \in Orders |-> 0]
  /\ cfgStop = FALSE /\ riskStop = FALSE /\ reconBlocked = FALSE /\ cooling = FALSE
  /\ stopOrder = "none"

-----------------------------------------------------------------------------
(* The coroutine's own steps. *)

Running(o) == task[o] = "running"
InFlight(o) == Running(o) /\ pc[o] = "await"

(* The coroutine goes on at `to'. *)
Goto(o, to) ==
  /\ pc' = [pc EXCEPT ![o] = to]
  /\ UNCHANGED <<loop, task>>

(* The coroutine leaves the event loop for good, returning or raising. *)
Leave(o, how) ==
  /\ task' = [task EXCEPT ![o] = how]
  /\ pc' = [pc EXCEPT ![o] = IF how = "returned" THEN "done" ELSE @]
  /\ loop' = NoTask

(* Slip: a rejection gets a status of its own that the enum lacks. *)
SetUnknownStatus(o, s) ==
  mem' = [mem EXCEPT ![o].status = IF s = "REJECTED" THEN "RISK_REJECTED" ELSE s]

(* OrderStateMachine.transition on the record in memory. *)
SetStatus(o, s) == mem' = [mem EXCEPT ![o].status = s]

Holds(o, at) == loop = o /\ Running(o) /\ pc[o] = at

(* Building the record and the INSERT of _save_order_db. *)
Submit(o, r) ==
  /\ loop = NoTask /\ task[o] = "none"
  /\ req' = [req EXCEPT ![o] = r]
  /\ SetStatus(o, "CREATED")
  /\ \/ /\ row' = [row EXCEPT ![o] = mem'[o]]
        /\ task' = [task EXCEPT ![o] = "running"]
        /\ pc' = [pc EXCEPT ![o] = "validate"]
        /\ loop' = o
     \/ /\ task' = [task EXCEPT ![o] = "raised"]
        /\ UNCHANGED <<row, pc, loop>>
  /\ UNCHANGED <<fills, position, mark, cash, venueVars, flagVars, stopOrder>>

Validate(o) ==
  /\ Holds(o, "validate")
  /\ SetStatus(o, "VALIDATING")
  /\ Goto(o, "lookup")
  /\ UNCHANGED <<req, dbVars, venueVars, flagVars, stopOrder>>

(* The quantity and the price of a LIMIT order are positive; the venue is  *)
(* registered.                                                             *)
Acceptable(r) ==
  /\ r.qty > 0
  /\ r.type = "LIMIT" => r.price # None /\ r.price > 0
  /\ r.venue # "unknown"

(* Slip: SAFETY_CHECK is never entered. *)
CheckRequestSilently(o) ==
  /\ Holds(o, "lookup")
  /\ \/ ~Acceptable(req[o]) /\ SetStatus(o, "REJECTED") /\ Goto(o, "final")
     \/ Acceptable(req[o]) /\ UNCHANGED mem /\ Goto(o, "gate")
  /\ UNCHANGED <<req, dbVars, venueVars, flagVars, stopOrder>>

CheckRequest(o) ==
  /\ Holds(o, "lookup")
  /\ \/ ~Acceptable(req[o]) /\ SetStatus(o, "REJECTED") /\ Goto(o, "final")
     \/ Acceptable(req[o]) /\ SetStatus(o, "SAFETY_CHECK") /\ Goto(o, "gate")
  /\ UNCHANGED <<req, dbVars, venueVars, flagVars, stopOrder>>

(* ExecutionSafetyGate.evaluate_order.  The build-time checks (runtime     *)
(* mode, paper only, connector capabilities, canonical host) hold for      *)
(* every registered connector; the two run-time flags remain.              *)
GatePasses == ~cfgStop /\ ~reconBlocked

EvaluateGate(o) ==
  /\ Holds(o, "gate")
  /\ \/ GatePasses /\ mem' = [mem EXCEPT ![o].gate = TRUE] /\ Goto(o, "risk")
     \/ ~GatePasses /\ SetStatus(o, "REJECTED") /\ Goto(o, "final")
  /\ UNCHANGED <<req, dbVars, venueVars, flagVars, stopOrder>>

Abs(n) == IF n < 0 THEN -n ELSE n
Active == {s \in Symbols : position[s] # 0}

(* The exposure as the risk engine sees it: at the stored market prices. *)
Sizes    == [s \in Symbols |-> Abs(position[s]) * mark[s]]
Exposure == SumFunctionOnSet(Sizes, Symbols)

(* est_price: the price of the request, a MARKET order's too, or else the  *)
(* ticker's.                                                               *)
Estimate(r) == IF r.price # None THEN r.price ELSE r.ticker
Notional(r) == r.qty * Estimate(r)

StopActive == riskStop \/ cfgStop

(* Slip: the exposure before the order is compared instead of the one      *)
(* after it.                                                               *)
RiskOfYesterday(r) ==
  /\ Notional(r) <= MaxNotional
  /\ r.symbol \in Active \/ Cardinality(Active) < MaxPositions
  /\ Exposure <= MaxExposure /\ ~cooling

(* evaluate_pre_trade_risk after the stop and the stale data: order        *)
(* notional, concurrent positions, exposure, cooldown.                     *)
RiskPasses(r) ==
  /\ Notional(r) <= MaxNotional
  /\ r.symbol \in Active \/ Cardinality(Active) < MaxPositions
  /\ Exposure + Notional(r) <= MaxExposure
  /\ ~cooling

(* Without a price and a ticker, quantity * None raises TypeError, outside *)
(* the try block, but only after the first two checks.                     *)
EvaluateRisk(o) ==
  LET r      == req[o]
      halted == StopActive \/ r.stale
  IN
  /\ Holds(o, "risk")
  /\ \/ ~halted /\ Estimate(r) = None /\ Leave(o, "raised") /\ UNCHANGED mem
     \/ /\ ~halted /\ Estimate(r) # None /\ RiskPasses(r)
        /\ SetStatus(o, "SUBMITTING") /\ Goto(o, "persist")
     \/ /\ halted \/ (Estimate(r) # None /\ ~RiskPasses(r))
        /\ SetStatus(o, "REJECTED") /\ Goto(o, "final")
  /\ UNCHANGED <<req, dbVars, venueVars, flagVars, stopOrder>>

(* _update_order_db writes every column of the record. *)
UpdateRow(o) == row' = [row EXCEPT ![o] = mem[o]]

(* Slip: a failed UPDATE does not stop the submission. *)
PersistBestEffort(o) ==
  /\ Holds(o, "persist")
  /\ UpdateRow(o) \/ UNCHANGED row
  /\ Goto(o, "dispatch")
  /\ UNCHANGED <<req, mem, fills, position, mark, cash, venueVars, flagVars, stopOrder>>

PersistSubmitting(o) ==
  /\ Holds(o, "persist")
  /\ \/ UpdateRow(o) /\ Goto(o, "dispatch")
     \/ UNCHANGED row /\ Leave(o, "raised")
  /\ UNCHANGED <<req, mem, fills, position, mark, cash, venueVars, flagVars, stopOrder>>

(* A sandbox adapter raises before it sends anything, or the request of an *)
(* order that is no LIMIT leaves for Coinbase and the coroutine awaits the *)
(* answer.                                                                 *)
Dispatch(o) ==
  /\ Holds(o, "dispatch") /\ req[o].venue # "mock"
  /\ \/ SetStatus(o, "ERROR") /\ Goto(o, "final") /\ UNCHANGED venue
     \/ /\ req[o].venue = "coinbase" /\ req[o].type # "LIMIT"
        /\ venue' = [venue EXCEPT ![o] = "sent"]
        /\ pc' = [pc EXCEPT ![o] = "await"]
        /\ loop' = NoTask
        /\ UNCHANGED <<task, mem>>
  /\ UNCHANGED <<req, dbVars, vfill, flagVars, stopOrder>>

(* The mock's fill_price: the request's, and 60000 when that is missing or *)
(* zero.                                                                   *)
FillPrice(r) == IF r.price \in {None, 0} THEN MockPrice ELSE r.price

(* The mock books and fills the whole order and the coroutine keeps the    *)
(* loop; a fill at a price that is not positive is not processed.          *)
DispatchMock(o) ==
  /\ Holds(o, "dispatch") /\ req[o].venue = "mock"
  /\ mem' = [mem EXCEPT ![o].status = "ACKNOWLEDGED", ![o].exch = TRUE]
  /\ venue' = [venue EXCEPT ![o] = "booked"]
  /\ vfill' = [vfill EXCEPT ![o] = req[o].qty]
  /\ cooling' = TRUE
  /\ Goto(o, IF FillPrice(req[o]) > 0 THEN "insert_fill" ELSE "final")
  /\ UNCHANGED <<req, dbVars, cfgStop, riskStop, reconBlocked, stopOrder>>

(* The await returns. *)
Resume(o, s) ==
  /\ loop = NoTask /\ InFlight(o)
  /\ mem' = [mem EXCEPT ![o].status = s, ![o].exch = (s = "ACKNOWLEDGED")]
  /\ pc' = [pc EXCEPT ![o] = "final"]
  /\ loop' = o
  /\ UNCHANGED <<task, req, dbVars, venueVars, cfgStop, riskStop, reconBlocked, stopOrder>>

(* Slip: an order that was sent counts as acknowledged. *)
AcknowledgeOnSend(o) ==
  /\ venue[o] \in {"sent", "booked"}
  /\ Resume(o, "ACKNOWLEDGED")
  /\ cooling' = TRUE

(* success: status 200 or 201; whatever the sandbox executes of the order, *)
(* the adapter's answer has none of the keys the engine takes a fill from. *)
Acknowledge(o) ==
  /\ venue[o] = "booked"
  /\ Resume(o, "ACKNOWLEDGED")
  /\ cooling' = TRUE

(* Slips: no total timeout on the request; a refused order is put back to  *)
(* CREATED to be tried again.                                              *)
RefuseOnAnswer(o) ==
  /\ venue[o] = "refused"
  /\ \/ Resume(o, "SUBMISSION_UNCONFIRMED")
     \/ Resume(o, "REJECTED")
  /\ UNCHANGED cooling

RefuseForRetry(o) == Resume(o, "CREATED") /\ UNCHANGED cooling

(* failure: only the wording of the error decides between the two statuses *)
(* and the venue may have booked the order in either case (an expired      *)
(* total timeout has no wording at all).                                   *)
Refuse(o) ==
  /\ \/ Resume(o, "SUBMISSION_UNCONFIRMED")
     \/ Resume(o, "REJECTED")
  /\ UNCHANGED cooling

(* _process_fill: the fill row, then FILLED in memory.  A failed INSERT is *)
(* caught and makes the order ERROR.                                       *)
InsertFill(o) ==
  /\ Holds(o, "insert_fill")
  /\ \/ /\ fills' = [fills EXCEPT ![o] = vfill[o]]
        /\ mem' = [mem EXCEPT ![o].status = "FILLED", ![o].filled = vfill[o]]
        /\ Goto(o, "apply_position")
     \/ /\ SetStatus(o, "ERROR")
        /\ Goto(o, "final")
        /\ UNCHANGED fills
  /\ UNCHANGED <<req, row, position, mark, cash, venueVars, flagVars, stopOrder>>

Signed(o, q) == IF req[o].side = "BUY" THEN q ELSE -q

(* Slip: a failed upsert does not keep the cash from being booked. *)
ApplyPositionBestEffort(o) ==
  LET s == req[o].symbol IN
  /\ Holds(o, "apply_position")
  /\ \/ position' = [position EXCEPT ![s] = @ + Signed(o, fills[o])]
     \/ UNCHANGED position
  /\ mark' = [mark EXCEPT ![s] = IF @ = 0 THEN FillPrice(req[o]) ELSE @]
  /\ Goto(o, IF HasBalance THEN "apply_balance" ELSE "final")
  /\ UNCHANGED <<req, mem, row, fills, cash, venueVars, flagVars, stopOrder>>

(* apply_fill, the upsert of paper_positions: current_market_price is the  *)
(* price of the fill in a new row and stays as it is in an old one.  If it *)
(* raises, the handler's FILLED -> ERROR is illegal and raises in turn:    *)
(* the coroutine ends.                                                     *)
ApplyPosition(o) ==
  LET s == req[o].symbol IN
  /\ Holds(o, "apply_position")
  /\ \/ /\ position' = [position EXCEPT ![s] = @ + Signed(o, fills[o])]
        /\ mark' = [mark EXCEPT ![s] = IF @ = 0 THEN FillPrice(req[o]) ELSE @]
        /\ Goto(o, IF HasBalance THEN "apply_balance" ELSE "final")
     \/ UNCHANGED <<position, mark>> /\ Leave(o, "raised")
  /\ UNCHANGED <<req, mem, row, fills, cash, venueVars, flagVars, stopOrder>>

(* What the fill takes from the USD balance. *)
Cost(o) == Signed(o, fills[o]) * FillPrice(req[o]) + Fee

(* apply_fill, the UPDATE of paper_balances. *)
ApplyBalance(o) ==
  /\ Holds(o, "apply_balance")
  /\ \/ cash' = cash - Cost(o) /\ Goto(o, "final")
     \/ UNCHANGED cash /\ Leave(o, "raised")
  /\ UNCHANGED <<req, mem, row, fills, position, mark, venueVars, flagVars, stopOrder>>

(* Slip: a failed last UPDATE is swallowed. *)
FinalBestEffort(o) ==
  /\ Holds(o, "final")
  /\ UpdateRow(o) \/ UNCHANGED row
  /\ Leave(o, "returned")
  /\ UNCHANGED <<req, mem, fills, position, mark, cash, venueVars, flagVars, stopOrder>>

FinalUpdate(o) ==
  /\ Holds(o, "final")
  /\ \/ UpdateRow(o) /\ Leave(o, "returned")
     \/ UNCHANGED row /\ Leave(o, "raised")
  /\ UNCHANGED <<req, mem, fills, position, mark, cash, venueVars, flagVars, stopOrder>>

Step(o) ==
  \/ Validate(o) \/ CheckRequest(o) \/ EvaluateGate(o) \/ EvaluateRisk(o)
  \/ PersistSubmitting(o) \/ Dispatch(o) \/ DispatchMock(o) \/ Acknowledge(o) \/ Refuse(o)
  \/ InsertFill(o) \/ ApplyPosition(o) \/ ApplyBalance(o) \/ FinalUpdate(o)

-----------------------------------------------------------------------------
(* The surroundings. *)

(* The sandbox takes or refuses a request that was sent, perhaps long      *)
(* after the coroutine stopped waiting, and executes what it booked.       *)
VenueDecides(o) ==
  /\ venue[o] = "sent"
  /\ \E d \in {"booked", "refused"} : venue' = [venue EXCEPT ![o] = d]
  /\ UNCHANGED <<engineVars, dbVars, vfill, flagVars, stopOrder>>

VenueExecutes(o) ==
  /\ venue[o] = "booked" /\ vfill[o] = 0
  /\ \E q \in 1..MaxQty : q <= req[o].qty /\ vfill' = [vfill EXCEPT ![o] = q]
  /\ UNCHANGED <<engineVars, dbVars, venue, flagVars, stopOrder>>

(* Slip: the INSERT comes first, and when it fails no flag is set. *)
TriggerAfterInsert ==
  /\ loop = NoTask
  /\ \/ riskStop' = TRUE /\ cfgStop' = TRUE
     \/ UNCHANGED <<riskStop, cfgStop>>
  /\ stopOrder' = "stop"
  /\ UNCHANGED <<engineVars, dbVars, venueVars, reconBlocked, cooling>>

(* trigger_emergency_stop sets both flags before its INSERT, so they are   *)
(* set whether or not the INSERT succeeds.                                 *)
TriggerStop ==
  /\ loop = NoTask
  /\ riskStop' = TRUE /\ cfgStop' = TRUE /\ stopOrder' = "stop"
  /\ UNCHANGED <<engineVars, dbVars, venueVars, reconBlocked, cooling>>

ResetStop ==
  /\ loop = NoTask
  /\ riskStop' = FALSE /\ cfgStop' = FALSE /\ stopOrder' = "none"
  /\ UNCHANGED <<engineVars, dbVars, venueVars, reconBlocked, cooling>>

(* A reconciliation ends (module Reconciliation says with what verdict). *)
SetReconciliationBlocked ==
  /\ loop = NoTask
  /\ reconBlocked' \in BOOLEAN
  /\ UNCHANGED <<engineVars, dbVars, venueVars, cfgStop, riskStop, cooling, stopOrder>>

(* A trade or a ticker reaches the worker: portfolio.mark_to_market.       *)
MarkToMarket(s, p) ==
  /\ loop = NoTask /\ mark[s] # 0
  /\ mark' = [mark EXCEPT ![s] = p]
  /\ UNCHANGED <<engineVars, row, fills, position, cash, venueVars, flagVars, stopOrder>>

CooldownExpires ==
  /\ cooling /\ cooling' = FALSE
  /\ UNCHANGED <<engineVars, dbVars, venueVars, cfgStop, riskStop, reconBlocked, stopOrder>>

(* The process dies and is started again: coroutines, flags and timestamps *)
(* are gone, the tables stay, and startup_event reads none of them back.   *)
Crash ==
  /\ task' = [o \in Orders |-> IF Running(o) THEN "crashed" ELSE task[o]]
  /\ loop' = NoTask
  /\ cfgStop' = FALSE /\ riskStop' = FALSE /\ reconBlocked' = FALSE /\ cooling' = FALSE
  /\ stopOrder' = IF stopOrder = "stop" THEN "stop_then_restart" ELSE stopOrder
  /\ UNCHANGED <<pc, req, mem, dbVars, venueVars>>

Next ==
  \/ \E o \in Orders : \/ \E r \in Requests : Submit(o, r)
                       \/ Step(o) \/ VenueDecides(o) \/ VenueExecutes(o)
  \/ \E s \in Symbols : \E p \in 1..MaxPrice : MarkToMarket(s, p)
  \/ TriggerStop \/ ResetStop \/ SetReconciliationBlocked \/ CooldownExpires \/ Crash

Spec == Init /\ [][Next]_vars

(* The loop keeps running a coroutine that holds it, and an await ends:    *)
(* the adapters give aiohttp a total timeout of 5 seconds.                 *)
FairSpec == Spec /\ \A o \in Orders : WF_vars(Step(o))

-----------------------------------------------------------------------------
(* Write-ahead: whatever the sandbox may know of, the tables know too.  A  *)
(* request leaves only after the row says SUBMITTING with the gate passed, *)
(* so that a crash at any point leaves a row to look the order up by.      *)
WriteAhead ==
  \A o \in Orders : venue[o] # "none" =>
     row[o].gate /\ row[o].status \notin {"ABSENT", "CREATED"}

(* No synthetic acknowledgement or fill (the module's own prohibition): a  *)
(* recorded acknowledgement means the sandbox booked the order, a recorded *)
(* fill that it executed some of it, and the row never claims a fill that  *)
(* paper_fills lacks, through every failed write and every crash.          *)
NoSyntheticFill ==
  \A o \in Orders :
     /\ mem[o].exch \/ row[o].exch \/ row[o].status \in {"ACKNOWLEDGED", "FILLED"}
          => venue[o] = "booked"
     /\ fills[o] > 0 => vfill[o] > 0
     /\ row[o].filled <= fills[o]

(* A submission that returned has told the tables the truth, and only one  *)
(* that raised or was cut off by a crash leaves a row in a passing status. *)
RowsSettle ==
  \A o \in Orders :
     /\ task[o] = "returned" =>
          /\ row[o] = mem[o]
          /\ row[o].filled = fills[o]
          /\ row[o].status = "FILLED" <=> fills[o] > 0
     /\ row[o].status \in {"CREATED", "SUBMITTING"} =>
          task[o] \in {"running", "raised", "crashed"}

Posted(o)   == fills[o] > 0 /\ pc[o] \in {"apply_balance", "final", "done"}
Credited(o) == fills[o] > 0 /\ pc[o] \in {"final", "done"} /\ HasBalance

SignedFill == [o \in Orders |-> Signed(o, fills[o])]
FillCost   == [o \in Orders |-> Cost(o)]

PostedOn(s) == {o \in Orders : Posted(o) /\ req[o].symbol = s}
AllCredited == {o \in Orders : Credited(o)}

(* The ledger follows the fills: positions and cash are exactly the sums   *)
(* of the recorded fills, each counted once, except that a fill whose      *)
(* submission stopped between two statements is missing from what the      *)
(* later statements write.                                                 *)
LedgerFollowsFills ==
  /\ \A s \in Symbols : position[s] = SumFunctionOnSet(SignedFill, PostedOn(s))
  /\ cash = Cash0 - SumFunctionOnSet(FillCost, AllCredited)

PositionsWithinLimit == Cardinality(Active) <= MaxPositions

(* The risk limits still hold when the fill is booked: nothing that ran    *)
(* between the check and the upsert took the room it found.  The number of *)
(* positions stays within its limit, and so does the exposure unless the   *)
(* position is valued higher than the check estimated (a fill above the    *)
(* estimate, a LIMIT below the market, a MARKET order that came with a     *)
(* price of its own).  Between the fills the market moves the exposure at  *)
(* will, over the limit too.                                               *)
FillKeepsLimits ==
  [][\A s \in Symbols : position'[s] # position[s] =>
       /\ PositionsWithinLimit'
       /\ mark'[s] <= Estimate(req[loop]) => Exposure' <= MaxExposure]_vars

(* No request leaves for a venue while the operator's emergency stop       *)
(* stands, even if recording the stop failed, or while a reconciliation    *)
(* has blocked new orders.                                                 *)
StopHolds ==
  [][\A o \in Orders :
       venue[o] = "none" /\ venue'[o] # "none" => stopOrder # "stop" /\ ~reconBlocked]_vars

(* The paper_orders row moves forward only: from a status to one the       *)
(* transition graph reaches from it, and its gate mark, venue id and       *)
(* filled quantity are never taken back.                                   *)
Reachable ==
  LET All == Lifecycle!OrderStatus
      one == Lifecycle!LegalTransitions
  IN  [s \in All |->
         LET grow(T) == T \cup UNION {one[t] : t \in T}
         IN  grow(grow(grow(grow(grow(grow(one[s]))))))]

RowsMoveForward ==
  [][\A o \in Orders : row'[o] # row[o] /\ row[o].status # "ABSENT" =>
       /\ row'[o].status \in Reachable[row[o].status]
       /\ row[o].gate => row'[o].gate
       /\ row[o].exch => row'[o].exch
       /\ row'[o].filled >= row[o].filled]_vars

(* Every submission moves its record along LEGAL_TRANSITIONS.              *)
FollowsLifecycle == Lifecycle!Spec

(* A submission the client made ends: it returns, raises or is cut off.    *)
SubmissionEnds == \A o \in Orders : task[o] = "running" ~> task[o] # "running"

-----------------------------------------------------------------------------
(* The inductive invariant behind WriteAhead, NoSyntheticFill, RowsSettle, *)
(* LedgerFollowsFills, FillKeepsLimits, StopHolds (PaperExecutionProofs).  *)

Checking   == {"validate", "lookup", "gate", "risk", "persist"}
Exchanging == {"dispatch", "await", "insert_fill", "apply_position", "apply_balance"}
Ended      == {"final", "done"}

CreatedRow == [status |-> "CREATED", gate |-> FALSE, exch |-> FALSE, filled |-> 0]
SentRow    == [status |-> "SUBMITTING", gate |-> TRUE, exch |-> FALSE, filled |-> 0]

(* What the next statement of a submission says of its record. *)
RecordAt(o) ==
  /\ pc[o] = "idle" => mem[o].status \in {"ABSENT", "CREATED"}
  /\ pc[o] = "validate" => mem[o].status = "CREATED"
  /\ pc[o] = "lookup" => mem[o].status = "VALIDATING"
  /\ pc[o] \in {"gate", "risk"} => mem[o].status = "SAFETY_CHECK"
  /\ pc[o] \in {"persist", "dispatch", "await"} => mem[o].status = "SUBMITTING"
  /\ pc[o] = "insert_fill" => mem[o].status = "ACKNOWLEDGED"
  /\ pc[o] \in {"apply_position", "apply_balance"} => mem[o].status = "FILLED"
  /\ pc[o] \in Ended => mem[o].status \in {"REJECTED", "ERROR", "SUBMISSION_UNCONFIRMED",
                                         "ACKNOWLEDGED", "FILLED"}
  /\ pc[o] \in {"risk", "persist"} \cup Exchanging => mem[o].gate
  /\ pc[o] \notin {"risk", "persist"} \cup Exchanging \cup Ended => ~mem[o].gate
  /\ pc[o] \in Ended /\ mem[o].status # "REJECTED" => mem[o].gate

(* ... of its rows ... *)
RowAt(o) ==
  /\ pc[o] = "idle" => row[o] = NoRecord
  /\ pc[o] \in Checking => row[o] = CreatedRow
  /\ pc[o] \in Exchanging => row[o] = SentRow
  /\ pc[o] = "final" => \/ row[o] = CreatedRow /\ venue[o] = "none" /\ mem[o].status = "REJECTED"
                        \/ row[o] = SentRow /\ mem[o].gate
  /\ pc[o] = "done" => row[o] = mem[o]

(* ... and of the sandbox and the fill. *)
VenueAt(o) ==
  /\ pc[o] \in {"idle", "dispatch"} \cup Checking => venue[o] = "none"
  /\ venue[o] # "none" => mem[o].gate
  /\ pc[o] \in {"gate", "risk", "persist", "dispatch"} => req[o].qty > 0
  /\ pc[o] \in {"insert_fill", "apply_position", "apply_balance"} =>
       mem[o].exch /\ vfill[o] > 0 /\ req[o].venue = "mock" /\ FillPrice(req[o]) > 0
  /\ mem[o].exch \/ mem[o].status \in {"ACKNOWLEDGED", "FILLED"} \/ vfill[o] > 0
       => venue[o] = "booked"
  /\ mem[o].filled = fills[o] /\ (fills[o] > 0 => vfill[o] > 0)
  /\ mem[o].status = "FILLED" <=> fills[o] > 0
  /\ vfill[o] > 0 => vfill[o] <= req[o].qty
  /\ fills[o] > 0 => fills[o] <= req[o].qty
  /\ pc[o] = "apply_balance" => HasBalance

(* A coroutine between two statements holds the loop; it may not be asked  *)
(* to stop between its checks and the request.                             *)
LoopAt(o) ==
  /\ loop = o <=> Running(o) /\ pc[o] # "await"
  /\ task[o] = "returned" <=> pc[o] = "done"
  /\ task[o] = "none" => pc[o] = "idle" /\ mem[o].status = "ABSENT" /\ req[o] = NoTask
  /\ Running(o) => pc[o] # "idle"
  /\ task[o] # "none" => req[o] \in Requests
  /\ Running(o) /\ pc[o] \in {"risk", "persist", "dispatch"} =>
       stopOrder # "stop" /\ ~reconBlocked

StopFlags == stopOrder = "stop" => cfgStop /\ riskStop

(* The submissions whose risk check may still turn into a position, and    *)
(* the room it promised.  They hold the loop: no adapter that reports a    *)
(* fill suspends.                                                          *)
Pending(o) == /\ Running(o) /\ req[o].venue = "mock"
              /\ pc[o] \in {"persist", "dispatch", "insert_fill", "apply_position"}

LimitsReserved ==
  /\ PositionsWithinLimit
  /\ \A s \in Symbols : mark[s] = 0 => position[s] = 0
  /\ \A o \in Orders : Pending(o) =>
       /\ req[o].symbol \in Active \/ Cardinality(Active) < MaxPositions
       /\ Estimate(req[o]) # None
       /\ Exposure + Notional(req[o]) <= MaxExposure

IInv ==
  /\ TypeOK
  /\ \A o \in Orders : RecordAt(o) /\ RowAt(o) /\ VenueAt(o) /\ LoopAt(o)
  /\ StopFlags
  /\ LimitsReserved
  /\ LedgerFollowsFills

-----------------------------------------------------------------------------
(* A claim of the repository that the code does not keep. *)

(* docs/PAPER_TRADING.md: REJECTED is the outcome of validation, gate or   *)
(* risk; so a rejected order is never one the venue holds.                 *)
RejectedIsNotLive ==
  \A o \in Orders : row[o].status = "REJECTED" => venue[o] # "booked"
=============================================================================
