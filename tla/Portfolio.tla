----------------------------- MODULE Portfolio -----------------------------
(***************************************************************************)
(* PortfolioEngine: positions, cash and profit from fills and marks, and   *)
(* the summary that the thread pool reads meanwhile.                       *)
(*                                                                         *)
(* apply_fill commits the position and then the balance; `due' is the cash *)
(* in between, when the event loop is busy and only readers run.  Money is *)
(* counted in a unit so small that the average prices of MaxFills fills    *)
(* are whole numbers of it: after n fills an average is a multiple of      *)
(* Grain[n].  Rounding for display is left out.                            *)
(***************************************************************************)
EXTENDS Integers, FiniteSets, Functions

CONSTANTS
  Symbols,
  Fills,     \* FillRecords: symbol, buy, quantity, price, fee
  Marks,     \* prices the feed reports
  Deposit,   \* the USD balance the account was given
  Readers,   \* calls of get_portfolio_summary
  MaxFills,  \* number of fills (a bound of the model)
  Lot,       \* the largest quantity
  Grain,
  None

Rows == [side : {"LONG", "SHORT", "FLAT"}, quantity : Nat, entry : Nat,
         mark : Nat, unrealized : Int, realized : Int, fees : Nat]

ASSUME FillAssumption ==
  /\ IsFiniteSet(Symbols) /\ Lot \in Nat /\ MaxFills \in Nat
  /\ Fills \subseteq [symbol : Symbols, buy : BOOLEAN, quantity : 1..Lot,
                      price : Nat \ {0}, fee : Nat]
  /\ Marks \subseteq Nat \ {0} /\ Deposit \in Nat
  /\ None \notin Int /\ None \notin Fills /\ None \notin Rows

ASSUME GrainAssumption ==
  /\ Grain \in [1..MaxFills -> Nat \ {0}]
  /\ \A n \in 1..MaxFills, f \in Fills : f.price % Grain[n] = 0
  /\ \A n \in 1..(MaxFills - 1) : \A q \in 1..((n + 1) * Lot) :
       Grain[n] % (q * Grain[n + 1]) = 0

VARIABLES
  position,  \* paper_positions: position[s], a row or None
  cash,      \* paper_balances: total of USD, or None if there is no row
  due,       \* the fill whose position is written and whose cash is not, or None
  reader,    \* reader[r]: where a summary stands, and what it has read
  booked,    \* history: number of fills that reached paper_positions
  paid,      \* history: number of fills that are done with the balance
  lost,      \* history: cash that never reached the balance
  marked     \* history: symbols whose P&L is of after their last fill

portfolioVars == <<position, cash, due, reader, booked, paid, lost, marked>>

NoRow == [side |-> "FLAT", quantity |-> 0, entry |-> 0, mark |-> 0,
          unrealized |-> 0, realized |-> 0, fees |-> 0]

Idle == [at |-> "idle", cash |-> None, paid |-> 0, equity |-> None, profit |-> 0]

PortfolioTypeOK ==
  /\ position \in [Symbols -> Rows \cup {None}]
  /\ \A s \in Symbols : position[s] # None =>
       /\ position[s].side = "FLAT" <=> position[s].quantity = 0
       /\ position[s].quantity = 0 <=> position[s].entry = 0
  /\ cash \in Int \cup {None}
  /\ due \in Fills \cup {None}
  /\ reader \in [Readers -> [at : {"idle", "balance", "done"}, cash : Int \cup {None},
                             paid : Nat, equity : Int \cup {None}, profit : Int]]
  /\ booked \in 0..MaxFills /\ paid \in 0..MaxFills /\ lost \in Int
  /\ marked \subseteq Symbols

(* Nothing in the platform creates the balance row: it is there or not. *)
PortfolioInit ==
  /\ position = [s \in Symbols |-> None]
  /\ cash \in {Deposit, None}
  /\ due = None
  /\ reader = [r \in Readers |-> Idle]
  /\ booked = 0 /\ paid = 0 /\ lost = 0 /\ marked = {}

-----------------------------------------------------------------------------
(* apply_fill.                                                             *)

Signed(r) ==
  CASE r.side = "LONG" -> r.quantity [] r.side = "SHORT" -> -r.quantity [] OTHER -> 0

Moved(f) == IF f.buy THEN f.quantity ELSE -f.quantity
Side(n) == IF n > 0 THEN "LONG" ELSE "SHORT"
Abs(n) == IF n < 0 THEN -n ELSE n

Open(r, f) ==
  [r EXCEPT !.side = Side(Moved(f)), !.quantity = f.quantity, !.entry = f.price]

(* Slip: the average forgets the weights. *)
IncreaseUnweighted(r, f) ==
  [r EXCEPT !.quantity = @ + f.quantity, !.entry = (@ + f.price) \div 2]

Increase(r, f) ==
  LET q == r.quantity + f.quantity
  IN  [r EXCEPT !.quantity = q, !.entry = (r.quantity * @ + f.quantity * f.price) \div q]

(* What the fill closes is realised; what is left keeps its entry price,   *)
(* and what goes beyond is a new position at the price of the fill.        *)
Reduce(r, f) ==
  LET now == Signed(r) + Moved(f)
      closed == IF r.quantity < f.quantity THEN r.quantity ELSE f.quantity
      kept == r.quantity > f.quantity
  IN  [r EXCEPT !.realized = @ + closed * (IF r.side = "LONG" THEN f.price - r.entry
                                           ELSE r.entry - f.price),
                !.side = IF now = 0 THEN "FLAT" ELSE Side(now),
                !.quantity = Abs(now),
                !.entry = IF now = 0 THEN 0 ELSE IF kept THEN @ ELSE f.price]

(* Slip: the quantity keeps the sign of the sum.                           *)
FilledSigned(r, f) ==
  [r EXCEPT !.quantity = Signed(r) + Moved(f), !.side = Side(Signed(r) + Moved(f))]

(* The row that is written; the mark and the unrealised P&L of a row that  *)
(* exists are left as they are.                                            *)
Filled(r, f) ==
  LET paying == [r EXCEPT !.fees = @ + f.fee]
  IN  IF r.side = "FLAT" THEN Open(paying, f)
      ELSE IF Side(Signed(r)) = Side(Moved(f)) THEN Increase(paying, f)
      ELSE Reduce(paying, f)

CashOf(f) == -Moved(f) * f.price - f.fee

(* Slip: the balance first, and the position after it. *)
BookCashFirst(f) ==
  /\ due = None /\ paid < MaxFills
  /\ cash' = IF cash = None THEN None ELSE cash + CashOf(f)
  /\ paid' = paid + 1 /\ due' = f
  /\ UNCHANGED <<position, reader, booked, lost, marked>>

Book(f) ==
  /\ due = None /\ booked < MaxFills
  /\ position' = [position EXCEPT ![f.symbol] =
                    IF @ = None THEN [Filled(NoRow, f) EXCEPT !.mark = f.price]
                    ELSE Filled(@, f)]
  /\ due' = f
  /\ booked' = booked + 1
  /\ marked' = IF position[f.symbol] = None THEN marked \cup {f.symbol}
               ELSE marked \ {f.symbol}
  /\ UNCHANGED <<cash, reader, paid, lost>>

(* The balance, if there is a row and neither the UPDATE fails nor the     *)
(* process dies before it.                                                 *)
Pay ==
  /\ due # None
  /\ \/ /\ cash' = IF cash = None THEN None ELSE cash + CashOf(due)
        /\ UNCHANGED lost
     \/ /\ lost' = lost + CashOf(due)
        /\ UNCHANGED cash
  /\ paid' = paid + 1 /\ due' = None
  /\ UNCHANGED <<position, reader, booked, marked>>

-----------------------------------------------------------------------------
(* mark_to_market, on the event loop.                                      *)

(* Slip: a short position gains like a long one. *)
GainOfLong(r, price) == r.quantity * (price - r.entry)

Gain(r, price) == Signed(r) * (price - r.entry)

MarkToMarket(s, price) ==
  /\ due = None /\ position[s] # None
  /\ position' = [position EXCEPT ![s].mark = price,
                                  ![s].unrealized = Gain(position[s], price)]
  /\ marked' = marked \cup {s}
  /\ UNCHANGED <<cash, due, reader, booked, paid, lost>>

-----------------------------------------------------------------------------
(* get_portfolio_summary, in a thread: two reads with anything in between. *)

ReadBalance(r) ==
  /\ reader[r].at = "idle"
  /\ reader' = [reader EXCEPT ![r] = [@ EXCEPT !.at = "balance", !.cash = cash, !.paid = paid]]
  /\ UNCHANGED <<position, cash, due, booked, paid, lost, marked>>

Held == {s \in Symbols : position[s] # None /\ position[s].quantity > 0}
Unrealized == SumFunctionOnSet([s \in Held |-> position[s].unrealized], Held)
Realized == SumFunctionOnSet([s \in Held |-> position[s].realized], Held)

ReadPositions(r) ==
  /\ reader[r].at = "balance"
  /\ reader' = [reader EXCEPT ![r] =
       [@ EXCEPT !.at = "done", !.profit = Unrealized + Realized,
                 !.equity = IF reader[r].cash = None THEN None
                              ELSE reader[r].cash + Unrealized]]
  /\ UNCHANGED <<position, cash, due, booked, paid, lost, marked>>

PortfolioNext ==
  \/ \E f \in Fills : Book(f)
  \/ Pay
  \/ \E s \in Symbols, price \in Marks : MarkToMarket(s, price)
  \/ \E r \in Readers : ReadBalance(r) \/ ReadPositions(r)

-----------------------------------------------------------------------------
Known == {s \in Symbols : position[s] # None}
Fees == SumFunctionOnSet([s \in Known |-> position[s].fees], Known)
Earned == SumFunctionOnSet([s \in Known |-> position[s].realized], Known)
Cost == SumFunctionOnSet([s \in Known |-> Signed(position[s]) * position[s].entry], Known)
Worth == SumFunctionOnSet([s \in Known |-> Signed(position[s]) * position[s].mark], Known)
Owed == lost + IF due = None THEN 0 ELSE CashOf(due)

(* Money is conserved: what is in the balance, plus what a failed or       *)
(* coming write owes it, is the initial balance and the realised profit    *)
(* less the fees and the cost of what is held, whatever was opened,        *)
(* increased, reduced, reversed or closed.                                 *)
MoneyConserved == cash # None => cash + Owed = Deposit + Earned - Fees - Cost

Answers(r) == reader[r].at = "balance" /\ reader'[r].at = "done"

(* A summary never shows the cash of a fill without its position: the      *)
(* position is written first and read last.                                *)
SummaryNotAhead(r) == reader[r].paid <= booked

(* A summary during which no fill is booked, when the feed has marked      *)
(* every position since its last fill: the equity it reports is what the   *)
(* account is worth less what is invested, and if no position is closed    *)
(* its profit is what the account gained before fees and lost writes.      *)
SummaryAddsUp(r) ==
  cash # None /\ reader[r].paid = booked /\ marked = Known =>
    /\ reader'[r].equity = cash + Worth - Cost
    /\ Held = Known => reader'[r].profit = cash + Worth + lost + Fees - Deposit

(* Every answer of get_portfolio_summary is of that kind. *)
SummaryHonest ==
  [][\A r \in Readers : Answers(r) => SummaryNotAhead(r) /\ SummaryAddsUp(r)]_portfolioVars
=============================================================================
