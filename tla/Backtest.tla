------------------------------ MODULE Backtest ------------------------------
(***************************************************************************)
(* BacktestEngine.run (core/research/backtest.py): one pass over the bars, *)
(* one step per bar.  A step reads the bar and the signal of the bar       *)
(* before, first closes the position the bar ends, then opens the one the  *)
(* signal asks for, at the bar's open.                                     *)
(*                                                                         *)
(* A bar and the signal generated at its close are chosen when the pass    *)
(* reaches the bar.  Any strategy is allowed that puts its stop and target *)
(* on either side of the close, as core/strategies/library.py does.  Every *)
(* position has size 1: the size only scales the money of a trade.         *)
(***************************************************************************)
EXTENDS Integers, Sequences, SequencesExt

CONSTANTS NBars,      \* length of the data
          TopPrice,   \* prices are 1 .. TopPrice
          Reach,      \* distance of stop and target from the close
          MaxHold,    \* max_holding_bars
          Capital,    \* initial_capital
          Scale, Slip, Fee   \* slippage Slip/Scale, fee Fee/Scale

ASSUME BacktestAssumption ==
  /\ {NBars, TopPrice, Reach, MaxHold, Scale} \subseteq Nat \ {0}
  /\ {Capital, Slip, Fee} \subseteq Nat

VARIABLES bstat,     \* "idle", "running", "done"
          i,         \* index of the last bar read
          bar,       \* that bar
          sig,       \* the signal of that bar
          position,  \* current_position
          trades,    \* the list of trades
          equity     \* in units of 1/Scale^2

bvars == <<bstat, i, bar, sig, position, trades, equity>>

Prices == 1 .. TopPrice
Bars == { b \in [open : Prices, high : Prices, low : Prices, close : Prices] :
            /\ b.low <= b.open /\ b.open <= b.high
            /\ b.low <= b.close /\ b.close <= b.high }

\* A stop or a target is the set of its price, empty for None.
NoSignal == [action |-> "HOLD", stop |-> {}, target |-> {}]
NoPosition == [side |-> "NONE", raw |-> 0, entry |-> 0, stop |-> {}, target |-> {}]
Enters == {"ENTER_LONG", "ENTER_SHORT"}

\* What a strategy may say at a close c: nothing, an exit, or an entry with or
\* without a bracket around the close.
SignalsAt(c) ==
  {NoSignal} \cup
  { [action |-> a, stop |-> {}, target |-> {}] :
      a \in {"EXIT_LONG", "EXIT_SHORT"} \cup Enters } \cup
  { [action |-> "ENTER_LONG", stop |-> {c - Reach}, target |-> {c + Reach}],
    [action |-> "ENTER_SHORT", stop |-> {c + Reach}, target |-> {c - Reach}] }

StopTouched(p, b) ==
  \E s \in p.stop : IF p.side = "LONG" THEN b.low <= s ELSE b.high >= s

TargetTouched(p, b) ==
  \E t \in p.target : IF p.side = "LONG" THEN b.high >= t ELSE b.low <= t

\* Mutant: a position is held one bar too long.
ExpiredLater(p, at) == at - p.entry > MaxHold

Expired(p, at) == at - p.entry >= MaxHold

\* Mutant: only explicit exit signals oppose.
OpposedByExit(p, s) ==
  \/ p.side = "LONG" /\ s.action = "EXIT_LONG"
  \/ p.side = "SHORT" /\ s.action = "EXIT_SHORT"

Opposed(p, s) ==
  \/ p.side = "LONG" /\ s.action \in {"EXIT_LONG", "ENTER_SHORT"}
  \/ p.side = "SHORT" /\ s.action \in {"EXIT_SHORT", "ENTER_LONG"}

\* Mutant: the target is tried before the stop.
TargetFirst(p, b, at, s) ==
  IF TargetTouched(p, b) THEN "TAKE_PROFIT"
  ELSE IF StopTouched(p, b) THEN "STOP_LOSS"
  ELSE IF Expired(p, at) THEN "MAX_HOLD"
  ELSE IF Opposed(p, s) THEN "SIGNAL"
  ELSE "NONE"

\* Why position p ends in bar b, number "at", after signal s: the first that
\* holds, in the order of the code.
ExitReason(p, b, at, s) ==
  IF StopTouched(p, b) THEN "STOP_LOSS"
  ELSE IF TargetTouched(p, b) THEN "TAKE_PROFIT"
  ELSE IF Expired(p, at) THEN "MAX_HOLD"
  ELSE IF Opposed(p, s) THEN "SIGNAL"
  ELSE "NONE"

\* The prices at which an exit can be booked: a level, or the open.
ExitPrices(p, b, reason) ==
  CASE reason = "STOP_LOSS" -> p.stop
    [] reason = "TAKE_PROFIT" -> p.target
    [] OTHER -> {b.open}

Distance(a, b) == IF a < b THEN b - a ELSE a - b
Gain(side, from, to) == IF side = "LONG" THEN to - from ELSE from - to
EntryFill(side, raw) == raw * (IF side = "LONG" THEN Scale + Slip ELSE Scale - Slip)
ExitFill(side, raw) == raw * (IF side = "LONG" THEN Scale - Slip ELSE Scale + Slip)

\* Mutant: the gross result is taken from the fills, so slippage counts twice.
NetOfFills(side, rawIn, rawOut) ==
  LET in == EntryFill(side, rawIn)
      out == ExitFill(side, rawOut)
      slippage == Distance(in, rawIn * Scale) + Distance(rawOut * Scale, out)
  IN  Gain(side, in, out) * Scale - (in + out) * Fee - slippage * Scale

\* Gross result less fees and slippage, in units of 1/Scale^2.
NetOf(side, rawIn, rawOut) ==
  LET in == EntryFill(side, rawIn)
      out == ExitFill(side, rawOut)
      slippage == Distance(in, rawIn * Scale) + Distance(rawOut * Scale, out)
  IN  Gain(side, rawIn, rawOut) * Scale * Scale - (in + out) * Fee - slippage * Scale

TradeOf(p, at, raw, reason) ==
  [side |-> p.side, entry |-> p.entry, rawIn |-> p.raw, exit |-> at, rawOut |-> raw,
   reason |-> reason, net |-> NetOf(p.side, p.raw, raw)]

Opened(s, b, at) ==
  [side |-> IF s.action = "ENTER_LONG" THEN "LONG" ELSE "SHORT",
   raw |-> b.open, entry |-> at, stop |-> s.stop, target |-> s.target]

\* What a bar leaves: the entry of the signal if nothing is held any more.
Taken(p, s, b, at) == IF p = NoPosition /\ s.action \in Enters THEN Opened(s, b, at) ELSE p

-----------------------------------------------------------------------------
BInit ==
  /\ bstat = "idle" /\ i = 0
  /\ bar = [open |-> 1, high |-> 1, low |-> 1, close |-> 1]
  /\ sig = NoSignal
  /\ position = NoPosition /\ trades = <<>> /\ equity = Capital * Scale * Scale

\* The run starts; bar 0 is used for its signal (and its close) only.
BStart ==
  /\ bstat = "idle"
  /\ bstat' = "running"
  /\ \E c \in Prices :
       bar' = [open |-> c, high |-> c, low |-> c, close |-> c] /\ sig' \in SignalsAt(c)
  /\ UNCHANGED <<i, position, trades, equity>>

NextBar(b) ==
  /\ bstat = "running" /\ i < NBars - 1
  /\ i' = i + 1 /\ bar' = b
  /\ sig' \in SignalsAt(b.close)
  /\ UNCHANGED bstat

\* A bar that closes nothing, with or without an entry.
KeepBar ==
  \E b \in Bars :
    /\ NextBar(b)
    /\ position = NoPosition \/ ExitReason(position, b, i + 1, sig) = "NONE"
    /\ position' = Taken(position, sig, b, i + 1)
    /\ UNCHANGED <<trades, equity>>

\* A bar that closes the position, and may open the next one at the same open.
ExitBar ==
  \E b \in Bars :
    LET reason == ExitReason(position, b, i + 1, sig) IN
    /\ NextBar(b)
    /\ position # NoPosition /\ reason # "NONE"
    /\ \E raw \in ExitPrices(position, b, reason) :
         LET t == TradeOf(position, i + 1, raw, reason) IN
         /\ trades' = Append(trades, t)
         /\ equity' = equity + t.net
    /\ position' = Taken(NoPosition, sig, b, i + 1)

\* After the last bar a position that is left is closed at its close.
EndOfData ==
  /\ bstat = "running" /\ i = NBars - 1
  /\ bstat' = "done" /\ position' = NoPosition
  /\ IF position = NoPosition THEN UNCHANGED <<trades, equity>>
     ELSE LET t == TradeOf(position, i, bar.close, "END_OF_DATA") IN
          /\ trades' = Append(trades, t)
          /\ equity' = equity + t.net
  /\ UNCHANGED <<i, bar, sig>>

BNext == BStart \/ KeepBar \/ ExitBar \/ EndOfData

-----------------------------------------------------------------------------
Sides == {"LONG", "SHORT"}
Reasons == {"STOP_LOSS", "TAKE_PROFIT", "MAX_HOLD", "SIGNAL", "END_OF_DATA"}

BTypeOK ==
  /\ bstat \in {"idle", "running", "done"} /\ i \in 0 .. NBars - 1 /\ bar \in Bars
  /\ sig \in UNION { SignalsAt(c) : c \in Prices }
  /\ position = NoPosition \/ (position.side \in Sides /\ position.raw \in Prices)
  /\ \A t \in ToSet(trades) : t.side \in Sides /\ t.reason \in Reasons
  /\ equity \in Int

\* In one step over a bar the book agrees with the signal of the bar before, whatever
\* else the bar did: an entry signal leaves a position of its side, an exit
\* signal leaves none of that side (backtest.py:189-196, 230-251).
SignalIsFollowed ==
  /\ sig.action = "ENTER_LONG" => position'.side = "LONG"
  /\ sig.action = "ENTER_SHORT" => position'.side = "SHORT"
  /\ sig.action = "EXIT_LONG" => position'.side # "LONG"
  /\ sig.action = "EXIT_SHORT" => position'.side # "SHORT"

\* A position that a bar begins with and whose stop the bar reaches is closed in
\* that bar, with one trade booked at the level of the stop, also when the bar
\* reaches the target, the holding limit or an opposite signal as well; and the
\* stop is the worse of the two levels
\* (docs/BACKTESTING.md, section 3: "SL-first rule (worst-case assumption)").
WorstCase ==
  StopTouched(position, bar') =>
    LET t == Last(trades') IN
    /\ Len(trades') = Len(trades) + 1 /\ t.exit = i' /\ t.reason = "STOP_LOSS"
    /\ t.side = position.side /\ t.entry = position.entry /\ t.rawOut \in position.stop
    /\ \A x \in position.target :
         Gain(t.side, t.rawIn, t.rawOut) <= Gain(t.side, t.rawIn, x)

\* Both hold of every step over a bar.  That is less than a worst case of the
\* whole backtest: a bar that opens a position is not tested against its stop, a
\* bar that opens beyond the stop still pays the level of the stop, and an entry
\* after an exit within the bar is booked at the bar's open, before that exit
\* (backtest.py:167-183, 230-251).
BarsPlayedByRules == [][i' > i => SignalIsFollowed /\ WorstCase]_bvars

\* Trades follow each other without overlap, the open position comes after all
\* of them, and none is held longer than MaxHold bars (backtest.py:154-187, 230-251).
TradesInOrder ==
  /\ \A k \in 1 .. Len(trades) :
       /\ trades[k].exit - trades[k].entry \in 0 .. MaxHold
       /\ trades[k].exit = trades[k].entry => trades[k].reason = "END_OF_DATA"
       /\ k > 1 => trades[k - 1].exit <= trades[k].entry
  /\ position # NoPosition =>
       /\ i - position.entry \in 0 .. MaxHold - 1
       /\ trades # <<>> => Last(trades).exit <= position.entry

\* What a trade paid and received: each fill moves its price and a fee of it.
Paid(t) == EntryFill(t.side, t.rawIn)
Got(t) == ExitFill(t.side, t.rawOut)
Cash(t) == Gain(t.side, Paid(t), Got(t)) * Scale - Fee * (Paid(t) + Got(t))
AddCash(sum, t) == sum + Cash(t)

\* Each fill moves its price in cash and a fee of it, and nothing else does: the
\* equity is the capital and what the finished trades paid and received, however
\* the code splits it into gross result, slippage and fees (backtest.py:200-208).
EquityIsCash == equity = FoldLeft(AddCash, Capital * Scale * Scale, trades)

\* Both: the list of trades and the equity are those of one account.
TradesAddUp == TradesInOrder /\ EquityIsCash
=============================================================================
