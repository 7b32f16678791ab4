--------------------------- MODULE ResearchProofs ---------------------------
(***************************************************************************)
(* Proofs about Research: the backtest, the walk-forward folds, the        *)
(* adjustment of p-values and the lookahead guard, for data, requests,     *)
(* families and frames of any size.                                        *)
(* A request runs one computation, so each has an invariant of its own.    *)
(***************************************************************************)
EXTENDS Research, FiniteSetTheorems, SequenceTheorems, TLAPS

-----------------------------------------------------------------------------
(* The backtest.                                                           *)

CashFold == INSTANCE FoldTheorems WITH Op <- AddCash

Trades == [side : Sides, entry : Nat, rawIn : Prices, exit : Nat, rawOut : Nat,
           reason : Reasons, net : Int]

(* A bracket has one stop and one target at most, the stop on the losing   *)
(* side; what lies above the close is a price.                             *)
Bracketed(side, stop, target) ==
  /\ stop \subseteq Int /\ target \subseteq Int
  /\ IF side = "LONG" THEN target \subseteq Nat ELSE stop \subseteq Nat
  /\ (\A s \in stop : stop = {s}) /\ (\A t \in target : target = {t})
  /\ \A s \in stop, t \in target : IF side = "LONG" THEN s < t ELSE t < s

Holding(p) ==
  /\ p.side \in Sides /\ p.raw \in Prices /\ p.entry \in Nat
  /\ Bracketed(p.side, p.stop, p.target)

BookInv ==
  /\ bstat \in {"idle", "running", "done"} /\ i \in 0 .. NBars - 1 /\ bar \in Bars
  /\ sig \in UNION { SignalsAt(c) : c \in Prices }
  /\ position = NoPosition \/ Holding(position)
  /\ trades \in Seq(Trades) /\ equity \in Int

(* Every trade ended by now, and before the open position began. *)
Ordered(list, p, now) ==
  /\ \A k \in 1 .. Len(list) :
       /\ list[k].exit <= now /\ list[k].exit - list[k].entry \in 0 .. MaxHold
       /\ list[k].exit = list[k].entry => list[k].reason = "END_OF_DATA"
       /\ k > 1 => list[k - 1].exit <= list[k].entry
  /\ p # NoPosition =>
       /\ now - p.entry \in 0 .. MaxHold - 1
       /\ \A k \in 1 .. Len(list) : list[k].exit <= p.entry

OrderInv == Ordered(trades, position, i)

BacktestInv == BookInv /\ OrderInv /\ EquityIsCash

(* A signal that enters has its bracket around the close. *)
LEMMA SignalOK ==
  ASSUME NEW s \in UNION { SignalsAt(c) : c \in Prices }
  PROVE  /\ s.action \in {"HOLD", "EXIT_LONG", "EXIT_SHORT"} \cup Enters
         /\ s.action = "ENTER_LONG" => Bracketed("LONG", s.stop, s.target)
         /\ s.action = "ENTER_SHORT" => Bracketed("SHORT", s.stop, s.target)
<1>1. PICK c \in Prices : s \in SignalsAt(c)
  OBVIOUS
<1>2. c \in Nat /\ Reach \in Nat \ {0}
  BY BacktestAssumption DEF Prices
<1>3. CASE s = NoSignal
  BY <1>3 DEF NoSignal, Enters
<1>4. CASE s \in { [action |-> a, stop |-> {}, target |-> {}] :
                     a \in {"EXIT_LONG", "EXIT_SHORT"} \cup Enters }
  BY <1>4 DEF Bracketed, Enters
<1>5. CASE s = [action |-> "ENTER_LONG", stop |-> {c - Reach}, target |-> {c + Reach}]
  BY <1>2, <1>5 DEF Bracketed, Enters
<1>6. CASE s = [action |-> "ENTER_SHORT", stop |-> {c + Reach}, target |-> {c - Reach}]
  BY <1>2, <1>6 DEF Bracketed, Enters
<1> QED
  BY <1>1, <1>3, <1>4, <1>5, <1>6 DEF SignalsAt

LEMMA BarOK ==
  ASSUME NEW b \in Bars
  PROVE  /\ b.open \in Prices /\ b.high \in Prices /\ b.low \in Prices /\ b.close \in Prices
         /\ b.low <= b.open /\ b.open <= b.high /\ b.low <= b.close /\ b.close <= b.high
BY DEF Bars

LEMMA NoneHeld == ~Holding(NoPosition)
BY DEF Holding, NoPosition, Sides

(* What a bar leaves is held from that bar on, or was held before.         *)
Left(q, p, s, at) ==
  /\ q = NoPosition \/ Holding(q)
  /\ p # NoPosition => q = p
  /\ p = NoPosition /\ s.action \in Enters =>
       Holding(q) /\ q.entry = at /\ q.side = IF s.action = "ENTER_LONG" THEN "LONG" ELSE "SHORT"
  /\ p = NoPosition /\ s.action \notin Enters => q = NoPosition

LEMMA TakenOK ==
  ASSUME NEW p, p = NoPosition \/ Holding(p), NEW s \in UNION { SignalsAt(c) : c \in Prices },
         NEW b \in Bars, NEW at \in Nat
  PROVE  Left(Taken(p, s, b, at), p, s, at)
<1>1. CASE p = NoPosition /\ s.action \in Enters
  <2> DEFINE side == IF s.action = "ENTER_LONG" THEN "LONG" ELSE "SHORT"
  <2>1. Taken(p, s, b, at) = [side |-> side, raw |-> b.open, entry |-> at,
                              stop |-> s.stop, target |-> s.target]
    BY <1>1 DEF Taken, Opened
  <2>2. Bracketed(side, s.stop, s.target) /\ side \in Sides
    BY <1>1, SignalOK DEF Enters, Sides
  <2>3. b.open \in Prices
    BY BarOK
  <2>4. Holding(Taken(p, s, b, at))
    BY <2>1, <2>2, <2>3 DEF Holding
  <2> QED
    BY <1>1, <2>1, <2>4 DEF Left
<1>2. CASE ~(p = NoPosition /\ s.action \in Enters)
  BY <1>2 DEF Taken, Left
<1> QED
  BY <1>1, <1>2

(* The net result of a trade is the cash it moved.                         *)
LEMMA NetIsCash ==
  ASSUME NEW side \in Sides, NEW in \in Nat, NEW out \in Nat, NEW t,
         t.side = side, t.rawIn = in, t.rawOut = out
  PROVE  NetOf(side, in, out) = Cash(t) /\ Cash(t) \in Int
<1> DEFINE S == Scale
           L == Slip
           F == Fee
<1>1. S \in Nat \ {0} /\ L \in Nat /\ F \in Nat
  BY BacktestAssumption
<1> HIDE DEF S, L, F
<1> DEFINE a == in * S
           b == in * L
           c == out * S
           d == out * L
<1>2. a \in Nat /\ b \in Nat /\ c \in Nat /\ d \in Nat
  BY <1>1
<1>3. /\ in * (S + L) = a + b /\ in * (S - L) = a - b
      /\ out * (S + L) = c + d /\ out * (S - L) = c - d
  BY <1>1
<1>4. (out - in) * S = c - a /\ (in - out) * S = a - c
  BY <1>1
<1> HIDE DEF a, b, c, d
<1>5. CASE side = "LONG"
  <2>1. EntryFill(side, in) = a + b /\ ExitFill(side, out) = c - d
    BY <1>3, <1>5 DEF EntryFill, ExitFill, S, L
  <2>2. Distance(a + b, a) = b /\ Distance(c, c - d) = d
    BY <1>2 DEF Distance
  <2>3. NetOf(side, in, out) = (out - in) * S * S - ((a + b) + (c - d)) * F - (b + d) * S
    BY <2>1, <2>2, <1>5 DEF NetOf, Gain, S, F, a, c
  <2>4. Cash(t) = ((c - d) - (a + b)) * S - F * ((a + b) + (c - d))
    BY <2>1, <1>5 DEF Cash, Gain, Paid, Got, S, F
  <2>5. (out - in) * S * S = (c - a) * S
    BY <1>4
  <2>6. ((c - d) - (a + b)) * S = (c - a) * S - (b + d) * S
    BY <1>1, <1>2
  <2>7. F * ((a + b) + (c - d)) = ((a + b) + (c - d)) * F /\ F * ((a + b) + (c - d)) \in Int
        /\ (c - a) * S \in Int /\ (b + d) * S \in Int
    BY <1>1, <1>2
  <2> QED
    BY <2>3, <2>4, <2>5, <2>6, <2>7
<1>6. CASE side = "SHORT"
  <2>1. EntryFill(side, in) = a - b /\ ExitFill(side, out) = c + d
    BY <1>3, <1>6 DEF EntryFill, ExitFill, S, L
  <2>2. Distance(a - b, a) = b /\ Distance(c, c + d) = d
    BY <1>2 DEF Distance
  <2>3. NetOf(side, in, out) = (in - out) * S * S - ((a - b) + (c + d)) * F - (b + d) * S
    BY <2>1, <2>2, <1>6 DEF NetOf, Gain, S, F, a, c
  <2>4. Cash(t) = ((a - b) - (c + d)) * S - F * ((a - b) + (c + d))
    BY <2>1, <1>6 DEF Cash, Gain, Paid, Got, S, F
  <2>5. (in - out) * S * S = (a - c) * S
    BY <1>4
  <2>6. ((a - b) - (c + d)) * S = (a - c) * S - (b + d) * S
    BY <1>1, <1>2
  <2>7. F * ((a - b) + (c + d)) = ((a - b) + (c + d)) * F /\ F * ((a - b) + (c + d)) \in Int
        /\ (a - c) * S \in Int /\ (b + d) * S \in Int
    BY <1>1, <1>2
  <2> QED
    BY <2>3, <2>4, <2>5, <2>6, <2>7
<1> QED
  BY <1>5, <1>6 DEF Sides

(* An exit is booked at a price.                                           *)
LEMMA ExitIsPriced ==
  ASSUME NEW p, Holding(p), NEW b \in Bars, NEW at, NEW s, NEW reason,
         reason = ExitReason(p, b, at, s), reason # "NONE", NEW raw \in ExitPrices(p, b, reason)
  PROVE  raw \in Nat /\ reason \in Reasons \ {"END_OF_DATA"}
<1>1. /\ b.open \in Nat /\ b.high \in Nat /\ b.low \in Nat
  BY BarOK DEF Prices
<1>2. reason \in Reasons \ {"END_OF_DATA"}
  BY DEF ExitReason, Reasons
<1>3. CASE reason = "STOP_LOSS"
  <2>1. raw \in p.stop
    BY <1>3 DEF ExitPrices
  <2>2. StopTouched(p, b)
    BY <1>3 DEF ExitReason
  <2>3. PICK x \in p.stop : IF p.side = "LONG" THEN b.low <= x ELSE b.high >= x
    BY <2>2 DEF StopTouched
  <2>4. raw = x
    BY <2>1, <2>3 DEF Holding, Bracketed
  <2> QED
    BY <1>1, <1>2, <2>1, <2>3, <2>4 DEF Holding, Bracketed
<1>4. CASE reason = "TAKE_PROFIT"
  <2>1. raw \in p.target
    BY <1>4 DEF ExitPrices
  <2>2. TargetTouched(p, b)
    BY <1>4 DEF ExitReason
  <2>3. PICK x \in p.target : IF p.side = "LONG" THEN b.high >= x ELSE b.low <= x
    BY <2>2 DEF TargetTouched
  <2>4. raw = x
    BY <2>1, <2>3 DEF Holding, Bracketed
  <2> QED
    BY <1>1, <1>2, <2>1, <2>3, <2>4 DEF Holding, Bracketed
<1>5. CASE reason \notin {"STOP_LOSS", "TAKE_PROFIT"}
  <2>1. raw = b.open
    BY <1>5 DEF ExitPrices
  <2> QED
    BY <1>1, <1>2, <2>1
<1> QED
  BY <1>3, <1>4, <1>5

(* One trade more: the list and the equity.                                *)
LEMMA TradeOK ==
  ASSUME NEW p, Holding(p), NEW at \in Nat, NEW raw \in Nat, NEW reason \in Reasons
  PROVE  LET t == TradeOf(p, at, raw, reason)
         IN  /\ t \in Trades /\ t.net = Cash(t) /\ t.entry = p.entry /\ t.exit = at
             /\ t.reason = reason /\ t.side = p.side /\ t.rawIn = p.raw /\ t.rawOut = raw
<1> DEFINE t == TradeOf(p, at, raw, reason)
<1>1. t = [side |-> p.side, entry |-> p.entry, rawIn |-> p.raw, exit |-> at, rawOut |-> raw,
           reason |-> reason, net |-> NetOf(p.side, p.raw, raw)]
  BY DEF TradeOf
<1>2. p.side \in Sides /\ p.raw \in Prices /\ p.raw \in Nat /\ p.entry \in Nat
  BY DEF Holding, Prices
<1> HIDE DEF t
<1>3. t.side = p.side /\ t.rawIn = p.raw /\ t.rawOut = raw /\ t.net = NetOf(p.side, p.raw, raw)
      /\ t.entry = p.entry /\ t.exit = at /\ t.reason = reason
  BY <1>1
<1>4. NetOf(p.side, p.raw, raw) = Cash(t) /\ Cash(t) \in Int
  BY <1>2, <1>3, NetIsCash
<1>5. t \in Trades
  BY <1>1, <1>2, <1>4 DEF Trades
<1> QED
  BY <1>3, <1>4, <1>5 DEF t

LEMMA OneTradeMore ==
  ASSUME NEW s \in Seq(Trades), NEW t \in Trades
  PROVE  /\ Append(s, t) \in Seq(Trades) /\ Len(s) \in Nat /\ Len(Append(s, t)) = Len(s) + 1
         /\ \A k \in 1 .. Len(s) : Append(s, t)[k] = s[k] /\ s[k] \in Trades
         /\ Append(s, t)[Len(s) + 1] = t
OBVIOUS

CashOf(list) == FoldLeft(AddCash, Capital * Scale * Scale, list)

LEMMA CashIsFolded ==
  ASSUME NEW s
  PROVE  CashOf(s) = CashFold!Folded(Capital * Scale * Scale, s)
BY Zenon DEF CashOf, CashFold!Folded, FoldLeft, CashFold!FoldLeft, MapThenFoldSet,
       CashFold!MapThenFoldSet, Max, CashFold!Max

LEMMA CashAdds ==
  ASSUME NEW s \in Seq(Trades), NEW t \in Trades
  PROVE  CashOf(Append(s, t)) = CashOf(s) + Cash(t)
<1>1. CashFold!Folded(Capital * Scale * Scale, Append(s, t))
        = AddCash(CashFold!Folded(Capital * Scale * Scale, s), t)
  BY CashFold!FoldOfMore
<1>2. CashOf(Append(s, t)) = AddCash(CashOf(s), t)
  BY ONLY <1>1, CashIsFolded
<1> QED
  BY ONLY <1>2 DEF AddCash

LEMMA CashOfNone == CashOf(<<>>) = Capital * Scale * Scale
BY CashIsFolded, CashFold!FoldOfNone

LEMMA BacktestInit == Init => BacktestInv
<1> SUFFICES ASSUME BInit PROVE BacktestInv
  BY DEF Init
<1>1. i = 0 /\ trades = <<>> /\ position = NoPosition /\ bstat = "idle"
  BY DEF BInit
<1>2. bar \in Bars
  <2>1. 1 \in Prices
    BY BacktestAssumption DEF Prices
  <2> QED
    BY <2>1 DEF BInit, Bars
<1>3. sig \in UNION { SignalsAt(c) : c \in Prices }
  BY BacktestAssumption DEF BInit, SignalsAt, Prices
<1>4. equity = Capital * Scale * Scale /\ equity \in Int
  BY BacktestAssumption DEF BInit
<1>5. 0 \in 0 .. NBars - 1
  BY BacktestAssumption
<1>6. BookInv
  BY <1>1, <1>2, <1>3, <1>4, <1>5 DEF BookInv
<1>7. OrderInv
  BY <1>1 DEF OrderInv, Ordered
<1>8. EquityIsCash
  BY <1>1, <1>4, CashOfNone DEF EquityIsCash, CashOf
<1> QED
  BY <1>6, <1>7, <1>8 DEF BacktestInv

(* One trade more, of the position held until now, and what is held after. *)
LEMMA OrderedMore ==
  ASSUME NEW list \in Seq(Trades), NEW p, NEW n \in Nat, Holding(p), Ordered(list, p, n),
         NEW at \in {n, n + 1}, NEW t \in Trades, t.entry = p.entry, t.exit = at,
         at - p.entry \in 0 .. MaxHold, at = p.entry => t.reason = "END_OF_DATA",
         NEW q, q = NoPosition \/ q.entry = at
  PROVE  Ordered(Append(list, t), q, at)
<1> DEFINE more == Append(list, t)
<1>1. /\ Len(list) \in Nat /\ Len(more) = Len(list) + 1
      /\ \A k \in 1 .. Len(list) : more[k] = list[k] /\ list[k] \in Trades
      /\ more[Len(list) + 1] = t
  BY OneTradeMore
<1> HIDE DEF more
<1>2. p # NoPosition /\ p.entry \in Nat /\ MaxHold \in Nat \ {0}
  BY NoneHeld, BacktestAssumption DEF Holding
<1>3. \A k \in 1 .. Len(list) :
        /\ list[k].exit \in Nat /\ list[k].exit <= n /\ list[k].exit <= p.entry
        /\ list[k].exit - list[k].entry \in 0 .. MaxHold
        /\ list[k].exit = list[k].entry => list[k].reason = "END_OF_DATA"
        /\ k > 1 => list[k - 1].exit <= list[k].entry
  BY <1>1, <1>2 DEF Ordered, Trades
<1>4. \A k \in 1 .. Len(more) :
        /\ more[k].exit \in Nat /\ more[k].exit <= at
        /\ more[k].exit - more[k].entry \in 0 .. MaxHold
        /\ more[k].exit = more[k].entry => more[k].reason = "END_OF_DATA"
        /\ k > 1 => more[k - 1].exit <= more[k].entry
  <2> TAKE k \in 1 .. Len(more)
  <2>1. CASE k \in 1 .. Len(list)
    <3>1. more[k] = list[k] /\ (k > 1 => more[k - 1] = list[k - 1])
      BY ONLY <1>1, <2>1
    <3>2. at \in Nat /\ n <= at
      OBVIOUS
    <3> QED
      BY ONLY <1>3, <2>1, <3>1, <3>2, n \in Nat
  <2>2. CASE k = Len(list) + 1
    <3>1. more[k] = t /\ (k > 1 => more[k - 1] = list[k - 1] /\ k - 1 \in 1 .. Len(list))
      BY ONLY <1>1, <2>2
    <3>2. /\ t.exit \in Nat /\ t.exit <= at /\ t.exit - t.entry \in 0 .. MaxHold
          /\ t.exit = t.entry => t.reason = "END_OF_DATA"
      BY <1>2
    <3>3. k > 1 => list[k - 1].exit <= t.entry
      BY ONLY <1>3, <3>1, t.entry = p.entry
    <3> QED
      BY ONLY <3>1, <3>2, <3>3
  <2> QED
    BY <1>1, <2>1, <2>2
<1>5. q # NoPosition => at - q.entry \in 0 .. MaxHold - 1
  BY <1>2
<1>6. q # NoPosition => \A k \in 1 .. Len(more) : more[k].exit <= q.entry
  BY <1>4
<1> QED
  BY ONLY <1>4, <1>5, <1>6 DEF Ordered, more

(* What the two steps over a bar share.                                    *)
LEMMA NextBarOK ==
  ASSUME BacktestInv, NEW b \in Bars, NextBar(b)
  PROVE  /\ i' = i + 1 /\ i \in Nat /\ i' \in 0 .. NBars - 1 /\ bar' = b /\ bar' \in Bars
         /\ bstat' \in {"idle", "running", "done"}
         /\ sig' \in UNION { SignalsAt(c) : c \in Prices }
<1>1. b.close \in Prices
  BY BarOK
<1> QED
  BY <1>1, BacktestAssumption DEF BacktestInv, BookInv, NextBar

LEMMA KeepBarKeeps == ASSUME BacktestInv, KeepBar PROVE BacktestInv'
<1>1. PICK b \in Bars :
        /\ NextBar(b)
        /\ position = NoPosition \/ ExitReason(position, b, i + 1, sig) = "NONE"
        /\ position' = Taken(position, sig, b, i + 1)
        /\ UNCHANGED <<trades, equity>>
  BY DEF KeepBar
<1>2. /\ i' = i + 1 /\ i \in Nat /\ i' \in 0 .. NBars - 1 /\ bar' \in Bars
      /\ bstat' \in {"idle", "running", "done"}
      /\ sig' \in UNION { SignalsAt(c) : c \in Prices }
  BY <1>1, NextBarOK
<1>3. /\ position = NoPosition \/ Holding(position)
      /\ sig \in UNION { SignalsAt(c) : c \in Prices } /\ trades \in Seq(Trades)
      /\ trades' = trades /\ equity' = equity /\ equity \in Int
  BY <1>1 DEF BacktestInv, BookInv
<1>4. /\ position' = NoPosition \/ Holding(position')
      /\ position # NoPosition => position' = position
      /\ position = NoPosition /\ position' # NoPosition => position'.entry = i + 1
  <2>1. i + 1 \in Nat
    BY <1>2
  <2>2. Left(Taken(position, sig, bar', i + 1), position, sig, i + 1)
    BY ONLY <1>2, <1>3, <2>1, TakenOK
  <2>3. position' = Taken(position, sig, bar', i + 1)
    BY <1>1 DEF NextBar
  <2> QED
    BY ONLY <2>2, <2>3 DEF Left
<1>5. BookInv'
  BY <1>2, <1>3, <1>4 DEF BookInv, Holding
<1>6. MaxHold \in Nat \ {0}
  BY BacktestAssumption
<1>7. \A k \in 1 .. Len(trades) : trades[k] \in Trades /\ trades[k].exit \in Nat
  <2>1. \A k \in 1 .. Len(trades) : trades[k] \in Trades
    BY <1>3, OneTradeMore
  <2> QED
    BY <2>1 DEF Trades
<1>8. position' # NoPosition =>
        /\ i' - position'.entry \in 0 .. MaxHold - 1
        /\ \A k \in 1 .. Len(trades) : trades[k].exit <= position'.entry
  <2>1. CASE position = NoPosition
    BY <1>2, <1>4, <1>6, <1>7, <2>1 DEF BacktestInv, OrderInv, Ordered
  <2>2. CASE position # NoPosition
    <3>1. ~((i + 1) - position.entry >= MaxHold)
      <4>1. ExitReason(position, bar', i + 1, sig) = "NONE"
        BY <1>1, <2>2 DEF NextBar
      <4>2. ~Expired(position, i + 1)
        BY ONLY <4>1, Zenon DEF ExitReason
      <4> QED
        BY ONLY <4>2 DEF Expired
    <3>2. position.entry \in Nat /\ position' = position
      BY <1>3, <1>4, <2>2 DEF Holding
    <3>3. i - position.entry \in 0 .. MaxHold - 1
      BY <2>2 DEF BacktestInv, OrderInv, Ordered
    <3>4. i' - position'.entry \in 0 .. MaxHold - 1
      BY <1>2, <1>6, <3>1, <3>2, <3>3
    <3> QED
      BY <2>2, <3>2, <3>4 DEF BacktestInv, OrderInv, Ordered
  <2> QED
    BY <2>1, <2>2
<1>9. OrderInv'
  BY <1>2, <1>3, <1>7, <1>8 DEF BacktestInv, OrderInv, Ordered
<1> QED
  BY <1>3, <1>5, <1>9 DEF BacktestInv, EquityIsCash

LEMMA ExitBarKeeps == ASSUME BacktestInv, ExitBar PROVE BacktestInv'
<1>1. PICK b \in Bars :
        /\ NextBar(b)
        /\ position # NoPosition /\ ExitReason(position, b, i + 1, sig) # "NONE"
        /\ \E raw \in ExitPrices(position, b, ExitReason(position, b, i + 1, sig)) :
             /\ trades' = Append(trades, TradeOf(position, i + 1, raw,
                                                 ExitReason(position, b, i + 1, sig)))
             /\ equity' = equity + TradeOf(position, i + 1, raw,
                                           ExitReason(position, b, i + 1, sig)).net
        /\ position' = Taken(NoPosition, sig, b, i + 1)
  BY DEF ExitBar
<1> DEFINE reason == ExitReason(position, b, i + 1, sig)
<1>2. PICK raw \in ExitPrices(position, b, reason) :
        /\ trades' = Append(trades, TradeOf(position, i + 1, raw, reason))
        /\ equity' = equity + TradeOf(position, i + 1, raw, reason).net
  BY <1>1
<1> DEFINE t == TradeOf(position, i + 1, raw, reason)
<1>3. /\ i' = i + 1 /\ i \in Nat /\ i' \in 0 .. NBars - 1 /\ bar' \in Bars
      /\ bstat' \in {"idle", "running", "done"}
      /\ sig' \in UNION { SignalsAt(c) : c \in Prices }
  BY <1>1, NextBarOK
<1>4. /\ Holding(position) /\ sig \in UNION { SignalsAt(c) : c \in Prices }
      /\ trades \in Seq(Trades) /\ equity \in Int /\ i + 1 \in Nat
  BY <1>1, <1>3 DEF BacktestInv, BookInv
<1>5. raw \in Nat /\ reason \in Reasons \ {"END_OF_DATA"}
  <2>1. reason # "NONE"
    BY <1>1
  <2> QED
    BY ONLY <1>4, <2>1, ExitIsPriced
<1>6. /\ t \in Trades /\ t.net = Cash(t) /\ t.entry = position.entry /\ t.exit = i + 1
      /\ t.reason = reason
  <2> HIDE DEF reason
  <2> QED
    BY <1>4, <1>5, TradeOK
<1>7. trades' = Append(trades, t) /\ equity' = equity + Cash(t)
  BY <1>2, <1>6
<1>8. position' = NoPosition \/ (Holding(position') /\ position'.entry = i + 1)
  <2>1. Left(Taken(NoPosition, sig, b, i + 1), NoPosition, sig, i + 1)
    BY ONLY <1>4, TakenOK
  <2> QED
    BY ONLY <1>1, <2>1 DEF Left
<1> HIDE DEF t, reason
<1>9. BookInv'
  <2>1. trades' \in Seq(Trades)
    BY ONLY <1>4, <1>6, <1>7, OneTradeMore
  <2>2. equity' \in Int
    BY ONLY <1>4, <1>6, <1>7 DEF Trades
  <2> QED
    BY ONLY <1>3, <1>8, <2>1, <2>2 DEF BookInv, Holding
<1>10. OrderInv'
  <2>1. position # NoPosition /\ position.entry \in Nat /\ MaxHold \in Nat \ {0}
    BY <1>1, <1>4, BacktestAssumption DEF Holding
  <2>2. i - position.entry \in 0 .. MaxHold - 1 /\ Ordered(trades, position, i)
    BY <1>1 DEF BacktestInv, OrderInv, Ordered
  <2>3. (i + 1) - position.entry \in 0 .. MaxHold /\ i + 1 # position.entry
    BY ONLY <1>3, <2>1, <2>2
  <2>4. Ordered(Append(trades, t), position', i + 1)
    BY ONLY <1>3, <1>4, <1>6, <1>8, <2>2, <2>3, OrderedMore
  <2> QED
    BY ONLY <1>3, <1>7, <2>4 DEF OrderInv
<1>11. EquityIsCash'
  <2>1. equity = CashOf(trades)
    BY DEF BacktestInv, EquityIsCash, CashOf
  <2>2. equity' = CashOf(trades')
    BY ONLY <1>4, <1>6, <1>7, <2>1, CashAdds
  <2> QED
    BY ONLY <2>2 DEF EquityIsCash, CashOf
<1> QED
  BY <1>9, <1>10, <1>11 DEF BacktestInv

LEMMA EndOfDataKeeps == ASSUME BacktestInv, EndOfData PROVE BacktestInv'
<1>1. /\ bstat' = "done" /\ position' = NoPosition /\ i' = i /\ bar' = bar /\ sig' = sig
      /\ i \in 0 .. NBars - 1 /\ i \in Nat /\ bar \in Bars
      /\ sig \in UNION { SignalsAt(c) : c \in Prices }
      /\ position = NoPosition \/ Holding(position)
      /\ trades \in Seq(Trades) /\ equity \in Int
      /\ Ordered(trades, position, i) /\ equity = CashOf(trades)
  BY BacktestAssumption
     DEF EndOfData, BacktestInv, BookInv, OrderInv, EquityIsCash, CashOf
<1>2. CASE position = NoPosition
  <2>1. trades' = trades /\ equity' = equity
    BY <1>2 DEF EndOfData
  <2>2. BookInv'
    BY ONLY <1>1, <2>1 DEF BookInv
  <2>3. OrderInv'
    BY ONLY <1>1, <1>2, <2>1 DEF OrderInv
  <2>4. EquityIsCash'
    BY ONLY <1>1, <2>1 DEF EquityIsCash, CashOf
  <2> QED
    BY <2>2, <2>3, <2>4 DEF BacktestInv
<1>3. CASE position # NoPosition
  <2> DEFINE t == TradeOf(position, i, bar.close, "END_OF_DATA")
  <2>1. trades' = Append(trades, t) /\ equity' = equity + t.net
    BY <1>3 DEF EndOfData
  <2>2. bar.close \in Nat /\ Holding(position) /\ "END_OF_DATA" \in Reasons
    BY <1>1, <1>3, BarOK DEF Prices, Reasons
  <2>3. /\ t \in Trades /\ t.net = Cash(t) /\ t.entry = position.entry /\ t.exit = i
        /\ t.reason = "END_OF_DATA"
    BY <1>1, <2>2, TradeOK
  <2> HIDE DEF t
  <2>4. trades' \in Seq(Trades)
    BY ONLY <1>1, <2>1, <2>3, OneTradeMore
  <2>5. equity' \in Int
    BY ONLY <1>1, <2>1, <2>3 DEF Trades
  <2>6. BookInv'
    BY ONLY <1>1, <2>4, <2>5 DEF BookInv
  <2>7. Ordered(Append(trades, t), NoPosition, i)
    <3>1. position.entry \in Nat /\ MaxHold \in Nat \ {0}
      BY <2>2, BacktestAssumption DEF Holding
    <3>2. i - position.entry \in 0 .. MaxHold - 1
      BY ONLY <1>1, <1>3 DEF Ordered
    <3>3. i - position.entry \in 0 .. MaxHold
      BY ONLY <1>1, <3>1, <3>2
    <3> QED
      BY ONLY <1>1, <2>2, <2>3, <3>3, OrderedMore
  <2>8. OrderInv'
    BY ONLY <1>1, <2>1, <2>7 DEF OrderInv
  <2>9. equity' = CashOf(trades')
    BY ONLY <1>1, <2>1, <2>3, CashAdds
  <2> QED
    BY <2>6, <2>8, <2>9 DEF BacktestInv, EquityIsCash, CashOf
<1> QED
  BY <1>2, <1>3

LEMMA BStartKeeps == ASSUME BacktestInv, BStart PROVE BacktestInv'
<1>1. PICK c \in Prices :
        bar' = [open |-> c, high |-> c, low |-> c, close |-> c] /\ sig' \in SignalsAt(c)
  BY DEF BStart
<1>2. bar' \in Bars
  BY <1>1 DEF Bars, Prices
<1>3. UNCHANGED <<i, position, trades, equity>> /\ bstat' = "running"
  BY DEF BStart
<1>4. BookInv'
  BY <1>1, <1>2, <1>3 DEF BacktestInv, BookInv, Holding
<1> QED
  BY <1>3, <1>4 DEF BacktestInv, OrderInv, EquityIsCash

LEMMA BacktestStutters == ASSUME BacktestInv, UNCHANGED bvars PROVE BacktestInv'
BY DEF BacktestInv, BookInv, OrderInv, EquityIsCash, bvars, Holding

(* The other computations leave the backtest alone.                        *)
LEMMA BacktestSteps == [Next]_vars => BNext \/ UNCHANGED bvars
BY Zenon DEF Next, RunBacktest, RunWalkForward, RunAdjustment, RunGuard, vars, bvars

LEMMA BacktestKept == Spec => []BacktestInv
<1>1. BacktestInv /\ [Next]_vars => BacktestInv'
  BY BacktestSteps, BStartKeeps, KeepBarKeeps, ExitBarKeeps, EndOfDataKeeps, BacktestStutters
     DEF BNext
<1> QED
  BY <1>1, BacktestInit, PTL DEF Spec

(* The trades of a backtest and its equity are those of one account,       *)
(* however long the data (backtest.py:154-251).                            *)
THEOREM TradesHold == Spec => []TradesAddUp
<1>1. BacktestInv => TradesAddUp
  <2> SUFFICES ASSUME BacktestInv PROVE TradesAddUp
    OBVIOUS
  <2>1. /\ Ordered(trades, position, i) /\ trades \in Seq(Trades)
        /\ EquityIsCash
    BY DEF BacktestInv, BookInv, OrderInv
  <2>2. trades # <<>> => Last(trades) = trades[Len(trades)] /\ Len(trades) \in 1 .. Len(trades)
    BY <2>1 DEF Last
  <2>3. TradesInOrder
    BY ONLY <2>1, <2>2 DEF Ordered, TradesInOrder
  <2> QED
    BY <2>1, <2>3 DEF TradesAddUp
<1> QED
  BY <1>1, BacktestKept, PTL

Rules == i' > i => SignalIsFollowed /\ WorstCase

LEMMA KeptByRules == ASSUME BacktestInv, KeepBar PROVE SignalIsFollowed /\ WorstCase
<1>1. PICK b \in Bars :
        /\ NextBar(b)
        /\ position = NoPosition \/ ExitReason(position, b, i + 1, sig) = "NONE"
        /\ position' = Taken(position, sig, b, i + 1)
  BY DEF KeepBar
<1>2. /\ position = NoPosition \/ Holding(position)
      /\ sig \in UNION { SignalsAt(c) : c \in Prices } /\ i + 1 \in Nat /\ bar' = b
  BY <1>1, NextBarOK DEF BacktestInv, BookInv
<1>3. Left(position', position, sig, i + 1)
  <2>1. Left(Taken(position, sig, b, i + 1), position, sig, i + 1)
    BY ONLY <1>2, TakenOK
  <2> QED
    BY ONLY <1>1, <2>1
<1>4. CASE position = NoPosition
  <2>1. SignalIsFollowed
    BY ONLY <1>3, <1>4 DEF Left, SignalIsFollowed, Enters, NoPosition
  <2>2. ~StopTouched(position, bar')
    BY <1>4 DEF StopTouched, NoPosition
  <2> QED
    BY <2>1, <2>2 DEF WorstCase
<1>5. CASE position # NoPosition
  <2>1. ~StopTouched(position, b) /\ ~Opposed(position, sig)
    BY <1>1, <1>5, Zenon DEF ExitReason
  <2>2. position' = position /\ position.side \in Sides
    BY <1>2, <1>3, <1>5 DEF Left, Holding
  <2>3. SignalIsFollowed
    BY ONLY <2>1, <2>2 DEF Opposed, SignalIsFollowed, Sides
  <2> QED
    BY <1>2, <2>1, <2>3 DEF WorstCase
<1> QED
  BY <1>4, <1>5

LEMMA ExitByRules == ASSUME BacktestInv, ExitBar PROVE SignalIsFollowed /\ WorstCase
<1>1. PICK b \in Bars :
        /\ NextBar(b) /\ position # NoPosition
        /\ \E raw \in ExitPrices(position, b, ExitReason(position, b, i + 1, sig)) :
             trades' = Append(trades, TradeOf(position, i + 1, raw,
                                              ExitReason(position, b, i + 1, sig)))
        /\ position' = Taken(NoPosition, sig, b, i + 1)
  BY DEF ExitBar
<1>2. /\ Holding(position) /\ trades \in Seq(Trades) /\ bar' = b /\ i' = i + 1
      /\ sig \in UNION { SignalsAt(c) : c \in Prices } /\ i + 1 \in Nat
  BY <1>1, NextBarOK DEF BacktestInv, BookInv
<1>3. SignalIsFollowed
  <2>1. Left(position', NoPosition, sig, i + 1)
    BY <1>1, <1>2, TakenOK
  <2> QED
    BY ONLY <2>1 DEF Left, SignalIsFollowed, Enters, NoPosition
<1>4. ASSUME StopTouched(position, b)
      PROVE  LET t == Last(trades') IN
             /\ Len(trades') = Len(trades) + 1 /\ t.exit = i' /\ t.reason = "STOP_LOSS"
             /\ t.side = position.side /\ t.entry = position.entry
             /\ t.rawOut \in position.stop
             /\ \A x \in position.target :
                  Gain(t.side, t.rawIn, t.rawOut) <= Gain(t.side, t.rawIn, x)
  <2>1. ExitReason(position, b, i + 1, sig) = "STOP_LOSS"
    BY <1>4 DEF ExitReason
  <2>2. PICK raw \in position.stop :
          trades' = Append(trades, TradeOf(position, i + 1, raw, "STOP_LOSS"))
    BY <1>1, <2>1 DEF ExitPrices
  <2> DEFINE t == TradeOf(position, i + 1, raw, "STOP_LOSS")
  <2>3. /\ t.side = position.side /\ t.rawIn = position.raw /\ t.rawOut = raw
        /\ t.entry = position.entry /\ t.exit = i + 1 /\ t.reason = "STOP_LOSS"
    BY DEF TradeOf
  <2>4. Len(trades') = Len(trades) + 1 /\ Last(trades') = t
    BY <1>2, <2>2 DEF Last
  <2>5. ASSUME NEW x \in position.target
        PROVE  Gain(position.side, position.raw, raw) <= Gain(position.side, position.raw, x)
    <3>1. /\ position.raw \in Int /\ raw \in Int /\ x \in Int
          /\ IF position.side = "LONG" THEN raw < x ELSE x < raw
      BY <1>2, <2>2 DEF Holding, Bracketed, Prices
    <3> QED
      BY ONLY <3>1 DEF Gain
  <2> QED
    BY <1>2, <2>3, <2>4, <2>5
<1> QED
  BY <1>2, <1>3, <1>4 DEF WorstCase

(* After every bar the book agrees with the signal of the bar before, and a *)
(* position whose stop the bar reaches is closed there and nowhere better   *)
(* (backtest.py:154-251; docs/BACKTESTING.md, section 3).                   *)
THEOREM BarsHold == Spec => BarsPlayedByRules
<1>1. BacktestInv /\ [Next]_vars => [Rules]_bvars
  <2> SUFFICES ASSUME BacktestInv, [Next]_vars, i' > i PROVE [Rules]_bvars
    BY DEF Rules
  <2>1. i \in Nat
    BY BacktestAssumption DEF BacktestInv, BookInv
  <2>2. UNCHANGED bvars \/ KeepBar \/ ExitBar
    <3>1. i' # i
      BY <2>1
    <3> QED
      BY <3>1, BacktestSteps DEF BNext, BStart, EndOfData
  <2> QED
    BY <2>2, KeptByRules, ExitByRules DEF Rules
<1> QED
  BY <1>1, BacktestKept, PTL DEF Spec, BarsPlayedByRules, Rules

-----------------------------------------------------------------------------
(* The folds of a walk-forward run.                                        *)

(* Where the next test window begins.                                      *)
NextTest == start + req.train + AtLeastOne(req.purge)

(* What every recorded fold of a proper request keeps to: it is out of sample *)
(* by itself, it ends before the next test window, and it is followed by a  *)
(* fold or is the last.                                                     *)
FoldHolds(f) ==
  /\ Rows(f.train) = f.train /\ Rows(f.test) = f.test
  /\ f.train.from < f.train.to /\ f.train.to < f.test.from
  /\ f.test.from < f.test.to /\ f.test.to <= Total
  /\ f.test.to <= NextTest
  /\ \/ f.test.from + StepOf(req) = NextTest
     \/ \E g \in folds : g.test.from = f.test.from + StepOf(req)

FoldsHoldSoFar ==
  /\ start \in Nat
  /\ \A f \in folds : FoldHolds(f)
  /\ \A f, g \in folds : f = g \/ Disjoint(f.test, g.test)

WInv ==
  /\ WTypeOK
  /\ wstat = "idle" => folds = {} /\ start = 0
  /\ wstat # "idle" => req \in WalkRequests
  /\ Proper(req) => FoldsHoldSoFar
  /\ wstat = "done" => NextTest + req.test > Total

FoldsType == [train : WindowsType, purge : WindowsType, test : WindowsType,
              embargo : WindowsType]
BarRanges == [from : 0 .. Total, to : 0 .. Total]

(* The bars of a slice are bars of the data, and a slice within the data is *)
(* what its bounds say.                                                    *)
LEMMA RowsType ==
  ASSUME NEW w \in WindowsType
  PROVE  /\ Rows(w) \in BarRanges
         /\ 0 <= w.from /\ w.from <= w.to /\ w.to <= Total => Rows(w) = w
<1>1. Total \in Nat /\ w.from \in Int /\ w.to \in Int /\ w = [from |-> w.from, to |-> w.to]
  BY WalkAssumption DEF WindowsType
<1>2. \A n \in Int : Clip(n) \in 0 .. Total /\ (0 <= n /\ n <= Total => Clip(n) = n)
  BY <1>1 DEF Clip
<1>3. Rows(w) \in BarRanges
  BY <1>1, <1>2 DEF Rows, BarRanges
<1>4. ASSUME 0 <= w.from, w.from <= w.to, w.to <= Total
      PROVE  Rows(w) = w
  <2>1. Clip(w.from) = w.from /\ Clip(w.to) = w.to
    BY <1>1, <1>2, <1>4
  <2> QED  BY <1>1, <2>1 DEF Rows
<1> QED  BY <1>3, <1>4

(* The numbers behind the windows of a fold.                               *)
LEMMA FoldNumbers ==
  ASSUME NEW r \in WalkRequests, NEW s \in Int
  PROVE  /\ r.train \in Int /\ r.test \in Int
         /\ AtLeastOne(r.purge) \in Nat /\ AtLeastOne(r.purge) >= 1
         /\ StepOf(r) \in Int /\ StepOf(r) >= r.test
         /\ TestOf(r, s).from = s + r.train + AtLeastOne(r.purge)
         /\ TestOf(r, s).to = s + r.train + AtLeastOne(r.purge) + r.test
         /\ TrainOf(r, s).to = s + r.train
         /\ TrainOf(r, s).from = s \/ TrainOf(r, s).from = 0
         /\ TrainOf(r, s) \in WindowsType /\ TestOf(r, s) \in WindowsType
         /\ FoldAt(r, s) \in FoldsType
<1>1. r.train \in Int /\ r.purge \in Int /\ r.test \in Int /\ r.embargo \in Int /\ r.step \in Int
  BY WalkAssumption
<1>2. /\ AtLeastOne(r.purge) \in Nat /\ AtLeastOne(r.purge) >= 1
      /\ AtLeastOne(r.embargo) \in Nat
      /\ StepOf(r) \in Int /\ StepOf(r) >= r.test
  BY <1>1 DEF AtLeastOne, StepOf
<1>3. /\ TestOf(r, s).from = s + r.train + AtLeastOne(r.purge)
      /\ TestOf(r, s).to = s + r.train + AtLeastOne(r.purge) + r.test
      /\ TrainOf(r, s).to = s + r.train
      /\ TrainOf(r, s).from = s \/ TrainOf(r, s).from = 0
  BY DEF TestOf, TrainOf, PurgeOf, Window
<1>4. TrainOf(r, s) \in WindowsType
  BY <1>1 DEF TrainOf, WindowsType
<1>5. /\ PurgeOf(r, s) \in WindowsType /\ TestOf(r, s) \in WindowsType
      /\ EmbargoOf(r, s) \in WindowsType
  BY <1>1, <1>2 DEF PurgeOf, TestOf, EmbargoOf, Window, WindowsType
<1>6. FoldAt(r, s) \in FoldsType
  BY <1>4, <1>5 DEF FoldAt, FoldsType
<1> QED  BY <1>1, <1>2, <1>3, <1>4, <1>5, <1>6

(* A turn of the loop keeps the invariant: the new fold begins where all others *)
(* have ended, and the next one begins at least a test window later.       *)
LEMMA EvaluateKeeps ==
  ASSUME WInv, EvaluateFold
  PROVE  WInv'
<1> PICK new : new = FoldAt(req, start)
  OBVIOUS
<1> DEFINE p == AtLeastOne(req.purge)
<1>1. /\ req \in WalkRequests /\ start \in Int /\ wstat = "walking"
      /\ wstat' = wstat /\ req' = req /\ folds' = folds \cup {new}
      /\ start' = start + StepOf(req)
  BY DEF WInv, WTypeOK, EvaluateFold
<1>2. /\ req.train \in Int /\ req.test \in Int /\ p \in Nat /\ p >= 1
      /\ StepOf(req) \in Int /\ StepOf(req) >= req.test
  BY <1>1, FoldNumbers
<1>3. /\ new.test.from = start + req.train + p
      /\ new.test.to = start + req.train + p + req.test
      /\ new.train.to = start + req.train
      /\ new.train.from = start \/ new.train.from = 0
      /\ new.train = TrainOf(req, start) /\ new.test = TestOf(req, start)
      /\ new \in FoldsType /\ new.train \in WindowsType /\ new.test \in WindowsType
  BY <1>1, FoldNumbers DEF FoldAt
<1>4. NextTest \in Int /\ NextTest' = NextTest + StepOf(req) /\ new.test.from = NextTest
  BY <1>1, <1>2, <1>3 DEF NextTest
<1>5. StepOf(req)' = StepOf(req) /\ Proper(req)' = Proper(req)
  BY <1>1
<1>6. WTypeOK'
  <2>1. start' \in Int
    BY <1>1, <1>2
  <2>2. Rows(new.train) \in BarRanges /\ Rows(new.test) \in BarRanges
    BY <1>3, RowsType
  <2>3. evaluated' \subseteq BarRanges
    BY <1>3, <2>2 DEF WInv, WTypeOK, EvaluateFold, BarRanges
  <2>4. folds' \subseteq FoldsType
    BY <1>1, <1>3 DEF WInv, WTypeOK, FoldsType
  <2> QED  BY <1>1, <2>1, <2>3, <2>4 DEF WInv, WTypeOK, FoldsType, BarRanges
<1>7. ASSUME Proper(req)
      PROVE  FoldsHoldSoFar'
  <2>1. /\ start \in Nat /\ req.train \in Nat /\ req.test \in Nat /\ StepOf(req) \in Nat
        /\ FoldsHoldSoFar
    BY <1>2, <1>7 DEF WInv, FoldsHoldSoFar, Proper
  <2>2. new.test.to <= Total
    BY <1>3 DEF EvaluateFold, Fits
  <2>3. /\ 0 <= new.train.from /\ new.train.from <= new.train.to
        /\ new.train.to < new.test.from /\ new.train.to <= Total
        /\ 0 <= new.test.from /\ new.test.from <= new.test.to
    <3>1. new.train.from <= new.train.to /\ 0 <= new.train.from
      BY <1>3, <2>1
    <3>2. new.train.to < new.test.from /\ new.test.from <= new.test.to /\ 0 <= new.train.to
      BY <1>2, <1>3, <2>1
    <3>3. new.train.to \in Int /\ new.test.from \in Int /\ new.test.to \in Int
      BY <1>3 DEF WindowsType
    <3> QED  BY <2>2, <3>1, <3>2, <3>3, WalkAssumption
  <2>4. Rows(new.train) = new.train /\ Rows(new.test) = new.test
    BY <1>3, <2>2, <2>3, RowsType
  <2>5. new.train.from < new.train.to /\ new.test.from < new.test.to
    <3>1. /\ ~ (new.train.to <= new.train.from) /\ ~ (new.test.to <= new.test.from)
      BY <1>3, <2>4 DEF EvaluateFold, Empty
    <3> QED  BY <1>3, <3>1 DEF WindowsType
  <2>6. FoldHolds(new)'
    <3>1. new.test.to <= NextTest' /\ new.test.from + StepOf(req) = NextTest'
      BY <1>1, <1>2, <1>3, <1>4 DEF NextTest
    <3> QED  BY <1>5, <2>2, <2>3, <2>4, <2>5, <3>1 DEF FoldHolds
  <2>7. ASSUME NEW f \in folds
        PROVE  FoldHolds(f)'
    <3>1. FoldHolds(f) /\ f.test.to \in Int /\ f.test.from \in Int
      BY <2>1 DEF WInv, WTypeOK, WindowsType, FoldsHoldSoFar
    <3>2. f.test.to <= NextTest'
      BY <1>4, <2>1, <3>1 DEF FoldHolds
    <3>3. \E g \in folds' : g.test.from = f.test.from + StepOf(req)
      BY <1>1, <1>4, <3>1 DEF FoldHolds
    <3> QED  BY <1>5, <3>1, <3>2, <3>3 DEF FoldHolds
  <2>8. \A f, g \in folds' : f = g \/ Disjoint(f.test, g.test)
    <3>1. \A f \in folds : f.test.to <= new.test.from
      BY <1>4, <2>1 DEF FoldsHoldSoFar, FoldHolds
    <3> QED  BY <1>1, <2>1, <3>1 DEF FoldsHoldSoFar, Disjoint
  <2>9. start' \in Nat
    BY <1>1, <2>1
  <2> QED  BY <1>1, <2>6, <2>7, <2>8, <2>9 DEF FoldsHoldSoFar
<1> QED  BY <1>1, <1>5, <1>6, <1>7 DEF WInv

(* The invariant holds throughout: the other steps leave the folds alone.  *)
LEMMA WalkKept == Spec => []WInv
<1>1. Init => WInv
  BY DEF Init, WInit, WInv, WTypeOK, WindowsType, FoldsHoldSoFar
<1>2. WInv /\ [Next]_vars => WInv'
  <2> SUFFICES ASSUME WInv, [Next]_vars
               PROVE  WInv'
    OBVIOUS
  <2>0. WNext \/ UNCHANGED wvars
    BY Zenon DEF Next, RunBacktest, RunWalkForward, RunAdjustment, RunGuard, vars, wvars
  <2>1. CASE WStart
    <3>1. /\ folds = {} /\ folds' = {} /\ wstat' = "walking" /\ req' \in WalkRequests
          /\ start' = 0 /\ start = 0 /\ evaluated' = evaluated
      BY <2>1 DEF WInv, WStart
    <3>2. FoldsHoldSoFar'
      BY <3>1 DEF FoldsHoldSoFar
    <3> QED  BY <3>1, <3>2 DEF WInv, WTypeOK
  <2>2. CASE EvaluateFold
    BY <2>2, EvaluateKeeps
  <2>3. CASE RaiseOnEmpty
    <3>1. /\ req \in WalkRequests /\ start \in Int /\ wstat' = "failed"
          /\ folds' = folds /\ req' = req /\ start' = start
      BY <2>3 DEF WInv, WTypeOK, RaiseOnEmpty
    <3>2. evaluated' \subseteq BarRanges
      <4>1. Rows(TrainOf(req, start)) \in BarRanges
        BY <3>1, FoldNumbers, RowsType
      <4> QED  BY <2>3, <4>1 DEF WInv, WTypeOK, RaiseOnEmpty, BarRanges
    <3>3. WTypeOK'
      BY <3>1, <3>2 DEF WInv, WTypeOK, BarRanges
    <3>4. Proper(req') => FoldsHoldSoFar'
      BY <3>1 DEF WInv, FoldsHoldSoFar, FoldHolds, NextTest
    <3> QED  BY <3>1, <3>3, <3>4 DEF WInv
  <2>4. CASE EndOfFolds
    <3>1. /\ req \in WalkRequests /\ start \in Int /\ wstat' = "done"
          /\ folds' = folds /\ req' = req /\ start' = start /\ evaluated' = evaluated
      BY <2>4 DEF WInv, WTypeOK, EndOfFolds
    <3>2. NextTest + req.test > Total
      <4>1. ~ (TestOf(req, start).to <= Total)
        BY <2>4 DEF EndOfFolds, Fits
      <4> QED  BY <3>1, <4>1, FoldNumbers, WalkAssumption DEF NextTest
    <3>3. Proper(req') => FoldsHoldSoFar'
      BY <3>1 DEF WInv, FoldsHoldSoFar, FoldHolds, NextTest
    <3> QED  BY <3>1, <3>2, <3>3 DEF WInv, WTypeOK, NextTest
  <2>5. CASE UNCHANGED wvars
    BY <2>5 DEF WInv, WTypeOK, FoldsHoldSoFar, FoldHolds, NextTest, wvars
  <2> QED  BY <2>0, <2>1, <2>2, <2>3, <2>4, <2>5 DEF WNext
<1> QED  BY <1>1, <1>2, PTL DEF Spec

(* The folds of a request whose training and test lengths are not negative *)
(* are out of sample on any data: training, purge and test follow each     *)
(* other, the bars evaluated are those of the windows recorded, and no bar *)
(* is tested twice; and a finished run has tested as many windows as the   *)
(* data has room for (walk_forward.py:102-159).                            *)
THEOREM FoldsHold == Spec => []FoldsSound
<1>1. WInv /\ Proper(req) => OutOfSample
  BY DEF WInv, FoldsHoldSoFar, FoldHolds, OutOfSample
<1>2. WInv /\ Proper(req) => NoFoldLeftOut
  <2> SUFFICES ASSUME WInv, Proper(req), wstat = "done"
               PROVE  /\ NextTest + req.test > Total
                      /\ \A f \in folds :
                           \/ f.test.from + StepOf(req) + req.test > Total
                           \/ \E g \in folds : g.test.from = f.test.from + StepOf(req)
    BY DEF NoFoldLeftOut, NextTest
  <2> QED  BY DEF WInv, FoldsHoldSoFar, FoldHolds
<1> QED  BY <1>1, <1>2, WalkKept, PTL DEF FoldsSound

-----------------------------------------------------------------------------
(* The adjustment of p-values.                                             *)

LEMMA TestingSizes == M \in Nat \ {0} /\ Unit \in Nat \ {0} /\ Ranks \in Nat \ {0}
BY TestingAssumption

LEMMA Times == ASSUME NEW x \in Nat, NEW y \in Nat PROVE x * y \in Nat
OBVIOUS

LEMMA Grows ==
  ASSUME NEW x \in Nat, NEW y \in Nat, NEW z \in Nat, x <= y
  PROVE  x * z <= y * z
<1>1. (y - x) * z \in Nat
  OBVIOUS
<1>2. y * z = x * z + (y - x) * z
  OBVIOUS
<1>3. x * z \in Nat /\ y * z \in Nat
  OBVIOUS
<1> QED
  BY ONLY <1>1, <1>2, <1>3

LEMMA Scaled ==
  ASSUME NEW x \in Nat, NEW y \in Nat, NEW z \in Nat \ {0}
  PROVE  x * z < y * z <=> x < y
<1>1. CASE x < y
  <2>1. (x + 1) * z <= y * z
    BY <1>1, Grows
  <2>2. (x + 1) * z = x * z + z
    OBVIOUS
  <2>3. x * z \in Nat /\ y * z \in Nat
    OBVIOUS
  <2> QED
    BY ONLY <1>1, <2>1, <2>2, <2>3, z \in Nat \ {0}
<1>2. CASE y <= x
  <2>1. y * z <= x * z
    BY <1>2, Grows
  <2>2. x * z \in Nat /\ y * z \in Nat
    OBVIOUS
  <2> QED
    BY ONLY <1>2, <2>1, <2>2, x \in Nat, y \in Nat
<1> QED
  BY <1>1, <1>2

LEMMA Divided ==
  ASSUME NEW x \in Nat \ {0}, NEW y \in Nat \ {0}, x % y = 0
  PROVE  x \div y \in Nat \ {0} /\ x = y * (x \div y)
<1>1. x \in Int /\ y \in Int /\ y > 0
  OBVIOUS
<1>2. x = (x \div y) * y
  BY ONLY <1>1, x % y = 0
<1>3. x \div y \in Nat
  OBVIOUS
<1>4. x \div y # 0
  BY ONLY <1>1, <1>2, x # 0
<1> QED
  BY ONLY <1>1, <1>2, <1>3, <1>4

(* The cap at 1 hides nothing from a significance level.                   *)
LEMMA CapBelow ==
  ASSUME NEW x \in Nat, NEW alpha \in Alphas
  PROVE  /\ Capped(x) \in 0 .. Unit * Ranks
         /\ Capped(x) < alpha * Ranks <=> x < alpha * Ranks
<1>1. alpha \in Nat /\ alpha <= Unit
  BY TestingAssumption
<1>2. alpha * Ranks <= Unit * Ranks
  BY <1>1, TestingSizes, Grows
<1>3. alpha * Ranks \in Nat /\ Unit * Ranks \in Nat
  BY <1>1, TestingSizes
<1> QED
  BY ONLY <1>2, <1>3, x \in Nat DEF Capped

(* The greatest and the least of natural numbers up to a bound.            *)
LEMMA LeastOf ==
  ASSUME NEW S, S \subseteq Nat, S # {}
  PROVE  Min(S) \in S /\ \A x \in S : Min(S) <= x
<1>1. \E x \in S : \A y \in S : x <= y
  BY CashFold!LeastNumber
<1> QED
  BY <1>1 DEF Min

LEMMA GreatestOf ==
  ASSUME NEW n \in Nat, NEW S, S \subseteq 0 .. n, S # {}
  PROVE  Max(S) \in S /\ \A x \in S : x <= Max(S)
<1> DEFINE D == { n - x : x \in S }
<1>1. D \subseteq Nat /\ D # {}
  <2>1. \A x \in S : n - x \in Nat
    OBVIOUS
  <2>2. PICK x \in S : TRUE
    OBVIOUS
  <2>3. n - x \in D
    OBVIOUS
  <2> QED
    BY <2>1, <2>3
<1>2. \E d \in D : \A e \in D : d <= e
  <2> HIDE DEF D
  <2> QED
    BY <1>1, CashFold!LeastNumber
<1>3. PICK x \in S : \A y \in S : n - x <= n - y
  BY <1>2
<1>4. \A y \in S : x >= y
  BY <1>3
<1>5. \E z \in S : \A y \in S : z >= y
  BY <1>4
<1>6. Max(S) \in S /\ \A y \in S : Max(S) >= y
  BY ONLY <1>5, Zenon DEF Max
<1> QED
  BY <1>6

(* A sorting order is a permutation.                                       *)
At(order, h) == CHOOSE k \in Hypotheses : order[k] = h

Sorts(order, p) ==
  /\ order \in [Hypotheses -> Hypotheses]
  /\ \A a, b \in Hypotheses : order[a] = order[b] => a = b
  /\ \A a, b \in Hypotheses : a <= b => p[order[a]] <= p[order[b]]

LEMMA OrderSorts ==
  ASSUME NEW p \in [Hypotheses -> 0 .. Unit], NEW order \in SortedOrders(p)
  PROVE  Sorts(order, p)
<1>1. /\ order \in [Hypotheses -> Hypotheses]
      /\ \A a, b \in Hypotheses : order[a] = order[b] => a = b
      /\ \A a, b \in Hypotheses : a < b => p[order[a]] <= p[order[b]]
  BY DEF SortedOrders
<1>2. ASSUME NEW a \in Hypotheses, NEW b \in Hypotheses, a <= b
      PROVE  p[order[a]] <= p[order[b]]
  <2>1. p[order[a]] \in Nat
    <3>1. p[order[a]] \in 0 .. Unit
      BY <1>1
    <3> QED
      BY <3>1, TestingSizes
  <2>2. a \in Int /\ b \in Int
    BY DEF Hypotheses
  <2> QED
    BY <1>1, <1>2, <2>1, <2>2
<1> QED
  BY <1>1, <1>2 DEF Sorts

LEMMA RankOf ==
  ASSUME NEW p, NEW order, Sorts(order, p)
  PROVE  \A h \in Hypotheses : At(order, h) \in Hypotheses /\ order[At(order, h)] = h
<1>1. IsFiniteSet(Hypotheses)
  BY TestingSizes, FS_Interval DEF Hypotheses
<1>2. order \in Injection(Hypotheses, Hypotheses)
  BY DEF Sorts, Injection, IsInjective
<1>3. order \in Surjection(Hypotheses, Hypotheses)
  BY <1>1, <1>2, FS_Injection
<1>4. \A h \in Hypotheses : \E k \in Hypotheses : order[k] = h
  BY <1>3 DEF Surjection
<1> QED
  BY <1>4 DEF At

(* Hypotheses are as many as their ranks.                                  *)
LEMMA CountRanks ==
  ASSUME NEW p, NEW order, Sorts(order, p), NEW a \in Hypotheses, NEW b \in Hypotheses,
         a <= b, NEW T, T \subseteq Hypotheses
  PROVE  /\ Cardinality(T) \in Nat
         /\ (\A m \in a .. b : order[m] \in T) => b - a + 1 <= Cardinality(T)
         /\ (\A m \in Hypotheses : order[m] \in T => m \in a .. b) =>
              Cardinality(T) <= b - a + 1
<1>1. a \in Int /\ b \in Int /\ a .. b \subseteq Hypotheses
  BY TestingSizes DEF Hypotheses
<1>2. IsFiniteSet(a .. b) /\ Cardinality(a .. b) = b - a + 1
  BY <1>1, FS_Interval
<1>3. IsFiniteSet(T) /\ Cardinality(T) \in Nat
  <2>1. IsFiniteSet(Hypotheses)
    BY TestingSizes, FS_Interval DEF Hypotheses
  <2>2. IsFiniteSet(T)
    BY <2>1, FS_Subset
  <2> QED
    BY <2>2, FS_CardinalityType
<1>4. ASSUME \A m \in a .. b : order[m] \in T PROVE b - a + 1 <= Cardinality(T)
  <2> DEFINE f == [m \in a .. b |-> order[m]]
  <2>1. f \in Injection(a .. b, T)
    BY <1>1, <1>4 DEF Injection, IsInjective, Sorts
  <2> HIDE DEF f
  <2>2. Cardinality(a .. b) <= Cardinality(T)
    BY ONLY <1>3, <2>1, FS_Injection
  <2> QED
    BY <1>2, <2>2
<1>5. ASSUME \A m \in Hypotheses : order[m] \in T => m \in a .. b
      PROVE  Cardinality(T) <= b - a + 1
  <2> DEFINE f == [h \in T |-> At(order, h)]
  <2>1. \A h \in T : At(order, h) \in a .. b /\ order[At(order, h)] = h
    BY <1>5, RankOf
  <2>2. f \in Injection(T, a .. b)
    BY <2>1 DEF Injection, IsInjective
  <2> HIDE DEF f
  <2>3. Cardinality(T) <= Cardinality(a .. b)
    BY ONLY <1>2, <2>2, FS_Injection
  <2> QED
    BY <1>2, <2>3
<1> QED
  BY <1>3, <1>4, <1>5

(* The p-values in sorted order.                                           *)
InOrder(p, order) == [k \in Hypotheses |-> p[order[k]]]

Rising(q) ==
  /\ q \in [Hypotheses -> 0 .. Unit]
  /\ \A a, b \in Hypotheses : a <= b => q[a] <= q[b]

LEMMA InOrderRises ==
  ASSUME NEW p \in [Hypotheses -> 0 .. Unit], NEW order, Sorts(order, p)
  PROVE  /\ Rising(InOrder(p, order))
         /\ \A h \in Hypotheses : InOrder(p, order)[At(order, h)] = p[h]
<1>1. \A h \in Hypotheses : At(order, h) \in Hypotheses /\ order[At(order, h)] = h
  BY RankOf
<1>2. \A h \in Hypotheses : InOrder(p, order)[At(order, h)] = p[h]
  BY <1>1 DEF InOrder
<1>3. InOrder(p, order) \in [Hypotheses -> 0 .. Unit]
  BY DEF InOrder, Sorts
<1>4. \A a, b \in Hypotheses : a <= b => InOrder(p, order)[a] <= InOrder(p, order)[b]
  BY DEF InOrder, Sorts
<1> QED
  BY <1>2, <1>3, <1>4 DEF Rising

Above(p, t) == Cardinality({ h \in Hypotheses : p[h] >= t })
Below(p, t) == Cardinality({ h \in Hypotheses : p[h] <= t })
Values(p) == { p[h] : h \in Hypotheses }

(* At a rank, at least the ranks from it on are above; at the first rank   *)
(* of its value no others are.                                             *)
LEMMA AboveRank ==
  ASSUME NEW p \in [Hypotheses -> 0 .. Unit], NEW order, Sorts(order, p),
         NEW j \in Hypotheses, NEW t \in Nat
  PROVE  /\ Above(p, t) \in Nat
         /\ t <= InOrder(p, order)[j] => M - j + 1 <= Above(p, t)
         /\ (\A m \in Hypotheses : t <= InOrder(p, order)[m] => j <= m) =>
              Above(p, t) <= M - j + 1
<1> DEFINE q == InOrder(p, order)
           T == { h \in Hypotheses : p[h] >= t }
<1>1. /\ q \in [Hypotheses -> 0 .. Unit] /\ \A a, b \in Hypotheses : a <= b => q[a] <= q[b]
      /\ \A m \in Hypotheses : q[m] = p[order[m]] /\ order[m] \in Hypotheses
  BY InOrderRises DEF Rising, InOrder, Sorts
<1>2. M \in Hypotheses /\ j <= M /\ Hypotheses \subseteq Nat /\ Unit \in Nat
  BY TestingSizes DEF Hypotheses
<1>3. \A m \in Hypotheses : order[m] \in T <=> t <= q[m]
  <2> HIDE DEF q
  <2> QED
    BY <1>1, <1>2
<1> HIDE DEF q, T
<1>4. /\ Cardinality(T) \in Nat
      /\ (\A m \in j .. M : order[m] \in T) => M - j + 1 <= Cardinality(T)
      /\ (\A m \in Hypotheses : order[m] \in T => m \in j .. M) => Cardinality(T) <= M - j + 1
  <2>1. T \subseteq Hypotheses
    BY DEF T
  <2> QED
    BY <1>2, <2>1, CountRanks
<1>5. ASSUME t <= q[j] PROVE \A m \in j .. M : order[m] \in T
  <2> TAKE m \in j .. M
  <2>1. m \in Hypotheses /\ j <= m
    BY <1>2 DEF Hypotheses
  <2>2. q[j] <= q[m] /\ q[j] \in Nat /\ q[m] \in Nat
    BY <1>1, <1>2, <2>1
  <2> QED
    BY <1>3, <1>5, <2>1, <2>2
<1>6. ASSUME \A m \in Hypotheses : t <= q[m] => j <= m
      PROVE  \A m \in Hypotheses : order[m] \in T => m \in j .. M
  BY <1>2, <1>3, <1>6 DEF Hypotheses
<1>7. Above(p, t) = Cardinality(T)
  BY DEF Above, T
<1> QED
  BY <1>4, <1>5, <1>6, <1>7 DEF q

LEMMA BelowRank ==
  ASSUME NEW p \in [Hypotheses -> 0 .. Unit], NEW order, Sorts(order, p),
         NEW j \in Hypotheses, NEW t \in Nat
  PROVE  /\ Below(p, t) \in Nat
         /\ InOrder(p, order)[j] <= t => j <= Below(p, t)
         /\ (\A m \in Hypotheses : InOrder(p, order)[m] <= t => m <= j) => Below(p, t) <= j
<1> DEFINE q == InOrder(p, order)
           T == { h \in Hypotheses : p[h] <= t }
<1>1. /\ q \in [Hypotheses -> 0 .. Unit] /\ \A a, b \in Hypotheses : a <= b => q[a] <= q[b]
      /\ \A m \in Hypotheses : q[m] = p[order[m]] /\ order[m] \in Hypotheses
  BY InOrderRises DEF Rising, InOrder, Sorts
<1>2. 1 \in Hypotheses /\ 1 <= j /\ Hypotheses \subseteq Nat /\ Unit \in Nat
  BY TestingSizes DEF Hypotheses
<1>3. \A m \in Hypotheses : order[m] \in T <=> q[m] <= t
  <2> HIDE DEF q
  <2> QED
    BY <1>1, <1>2
<1> HIDE DEF q, T
<1>4. /\ Cardinality(T) \in Nat
      /\ (\A m \in 1 .. j : order[m] \in T) => j - 1 + 1 <= Cardinality(T)
      /\ (\A m \in Hypotheses : order[m] \in T => m \in 1 .. j) => Cardinality(T) <= j - 1 + 1
  <2>1. T \subseteq Hypotheses
    BY DEF T
  <2> QED
    BY <1>2, <2>1, CountRanks
<1>5. ASSUME q[j] <= t PROVE \A m \in 1 .. j : order[m] \in T
  <2> TAKE m \in 1 .. j
  <2>1. m \in Hypotheses /\ m <= j
    BY <1>2, TestingSizes DEF Hypotheses
  <2>2. q[m] <= q[j] /\ q[j] \in Nat /\ q[m] \in Nat
    BY <1>1, <1>2, <2>1
  <2> QED
    BY <1>3, <1>5, <2>1, <2>2
<1>6. ASSUME \A m \in Hypotheses : q[m] <= t => m <= j
      PROVE  \A m \in Hypotheses : order[m] \in T => m \in 1 .. j
  BY <1>2, <1>3, <1>6, TestingSizes DEF Hypotheses
<1>7. Below(p, t) = Cardinality(T) /\ j - 1 + 1 = j
  BY <1>2 DEF Below, T
<1> QED
  BY <1>4, <1>5, <1>6, <1>7 DEF q

(* An adjusted value is below alpha when the steps up to its rank are, or, *)
(* for Benjamini-Hochberg, when one from its rank on is.                   *)
LEMMA HolmBelow ==
  ASSUME NEW q, Rising(q), NEW k \in Hypotheses, NEW alpha \in Alphas
  PROVE  /\ HolmSorted(q)[k] \in 0 .. Unit * Ranks
         /\ HolmSorted(q)[k] < alpha * Ranks <=> \A j \in 1 .. k : q[j] * (M - j + 1) < alpha
<1> DEFINE S == { HolmAt(q, j) : j \in 1 .. k }
<1>1. \A j \in 1 .. k : j \in Hypotheses /\ q[j] \in Nat /\ M - j + 1 \in Nat
  BY TestingSizes DEF Hypotheses, Rising
<1>2. alpha \in Nat /\ Unit * Ranks \in Nat /\ alpha * Ranks \in Nat /\ 1 \in 1 .. k
  BY TestingSizes, TestingAssumption DEF Hypotheses
<1>3. \A j \in 1 .. k :
        /\ HolmAt(q, j) \in 0 .. Unit * Ranks
        /\ HolmAt(q, j) < alpha * Ranks <=> q[j] * (M - j + 1) < alpha
  <2> TAKE j \in 1 .. k
  <2> DEFINE x == q[j] * (M - j + 1)
  <2>1. x \in Nat
    BY <1>1, Times
  <2>2. HolmAt(q, j) = Capped(x * Ranks)
    BY DEF HolmAt
  <2> HIDE DEF x
  <2>3. x * Ranks \in Nat
    BY <2>1, TestingSizes, Times
  <2>4. /\ Capped(x * Ranks) \in 0 .. Unit * Ranks
        /\ Capped(x * Ranks) < alpha * Ranks <=> x * Ranks < alpha * Ranks
    BY ONLY <2>3, alpha \in Alphas, CapBelow
  <2>5. x * Ranks < alpha * Ranks <=> x < alpha
    BY ONLY <1>2, <2>1, TestingSizes, Scaled
  <2> QED
    BY ONLY <2>2, <2>4, <2>5 DEF x
<1>4. S \subseteq 0 .. Unit * Ranks /\ S # {}
  <2>1. HolmAt(q, 1) \in S
    BY <1>2
  <2> QED
    BY <1>3, <2>1
<1>5. Max(S) \in S /\ \A x \in S : x <= Max(S)
  <2> HIDE DEF S
  <2> QED
    BY ONLY <1>2, <1>4, GreatestOf
<1>6. HolmSorted(q)[k] = Max(S)
  BY DEF HolmSorted
<1>7. PICK j \in 1 .. k : Max(S) = HolmAt(q, j)
  BY <1>5
<1>8. \A n \in 1 .. k : HolmAt(q, n) <= Max(S)
  BY <1>5
<1> HIDE DEF S
<1>9. Max(S) < alpha * Ranks <=> \A n \in 1 .. k : HolmAt(q, n) < alpha * Ranks
  BY ONLY <1>2, <1>3, <1>7, <1>8
<1> QED
  BY ONLY <1>3, <1>6, <1>7, <1>9

LEMMA HochbergBelow ==
  ASSUME NEW q, Rising(q), NEW k \in Hypotheses, NEW alpha \in Alphas
  PROVE  /\ HochbergSorted(q)[k] \in 0 .. Unit * Ranks
         /\ HochbergSorted(q)[k] < alpha * Ranks <=> \E j \in k .. M : q[j] * M < alpha * j
<1> DEFINE S == { HochbergAt(q, j) : j \in k .. M }
<1>1. \A j \in k .. M : j \in Hypotheses /\ j \in Nat \ {0} /\ q[j] \in Nat
  BY TestingSizes DEF Hypotheses, Rising
<1>2. alpha \in Nat /\ Unit * Ranks \in Nat /\ alpha * Ranks \in Nat /\ M \in k .. M
  BY TestingSizes, TestingAssumption DEF Hypotheses
<1>3. \A j \in k .. M :
        /\ HochbergAt(q, j) \in 0 .. Unit * Ranks
        /\ HochbergAt(q, j) < alpha * Ranks <=> q[j] * M < alpha * j
  <2> TAKE j \in k .. M
  <2> DEFINE x == q[j] * M
             r == Ranks \div j
  <2>1. x \in Nat
    BY <1>1, TestingSizes, Times
  <2>2. HochbergAt(q, j) = Capped(x * r)
    BY DEF HochbergAt
  <2>3. r \in Nat \ {0} /\ Ranks = j * r
    <3>1. Ranks % j = 0
      BY <1>1, TestingAssumption DEF Hypotheses
    <3>2. Ranks \in Nat \ {0} /\ j \in Nat \ {0}
      BY <1>1, TestingSizes
    <3> QED
      BY ONLY <3>1, <3>2, Divided DEF r
  <2> HIDE DEF x, r
  <2>4. x * r \in Nat
    BY <2>1, <2>3, Times
  <2>5. /\ Capped(x * r) \in 0 .. Unit * Ranks
        /\ Capped(x * r) < alpha * Ranks <=> x * r < alpha * Ranks
    BY ONLY <2>4, alpha \in Alphas, CapBelow
  <2>6. alpha * Ranks = (alpha * j) * r /\ alpha * j \in Nat
    <3>1. alpha * (j * r) = (alpha * j) * r
      BY ONLY <1>1, <1>2, <2>3
    <3>2. alpha * j \in Nat
      BY <1>1, <1>2, Times
    <3> QED
      BY ONLY <2>3, <3>1, <3>2
  <2>7. x * r < (alpha * j) * r <=> x < alpha * j
    BY ONLY <2>1, <2>3, <2>6, Scaled
  <2> QED
    BY ONLY <2>2, <2>5, <2>6, <2>7 DEF x
<1>4. S \subseteq 0 .. Unit * Ranks /\ S # {}
  <2>1. HochbergAt(q, M) \in S
    BY <1>2
  <2> QED
    BY <1>3, <2>1
<1>5. Min(S) \in S /\ \A x \in S : Min(S) <= x
  <2>1. S \subseteq Nat
    BY ONLY <1>2, <1>4
  <2> HIDE DEF S
  <2> QED
    BY ONLY <1>4, <2>1, LeastOf
<1>6. HochbergSorted(q)[k] = Min(S)
  BY DEF HochbergSorted
<1>7. PICK j \in k .. M : Min(S) = HochbergAt(q, j)
  BY <1>5
<1>8. \A n \in k .. M : Min(S) <= HochbergAt(q, n)
  BY <1>5
<1> HIDE DEF S
<1>9. Min(S) < alpha * Ranks <=> \E n \in k .. M : HochbergAt(q, n) < alpha * Ranks
  BY ONLY <1>2, <1>3, <1>7, <1>8
<1> QED
  BY ONLY <1>3, <1>6, <1>7, <1>9

(* The first rank at or above a value that occurs, and the last at or      *)
(* below it, have that value.                                              *)
LEMMA FirstRank ==
  ASSUME NEW p \in [Hypotheses -> 0 .. Unit], NEW order, Sorts(order, p), NEW t \in Values(p)
  PROVE  \E j \in Hypotheses :
           /\ InOrder(p, order)[j] = t
           /\ \A m \in Hypotheses : t <= InOrder(p, order)[m] => j <= m
<1> DEFINE q == InOrder(p, order)
           J == { m \in Hypotheses : t <= q[m] }
<1>1. PICK h \in Hypotheses : t = p[h]
  BY DEF Values
<1>2. At(order, h) \in Hypotheses /\ q[At(order, h)] = t /\ t \in Nat
  BY <1>1, RankOf, InOrderRises
<1>3. Rising(q)
  BY InOrderRises
<1> HIDE DEF q
<1>4. Hypotheses \subseteq Nat /\ J \subseteq Nat /\ At(order, h) \in J
  BY <1>2 DEF Hypotheses
<1>5. \E j \in J : \A m \in J : j <= m
  <2> HIDE DEF J
  <2> QED
    BY <1>4, CashFold!LeastNumber
<1>6. PICK j \in J : \A m \in J : j <= m
  BY <1>5
<1>7. q[j] <= t
  BY <1>2, <1>3, <1>4, <1>6 DEF Rising
<1>8. q[j] = t /\ j \in Hypotheses
  <2>1. q[j] \in Nat /\ t <= q[j]
    BY <1>3, <1>6 DEF Rising
  <2> QED
    BY <1>2, <1>6, <1>7, <2>1
<1> QED
  BY <1>6, <1>8 DEF q

LEMMA LastRank ==
  ASSUME NEW p \in [Hypotheses -> 0 .. Unit], NEW order, Sorts(order, p), NEW t \in Values(p)
  PROVE  \E j \in Hypotheses :
           /\ InOrder(p, order)[j] = t
           /\ \A m \in Hypotheses : InOrder(p, order)[m] <= t => m <= j
<1> DEFINE q == InOrder(p, order)
           J == { m \in Hypotheses : q[m] <= t }
<1>1. PICK h \in Hypotheses : t = p[h]
  BY DEF Values
<1>2. At(order, h) \in Hypotheses /\ q[At(order, h)] = t /\ t \in Nat
  BY <1>1, RankOf, InOrderRises
<1>3. Rising(q)
  BY InOrderRises
<1> HIDE DEF q
<1>4. Hypotheses \subseteq 0 .. M /\ J \subseteq 0 .. M /\ At(order, h) \in J /\ M \in Nat
  BY <1>2, TestingSizes DEF Hypotheses
<1>5. Max(J) \in J /\ \A m \in J : m <= Max(J)
  <2> HIDE DEF J
  <2> QED
    BY <1>4, GreatestOf
<1>6. PICK j \in J : \A m \in J : m <= j
  BY <1>5
<1>7. t <= q[j]
  BY <1>2, <1>3, <1>4, <1>6 DEF Rising
<1>8. q[j] = t /\ j \in Hypotheses
  <2>1. q[j] \in Nat /\ q[j] <= t
    BY <1>3, <1>6 DEF Rising
  <2> QED
    BY <1>2, <1>6, <1>7, <2>1
<1> QED
  BY <1>6, <1>8 DEF q

StepDown(p, h, alpha) == \A t \in Values(p) : t <= p[h] => t * Above(p, t) < alpha
StepUp(p, h, alpha) == \E t \in Values(p) : t >= p[h] /\ t * M < alpha * Below(p, t)

LEMMA HolmAgrees ==
  ASSUME NEW p \in [Hypotheses -> 0 .. Unit], NEW order, Sorts(order, p),
         NEW alpha \in Alphas, NEW h \in Hypotheses
  PROVE  /\ PutBack(order, HolmSorted(InOrder(p, order)))[h] \in 0 .. Unit * Ranks
         /\ PutBack(order, HolmSorted(InOrder(p, order)))[h] < alpha * Ranks
              <=> StepDown(p, h, alpha)
<1> DEFINE q == InOrder(p, order)
           k == At(order, h)
<1>1. /\ Rising(q) /\ k \in Hypotheses /\ q[k] = p[h] /\ alpha \in Nat
      /\ q \in [Hypotheses -> 0 .. Unit]
  BY InOrderRises, RankOf, TestingAssumption DEF Rising
<1>2. PutBack(order, HolmSorted(q))[h] = HolmSorted(q)[k]
  BY DEF PutBack, At
<1>3. \A j \in Hypotheses : /\ q[j] \in Values(p) /\ q[j] \in Nat
                           /\ j \in Nat /\ M - j + 1 \in Nat
  <2>1. \A j \in Hypotheses : order[j] \in Hypotheses /\ q[j] = p[order[j]]
    BY DEF InOrder, Sorts
  <2>2. \A j \in Hypotheses : q[j] \in Values(p)
    BY <2>1 DEF Values
  <2>3. \A j \in Hypotheses : q[j] \in Nat
    BY <1>1, TestingSizes
  <2>4. \A j \in Hypotheses : j \in Nat /\ M - j + 1 \in Nat
    BY TestingSizes DEF Hypotheses
  <2> QED
    BY <2>2, <2>3, <2>4
<1> HIDE DEF q, k
<1>4. /\ HolmSorted(q)[k] \in 0 .. Unit * Ranks
      /\ HolmSorted(q)[k] < alpha * Ranks <=> \A j \in 1 .. k : q[j] * (M - j + 1) < alpha
  BY ONLY <1>1, alpha \in Alphas, HolmBelow
<1>5. ASSUME StepDown(p, h, alpha), NEW j \in 1 .. k PROVE q[j] * (M - j + 1) < alpha
  <2>1. j \in Hypotheses /\ j <= k
    BY <1>1, TestingSizes DEF Hypotheses
  <2>2. q[j] <= p[h]
    BY <1>1, <2>1 DEF Rising
  <2>3. q[j] * Above(p, q[j]) < alpha
    BY <1>3, <1>5, <2>1, <2>2 DEF StepDown
  <2>4. Above(p, q[j]) \in Nat /\ M - j + 1 <= Above(p, q[j])
    BY <1>3, <2>1, AboveRank DEF q
  <2>5. (M - j + 1) * q[j] <= Above(p, q[j]) * q[j]
    BY <1>3, <2>1, <2>4, Grows
  <2>6. /\ (M - j + 1) * q[j] = q[j] * (M - j + 1) /\ Above(p, q[j]) * q[j] = q[j] * Above(p, q[j])
        /\ q[j] * (M - j + 1) \in Nat /\ q[j] * Above(p, q[j]) \in Nat
    BY ONLY <1>3, <2>1, <2>4
  <2> QED
    BY ONLY <1>1, <2>3, <2>5, <2>6
<1>6. ASSUME \A j \in 1 .. k : q[j] * (M - j + 1) < alpha, NEW t \in Values(p), t <= p[h]
      PROVE  t * Above(p, t) < alpha
  <2>1. t \in Nat
    BY TestingSizes DEF Values
  <2>2. PICK j \in Hypotheses : q[j] = t /\ \A m \in Hypotheses : t <= q[m] => j <= m
    BY FirstRank DEF q
  <2>3. j \in 1 .. k
    BY <1>1, <1>6, <2>2 DEF Hypotheses
  <2>4. t * (M - j + 1) < alpha
    BY <1>6, <2>2, <2>3
  <2>5. Above(p, t) \in Nat /\ Above(p, t) <= M - j + 1
    BY <2>1, <2>2, AboveRank DEF q
  <2>6. Above(p, t) * t <= (M - j + 1) * t
    BY <1>3, <2>1, <2>5, Grows
  <2>7. /\ (M - j + 1) * t = t * (M - j + 1) /\ Above(p, t) * t = t * Above(p, t)
        /\ t * (M - j + 1) \in Nat /\ t * Above(p, t) \in Nat
    BY ONLY <1>3, <2>1, <2>5
  <2> QED
    BY ONLY <1>1, <2>4, <2>6, <2>7
<1>7. HolmSorted(q)[k] < alpha * Ranks <=> StepDown(p, h, alpha)
  BY ONLY <1>4, <1>5, <1>6 DEF StepDown
<1> QED
  BY ONLY <1>2, <1>4, <1>7 DEF q

LEMMA HochbergAgrees ==
  ASSUME NEW p \in [Hypotheses -> 0 .. Unit], NEW order, Sorts(order, p),
         NEW alpha \in Alphas, NEW h \in Hypotheses
  PROVE  /\ PutBack(order, HochbergSorted(InOrder(p, order)))[h] \in 0 .. Unit * Ranks
         /\ PutBack(order, HochbergSorted(InOrder(p, order)))[h] < alpha * Ranks
              <=> StepUp(p, h, alpha)
<1> DEFINE q == InOrder(p, order)
           k == At(order, h)
<1>1. /\ Rising(q) /\ k \in Hypotheses /\ q[k] = p[h] /\ alpha \in Nat /\ p[h] \in Nat
      /\ q \in [Hypotheses -> 0 .. Unit]
  BY InOrderRises, RankOf, TestingAssumption, TestingSizes DEF Rising
<1>2. PutBack(order, HochbergSorted(q))[h] = HochbergSorted(q)[k]
  BY DEF PutBack, At
<1>3. \A j \in Hypotheses : q[j] \in Values(p) /\ q[j] \in Nat /\ j \in Nat
  <2>1. \A j \in Hypotheses : order[j] \in Hypotheses /\ q[j] = p[order[j]]
    BY DEF InOrder, Sorts
  <2>2. \A j \in Hypotheses : q[j] \in Values(p)
    BY <2>1 DEF Values
  <2>3. \A j \in Hypotheses : q[j] \in Nat
    BY <1>1, TestingSizes
  <2>4. \A j \in Hypotheses : j \in Nat /\ M - j + 1 \in Nat
    BY TestingSizes DEF Hypotheses
  <2> QED
    BY <2>2, <2>3, <2>4
<1> HIDE DEF q, k
<1>4. /\ HochbergSorted(q)[k] \in 0 .. Unit * Ranks
      /\ HochbergSorted(q)[k] < alpha * Ranks <=> \E j \in k .. M : q[j] * M < alpha * j
  BY ONLY <1>1, alpha \in Alphas, HochbergBelow
<1>5. ASSUME NEW j \in k .. M, q[j] * M < alpha * j PROVE StepUp(p, h, alpha)
  <2>1. j \in Hypotheses /\ k <= j
    BY <1>1, TestingSizes DEF Hypotheses
  <2>2. q[j] >= p[h]
    <3>1. q[k] <= q[j]
      BY <1>1, <2>1 DEF Rising
    <3> QED
      BY <1>1, <1>3, <2>1, <3>1
  <2>3. Below(p, q[j]) \in Nat /\ j <= Below(p, q[j])
    BY <1>3, <2>1, BelowRank DEF q
  <2>4. j * alpha <= Below(p, q[j]) * alpha
    BY <1>1, <1>3, <2>1, <2>3, Grows
  <2>5. /\ j * alpha = alpha * j /\ Below(p, q[j]) * alpha = alpha * Below(p, q[j])
        /\ alpha * j \in Nat /\ alpha * Below(p, q[j]) \in Nat /\ q[j] * M \in Nat
    BY ONLY <1>1, <1>3, <2>1, <2>3, TestingSizes
  <2>6. q[j] * M < alpha * Below(p, q[j])
    BY ONLY <1>5, <2>4, <2>5
  <2> QED
    BY <1>3, <2>1, <2>2, <2>6 DEF StepUp
<1>6. ASSUME NEW t \in Values(p), t >= p[h], t * M < alpha * Below(p, t)
      PROVE  \E j \in k .. M : q[j] * M < alpha * j
  <2>1. t \in Nat
    BY TestingSizes DEF Values
  <2>2. PICK j \in Hypotheses : q[j] = t /\ \A m \in Hypotheses : q[m] <= t => m <= j
    BY LastRank DEF q
  <2>3. j \in k .. M
    BY <1>1, <1>6, <2>1, <2>2 DEF Hypotheses
  <2>4. Below(p, t) \in Nat /\ Below(p, t) <= j
    BY <2>1, <2>2, BelowRank DEF q
  <2>5. Below(p, t) * alpha <= j * alpha
    BY <1>1, <1>3, <2>4, Grows
  <2>6. /\ j * alpha = alpha * j /\ Below(p, t) * alpha = alpha * Below(p, t)
        /\ alpha * j \in Nat /\ alpha * Below(p, t) \in Nat /\ t * M \in Nat
    BY ONLY <1>1, <1>3, <2>1, <2>2, <2>4, TestingSizes
  <2>7. q[j] * M < alpha * j
    BY ONLY <1>6, <2>2, <2>5, <2>6
  <2> QED
    BY <2>3, <2>7
<1>7. HochbergSorted(q)[k] < alpha * Ranks <=> StepUp(p, h, alpha)
  BY ONLY <1>4, <1>5, <1>6 DEF StepUp
<1> QED
  BY ONLY <1>2, <1>4, <1>7 DEF q

LEMMA BonferroniAgrees ==
  ASSUME NEW p \in [Hypotheses -> 0 .. Unit], NEW alpha \in Alphas, NEW h \in Hypotheses
  PROVE  /\ Capped(p[h] * M * Ranks) \in 0 .. Unit * Ranks
         /\ Capped(p[h] * M * Ranks) < alpha * Ranks <=> p[h] * M < alpha
<1> DEFINE x == p[h] * M
<1>1. x \in Nat /\ alpha \in Nat
  <2>1. p[h] \in Nat
    BY TestingSizes
  <2> QED
    BY <2>1, TestingSizes, TestingAssumption, Times
<1> HIDE DEF x
<1>2. x * Ranks \in Nat
  BY <1>1, TestingSizes, Times
<1>3. /\ Capped(x * Ranks) \in 0 .. Unit * Ranks
      /\ Capped(x * Ranks) < alpha * Ranks <=> x * Ranks < alpha * Ranks
  BY ONLY <1>2, alpha \in Alphas, CapBelow
<1>4. x * Ranks < alpha * Ranks <=> x < alpha
  BY ONLY <1>1, TestingSizes, Scaled
<1> QED
  BY ONLY <1>3, <1>4 DEF x

(* What each method rejects, and how it adjusts.                           *)
LEMMA RejectedIs ==
  ASSUME NEW p, NEW alpha
  PROVE  /\ Rejected("BONFERRONI", p, alpha) = { h \in Hypotheses : p[h] * M < alpha }
         /\ Rejected("HOLM_BONFERRONI", p, alpha) = { h \in Hypotheses : StepDown(p, h, alpha) }
         /\ Rejected("BENJAMINI_HOCHBERG", p, alpha) = { h \in Hypotheses : StepUp(p, h, alpha) }
BY DEF Rejected, StepDown, StepUp, Values, Above, Below

LEMMA AdjustedIs ==
  ASSUME NEW p, NEW order
  PROVE  /\ Adjusted("BONFERRONI", p, order) = [h \in Hypotheses |-> Capped(p[h] * M * Ranks)]
         /\ Adjusted("HOLM_BONFERRONI", p, order) = PutBack(order, HolmSorted(InOrder(p, order)))
         /\ Adjusted("BENJAMINI_HOCHBERG", p, order)
              = PutBack(order, HochbergSorted(InOrder(p, order)))
BY DEF Adjusted, InOrder

Agree(adj, method, p, alpha) ==
  \A h \in Hypotheses : /\ adj[h] \in 0 .. Unit * Ranks
                        /\ adj[h] < alpha * Ranks <=> h \in Rejected(method, p, alpha)

LEMMA AdjustAgrees ==
  ASSUME NEW p \in [Hypotheses -> 0 .. Unit], NEW order \in SortedOrders(p),
         NEW alpha \in Alphas, NEW method \in Methods
  PROVE  Agree(Adjusted(method, p, order), method, p, alpha)
<1>1. Sorts(order, p)
  BY OrderSorts
<1>2. CASE method = "BONFERRONI"
  <2> SUFFICES ASSUME NEW h \in Hypotheses
               PROVE  /\ Adjusted(method, p, order)[h] \in 0 .. Unit * Ranks
                      /\ Adjusted(method, p, order)[h] < alpha * Ranks
                           <=> h \in Rejected(method, p, alpha)
    BY DEF Agree
  <2>1. Adjusted(method, p, order)[h] = Capped(p[h] * M * Ranks)
    BY <1>2, AdjustedIs
  <2>2. h \in Rejected(method, p, alpha) <=> p[h] * M < alpha
    BY <1>2, RejectedIs
  <2> QED
    BY <2>1, <2>2, BonferroniAgrees
<1>3. CASE method = "HOLM_BONFERRONI"
  <2>1. Adjusted(method, p, order) = PutBack(order, HolmSorted(InOrder(p, order)))
    BY <1>3, AdjustedIs
  <2>2. \A h \in Hypotheses : h \in Rejected(method, p, alpha) <=> StepDown(p, h, alpha)
    BY <1>3, RejectedIs
  <2> QED
    BY <1>1, <2>1, <2>2, HolmAgrees DEF Agree
<1>4. CASE method = "BENJAMINI_HOCHBERG"
  <2>1. Adjusted(method, p, order) = PutBack(order, HochbergSorted(InOrder(p, order)))
    BY <1>4, AdjustedIs
  <2>2. \A h \in Hypotheses : h \in Rejected(method, p, alpha) <=> StepUp(p, h, alpha)
    BY <1>4, RejectedIs
  <2> QED
    BY <1>1, <2>1, <2>2, HochbergAgrees DEF Agree
<1> QED
  BY <1>2, <1>3, <1>4 DEF Methods

(* A family that was adjusted was so from p-values, by one of the methods. *)
FamilyInv ==
  \/ family = NoFamily
  \/ /\ family.method \in Methods /\ family.p \in [Hypotheses -> 0 .. Unit]
     /\ family.alpha \in Alphas
     /\ Agree(family.adj, family.method, family.p, family.alpha)
     /\ family.count = Cardinality(Significant(family.adj, family.alpha))

LEMMA AdjustKeeps == ASSUME Adjust PROVE FamilyInv'
<1>1. PICK method \in Methods, p \in [Hypotheses -> 0 .. Unit], alpha \in Alphas :
        \E order \in SortedOrders(p) :
          family' = [method |-> method, p |-> p, alpha |-> alpha,
                     adj |-> Adjusted(method, p, order),
                     count |-> Cardinality(Significant(Adjusted(method, p, order), alpha))]
  BY DEF Adjust
<1>2. PICK order \in SortedOrders(p) :
        family' = [method |-> method, p |-> p, alpha |-> alpha,
                   adj |-> Adjusted(method, p, order),
                   count |-> Cardinality(Significant(Adjusted(method, p, order), alpha))]
  BY <1>1
<1>3. Agree(Adjusted(method, p, order), method, p, alpha)
  BY AdjustAgrees
<1>4. /\ family'.method = method /\ family'.p = p /\ family'.alpha = alpha
      /\ family'.adj = Adjusted(method, p, order)
      /\ family'.count = Cardinality(Significant(Adjusted(method, p, order), alpha))
  BY <1>2
<1> QED
  BY <1>3, <1>4 DEF FamilyInv

LEMMA FamilyKept == Spec => []FamilyInv
<1>1. Init => FamilyInv
  BY DEF Init, MInit, FamilyInv
<1>2. FamilyInv /\ [Next]_vars => FamilyInv'
  <2>1. [Next]_vars => Adjust \/ family' = family
    BY Zenon DEF Next, RunBacktest, RunWalkForward, RunAdjustment, RunGuard, vars
  <2>2. FamilyInv /\ family' = family => FamilyInv'
    BY DEF FamilyInv
  <2> QED
    BY <2>1, <2>2, AdjustKeeps
<1> QED
  BY <1>1, <1>2, PTL DEF Spec

(* For a family of any size, in whatever order ties are sorted, the        *)
(* hypotheses whose adjusted p-value is below alpha are those that the     *)
(* textbook procedure rejects (statistical_validation.py:190-219).         *)
THEOREM RejectionsHold == Spec => []RejectsTextbook
<1>1. FamilyInv => RejectsTextbook
  <2> SUFFICES ASSUME FamilyInv, family # NoFamily PROVE RejectsTextbook
    BY DEF RejectsTextbook
  <2>1. Agree(family.adj, family.method, family.p, family.alpha) /\ family.method \in Methods
        /\ family.count = Cardinality(Significant(family.adj, family.alpha))
    BY DEF FamilyInv
  <2>2. Rejected(family.method, family.p, family.alpha) \subseteq Hypotheses
    BY <2>1, RejectedIs DEF Methods
  <2>3. Significant(family.adj, family.alpha) = Rejected(family.method, family.p, family.alpha)
    BY <2>1, <2>2 DEF Significant, Agree
  <2> QED
    BY <2>1, <2>3 DEF RejectsTextbook
<1> QED
  BY <1>1, FamilyKept, PTL

-----------------------------------------------------------------------------
(* The lookahead guard.                                                    *)

LEMMA SamplesWithin ==
  ASSUME NEW n \in Nat, n >= 40
  PROVE  \A t \in Samples(n) : t \in 25 .. n - 5
<1> DEFINE num == IF n - 30 < 10 THEN n - 30 ELSE 10
<1>1. num - 1 = 9
  OBVIOUS
<1>2. Samples(n) = { 25 + (k * (n - 30)) \div 9 : k \in 0 .. 9 }
  BY <1>1 DEF Samples
<1>3. ASSUME NEW k \in 0 .. 9 PROVE (k * (n - 30)) \div 9 \in 0 .. n - 30
  <2> DEFINE x == k * (n - 30)
  <2>1. x \in Nat /\ x <= 9 * (n - 30)
    OBVIOUS
  <2> HIDE DEF x
  <2>2. x \div 9 \in 0 .. n - 30
    BY <2>1
  <2> QED
    BY <2>2 DEF x
<1> QED
  BY <1>2, <1>3

(* The action at a bar is empty when no signal is on it.                   *)
LEMMA NoAction ==
  ASSUME NEW signals, NEW t
  PROVE  ActionAt(signals, t) = {} <=> ~\E s \in signals : s.bar = t
BY DEF ActionAt

(* A strategy that reads ahead says nothing at the last bar it is given.   *)
LEMMA ReaderBlind ==
  ASSUME NEW strategy \in Reader, NEW d, NEW t \in Nat
  PROVE  ActionAt(Signals(strategy, d, Kept(t)), t) = {}
<1>1. \A bars : (\A b \in bars : b < t) => ~\E s \in Longs(bars) : s.bar = t
  BY DEF Longs
<1>2. \E bars : Signals(strategy, d, Kept(t)) = Longs(bars) /\ \A x \in bars : x < t
  <2>1. CASE strategy = "close"
    <3> DEFINE bars == { x \in 0 .. Kept(t) - 2 : Kept(t) >= 5
                    /\ d.close[x + 1] * 1000 > d.close[x] * 1002 }
    <3>1. Signals(strategy, d, Kept(t)) = Longs(bars)
      BY <2>1 DEF Signals, FutureClose
    <3>2. \A x \in bars : x < t
      BY DEF Kept
    <3> HIDE DEF bars
    <3> QED
      BY <3>1, <3>2, Zenon
  <2>2. CASE strategy = "volume"
    <3> DEFINE bars == { x \in 0 .. Kept(t) - 3 : Kept(t) >= 5 /\ d.volume[x + 2] > d.volume[x] * 2 }
    <3>1. Signals(strategy, d, Kept(t)) = Longs(bars)
      BY <2>2 DEF Signals, FutureVolume
    <3>2. \A x \in bars : x < t
      BY DEF Kept
    <3> HIDE DEF bars
    <3> QED
      BY <3>1, <3>2, Zenon
  <2>3. CASE strategy = "label"
    <3> DEFINE bars == { x \in 0 .. Kept(t) - 4 : Kept(t) >= 5
                    /\ d.close[x + 3] * 100 > d.close[x] * 101 }
    <3>1. Signals(strategy, d, Kept(t)) = Longs(bars)
      BY <2>3 DEF Signals, FutureLabel
    <3>2. \A x \in bars : x < t
      BY DEF Kept
    <3> HIDE DEF bars
    <3> QED
      BY <3>1, <3>2, Zenon
  <2>4. CASE strategy = "feature"
    <3> DEFINE bars == { x \in 2 .. Kept(t) - 3 : Kept(t) >= 10
                    /\ d.close[x] * 5 > Added(d.close, x - 2, x + 2) }
    <3>1. Signals(strategy, d, Kept(t)) = Longs(bars)
      BY <2>4 DEF Signals, FutureFeature
    <3>2. \A x \in bars : x < t
      BY DEF Kept
    <3> HIDE DEF bars
    <3> QED
      BY <3>1, <3>2, Zenon
  <2> QED
    BY <2>1, <2>2, <2>3, <2>4 DEF Reader
<1> QED
  BY <1>1, <1>2, NoAction

(* The bars at which the truncation test compares.                         *)
Sampled(d) == IF d.length < 40 THEN {} ELSE Samples(d.length)

(* The test is passed where the truncated and the whole frame agree.       *)
LEMMA CausalIs ==
  ASSUME NEW strategy, NEW d
  PROVE  CausalInvariance(strategy, d) <=>
           \A t \in Sampled(d) : ActionAt(Signals(strategy, d, Kept(t)), t)
                                   = ActionAt(Signals(strategy, d, d.length), t)
BY DEF CausalInvariance, Sampled

LEMMA ReadersJudged ==
  ASSUME NEW strategy \in Reader, NEW d, d.length \in Nat
  PROVE  CausalInvariance(strategy, d) <=> ~HasSignal(strategy, d, Sampled(d))
<1>1. \A t \in Sampled(d) : t \in Nat
  BY SamplesWithin DEF Sampled
<1>2. \A t \in Sampled(d) : ActionAt(Signals(strategy, d, Kept(t)), t) = {}
  BY <1>1, ReaderBlind
<1>3. CausalInvariance(strategy, d) <=>
        \A t \in Sampled(d) : ActionAt(Signals(strategy, d, d.length), t) = {}
  BY <1>2, CausalIs
<1> QED
  BY <1>3, NoAction DEF HasSignal

-----------------------------------------------------------------------------
(* The library strategies: what they say up to a bar is read up to it.     *)

Enter(before, row) ==
  before \cup
    { [bar |-> row.bar, action |-> a] :
        a \in IF \A s \in before : row.bar - s.bar >= row.gap THEN row.due ELSE {} }

Entered == INSTANCE FoldTheorems WITH Op <- Enter

DueBars(due, first, n, gap) == [t \in first .. n - 1 |-> [bar |-> t, due |-> due[t], gap |-> gap]]

LEMMA EntriesAre ==
  ASSUME NEW due, NEW first \in Int, NEW n \in Int, first <= n, NEW gap
  PROVE  \E h : /\ Entered!RunsOver(h, {}, DueBars(due, first, n, gap), first, n - 1)
                /\ Entries(due, first, n, gap) = h[n - 1]
<1> DEFINE Body(h, t) ==
             IF t < first THEN {} ELSE
             h[t - 1] \cup { [bar |-> t, action |-> a] :
                             a \in IF \A s \in h[t - 1] : t - s.bar >= gap THEN due[t] ELSE {} }
           P(h) == h = [t \in first - 1 .. n - 1 |-> Body(h, t)]
           Q(h) == Entered!RunsOver(h, {}, DueBars(due, first, n, gap), first, n - 1)
<1>1. Entries(due, first, n, gap) = (CHOOSE h : P(h))[n - 1]
  BY Zenon DEF Entries
<1>2. \A h : \A t \in first - 1 .. n - 1 :
        Body(h, t) = IF t < first THEN {} ELSE Enter(h[t - 1], DueBars(due, first, n, gap)[t])
  <2> TAKE h
  <2> TAKE t \in first - 1 .. n - 1
  <2>1. CASE t < first
    BY <2>1
  <2>2. CASE ~(t < first)
    <3>1. DueBars(due, first, n, gap)[t] = [bar |-> t, due |-> due[t], gap |-> gap]
      BY <2>2 DEF DueBars
    <3>2. Enter(h[t - 1], [bar |-> t, due |-> due[t], gap |-> gap]) = Body(h, t)
      BY <2>2 DEF Enter
    <3> QED
      BY <2>2, <3>1, <3>2
  <2> QED
    BY <2>1, <2>2
<1>3. \A h : P(h) <=> Q(h)
  BY <1>2 DEF Entered!RunsOver
<1>4. \E h : Q(h)
  <2>1. n - first \in Nat /\ first - 1 + (n - first) = n - 1
    OBVIOUS
  <2> QED
    BY <2>1, Entered!RunExists
<1> HIDE DEF P, Q
<1>5. \E h : P(h)
  BY <1>3, <1>4
<1>6. P(CHOOSE h : P(h))
  BY <1>5, Zenon
<1>7. Q(CHOOSE h : P(h))
  BY <1>3, <1>6
<1> QED
  BY <1>1, <1>7 DEF Q

(* The entries up to bar m are there after bar m, and stay.                *)
Settled(h, first, t) ==
  /\ \A s \in h[t] : s.bar \in first .. t
  /\ \A m \in first - 1 .. t : UpTo(h[t], m) = h[m]

LEMMA EntriesSettle ==
  ASSUME NEW due, NEW first \in Int, NEW n \in Int, NEW gap,
         NEW h, Entered!RunsOver(h, {}, DueBars(due, first, n, gap), first, n - 1)
  PROVE  \A t \in first - 1 .. n - 1 : Settled(h, first, t)
<1> DEFINE N == { k \in Nat : first - 1 + k <= n - 1 /\ ~Settled(h, first, first - 1 + k) }
<1>1. ASSUME first - 1 <= n - 1
      PROVE  h[first - 1] = {} /\ \A t \in first .. n - 1 :
               h[t] = Enter(h[t - 1], DueBars(due, first, n, gap)[t])
  BY <1>1, Entered!RunsAt
<1>2. ASSUME NEW k \in N, \A j \in N : k <= j PROVE FALSE
  <2>1. k \in Nat /\ first - 1 + k <= n - 1 /\ ~Settled(h, first, first - 1 + k)
    OBVIOUS
  <2>2. first - 1 <= n - 1
    BY <2>1
  <2>3. CASE k = 0
    <3>1. h[first - 1] = {} /\ first - 1 + k = first - 1
      BY <1>1, <2>2, <2>3
    <3>2. \A m \in first - 1 .. first - 1 : m = first - 1
      OBVIOUS
    <3>3. Settled(h, first, first - 1)
      BY <3>1, <3>2 DEF Settled, UpTo
    <3> QED
      BY <2>1, <3>1, <3>3
  <2>4. CASE k # 0
    <3> DEFINE t == first - 1 + k
               old == h[t - 1]
    <3>1. k - 1 \in Nat /\ k - 1 \notin N
      <4> HIDE DEF N
      <4> QED
        BY <1>2, <2>1, <2>4
    <3>2. t \in first .. n - 1 /\ t - 1 = first - 1 + (k - 1) /\ t - 1 <= n - 1
      BY <2>1, <2>4
    <3>3. Settled(h, first, t - 1)
      BY <3>1, <3>2
    <3> HIDE DEF t
    <3> DEFINE new == { s \in h[t] : s \notin old }
    <3>4. h[t] = old \cup new /\ \A s \in new : s.bar = t
      <4>1. h[t] = Enter(old, DueBars(due, first, n, gap)[t])
        BY <1>1, <2>2, <3>2
      <4>2. DueBars(due, first, n, gap)[t].bar = t
        BY <3>2 DEF DueBars
      <4> QED
        BY <4>1, <4>2 DEF Enter
    <3> HIDE DEF new
    <3>5. \A s \in old : s.bar \in first .. t - 1
      BY <3>3 DEF Settled
    <3>6. \A s \in h[t] : s.bar \in first .. t
      BY <3>2, <3>4, <3>5
    <3>7. ASSUME NEW m \in first - 1 .. t PROVE UpTo(h[t], m) = h[m]
      <4>1. CASE m = t
        <5>1. \A s \in h[t] : s.bar <= m
          BY <3>2, <3>6, <4>1
        <5> QED
          BY <4>1, <5>1 DEF UpTo
      <4>2. CASE m # t
        <5>1. m \in first - 1 .. t - 1 /\ ~(t <= m)
          BY <3>2, <4>2
        <5>2. UpTo(old, m) = h[m]
          BY <3>3, <5>1 DEF Settled
        <5>3. UpTo(h[t], m) = UpTo(old, m)
          BY <3>4, <5>1 DEF UpTo
        <5> QED
          BY <5>2, <5>3
      <4> QED
        BY <4>1, <4>2
    <3>8. Settled(h, first, t)
      BY <3>6, <3>7 DEF Settled
    <3> QED
      BY <2>1, <3>8 DEF t
  <2> QED
    BY <2>3, <2>4
<1>3. N = {}
  <2> HIDE DEF N
  <2>1. N \subseteq Nat
    BY DEF N
  <2> QED
    BY <1>2, <2>1, Entered!LeastNumber
<1> TAKE t \in first - 1 .. n - 1
<1>4. t - (first - 1) \in Nat /\ first - 1 + (t - (first - 1)) = t /\ t <= n - 1
  OBVIOUS
<1>5. t - (first - 1) \notin N
  BY <1>3
<1> HIDE DEF N
<1> QED
  BY <1>4, <1>5 DEF N

(* Where entries are due on the same bars up to m, they are made on the    *)
(* same bars up to m, however many bars follow.                            *)
LEMMA EntriesLocal ==
  ASSUME NEW first \in Int, NEW m \in Int, first - 1 <= m, NEW gap,
         NEW due, NEW n \in Int, m <= n - 1, NEW other, NEW more \in Int, m <= more - 1,
         \A t \in first .. m : due[t] = other[t]
  PROVE  UpTo(Entries(due, first, n, gap), m) = UpTo(Entries(other, first, more, gap), m)
<1>1. first <= n /\ first <= more /\ first - 1 <= n - 1 /\ first - 1 <= more - 1
  OBVIOUS
<1>2. PICK g : /\ Entered!RunsOver(g, {}, DueBars(due, first, n, gap), first, n - 1)
               /\ Entries(due, first, n, gap) = g[n - 1]
  BY <1>1, EntriesAre
<1>3. PICK h : /\ Entered!RunsOver(h, {}, DueBars(other, first, more, gap), first, more - 1)
               /\ Entries(other, first, more, gap) = h[more - 1]
  BY <1>1, EntriesAre
<1>4. UpTo(g[n - 1], m) = g[m]
  <2>1. Settled(g, first, n - 1)
    BY <1>1, <1>2, EntriesSettle
  <2> QED
    BY <2>1 DEF Settled
<1>5. UpTo(h[more - 1], m) = h[m]
  <2>1. Settled(h, first, more - 1)
    BY <1>1, <1>3, EntriesSettle
  <2> QED
    BY <2>1 DEF Settled
<1>6. \A t \in first .. m : DueBars(due, first, n, gap)[t] = DueBars(other, first, more, gap)[t]
  BY DEF DueBars
<1>7. \A t \in first - 1 .. m : g[t] = h[t]
  <2>1. n - 1 \in Int /\ more - 1 \in Int
    OBVIOUS
  <2>2. Entered!BothRun({}, first, m, g, DueBars(due, first, n, gap), n - 1,
                        h, DueBars(other, first, more, gap), more - 1)
    BY <1>2, <1>3, <1>6 DEF Entered!BothRun
  <2> QED
    BY <2>1, <2>2, Entered!RunsAgree
<1>8. g[m] = h[m]
  BY <1>7
<1> QED
  BY <1>2, <1>3, <1>4, <1>5, <1>8

(* The first entry is at the first bar where one may be.                   *)
LEMMA EntriesFrom ==
  ASSUME NEW first \in Int, NEW gap, NEW due, NEW n \in Int, first <= n
  PROVE  \A s \in Entries(due, first, n, gap) : s.bar \in first .. n - 1
<1>1. PICK g : /\ Entered!RunsOver(g, {}, DueBars(due, first, n, gap), first, n - 1)
               /\ Entries(due, first, n, gap) = g[n - 1]
  BY EntriesAre
<1>2. Settled(g, first, n - 1)
  BY <1>1, EntriesSettle
<1> QED
  BY <1>1, <1>2 DEF Settled

LEMMA SameActions ==
  ASSUME NEW signals, NEW others, NEW t \in Int, UpTo(signals, t) = UpTo(others, t)
  PROVE  ActionAt(signals, t) = ActionAt(others, t)
<1>1. \A S : { s \in S : s.bar = t } = { s \in UpTo(S, t) : s.bar = t }
  BY DEF UpTo
<1> QED
  BY <1>1 DEF ActionAt

(* Two frames with the same bars up to one.                                *)
BarsOf(f, n) == DOMAIN f = 0 .. n - 1

IsFrame(d) ==
  /\ d.length \in Nat \ {0}
  /\ BarsOf(d.open, d.length) /\ BarsOf(d.high, d.length) /\ BarsOf(d.low, d.length)
  /\ BarsOf(d.close, d.length) /\ BarsOf(d.volume, d.length)

SameBars(f, g, m) == \A t \in DOMAIN f : t <= m => f[t] = g[t]

SameUpTo(d, e, m) ==
  /\ IsFrame(d) /\ IsFrame(e) /\ d.length = e.length
  /\ SameBars(d.open, e.open, m) /\ SameBars(d.high, e.high, m) /\ SameBars(d.low, e.low, m)
  /\ SameBars(d.close, e.close, m) /\ SameBars(d.volume, e.volume, m)

SameOver(f, g, from, to) == \A t \in from .. to : f[t] = g[t]

LEMMA AddedSame ==
  ASSUME NEW f, NEW g, NEW from \in Int, NEW to \in Int, SameOver(f, g, from, to)
  PROVE  Added(f, from, to) = Added(g, from, to)
<1> DEFINE F(h) == [t \in from - 1 .. to |-> IF t < from THEN 0 ELSE f[t] + h[t - 1]]
           G(h) == [t \in from - 1 .. to |-> IF t < from THEN 0 ELSE g[t] + h[t - 1]]
<1>1. \A h : F(h) = G(h)
  <2> TAKE h
  <2>1. \A t \in from - 1 .. to : ~(t < from) => t \in from .. to
    OBVIOUS
  <2> QED
    BY <2>1 DEF SameOver
<1>2. Added(f, from, to) = (CHOOSE h : h = F(h))[to]
  BY Zenon DEF Added
<1>3. Added(g, from, to) = (CHOOSE h : h = G(h))[to]
  BY Zenon DEF Added
<1> HIDE DEF F, G
<1>4. (CHOOSE h : h = F(h)) = (CHOOSE h : h = G(h))
  BY <1>1
<1> QED
  BY <1>2, <1>3, <1>4

LEMMA RankedSame ==
  ASSUME NEW f, NEW g, NEW from \in Int, NEW to \in Int, SameOver(f, g, from, to), NEW k
  PROVE  Ranked(f, from, to, k) = Ranked(g, from, to, k)
<1>1. { f[t] : t \in from .. to } = { g[t] : t \in from .. to }
  BY DEF SameOver
<1>2. \A v : /\ { t \in from .. to : f[t] < v } = { t \in from .. to : g[t] < v }
            /\ { t \in from .. to : f[t] <= v } = { t \in from .. to : g[t] <= v }
  BY DEF SameOver
<1> QED
  BY <1>1, <1>2 DEF Ranked

LEMMA CvdSame ==
  ASSUME NEW d, NEW e, NEW m \in Nat, SameUpTo(d, e, m),
         NEW t \in CvdWindow .. m, t < d.length
  PROVE  CvdDue(d, t) = CvdDue(e, t)
<1> DEFINE a == Delta(d)
           b == Delta(e)
           from == t - CvdWindow + 1
<1>1. from \in Nat /\ t \in from .. t /\ \A k \in from .. t : k \in 0 .. d.length - 1 /\ k <= m
  BY DEF CvdWindow, SameUpTo, IsFrame
<1>2. DOMAIN d.close = 0 .. d.length - 1 /\ DOMAIN e.close = 0 .. d.length - 1
  BY DEF SameUpTo, IsFrame, BarsOf
<1>3. \A k \in 0 .. d.length - 1 : k <= m =>
        d.close[k] = e.close[k] /\ d.open[k] = e.open[k] /\ d.volume[k] = e.volume[k]
  BY DEF SameUpTo, IsFrame, BarsOf, SameBars
<1>4. \A k \in 0 .. d.length - 1 : k <= m => a[k] = b[k]
  BY <1>2, <1>3 DEF Delta
<1>5. DOMAIN a = 0 .. d.length - 1 /\ DOMAIN b = 0 .. d.length - 1
  BY <1>2 DEF Delta
<1> HIDE DEF a, b
<1> DEFINE aa == [k \in DOMAIN a |-> a[k] * a[k]]
           bb == [k \in DOMAIN b |-> b[k] * b[k]]
<1>6. \A k \in from .. t : a[k] = b[k] /\ aa[k] = bb[k]
  BY <1>1, <1>4, <1>5
<1> HIDE DEF aa, bb
<1>7. Added(a, from, t) = Added(b, from, t) /\ Added(aa, from, t) = Added(bb, from, t)
  <2>1. from \in Int /\ t \in Int
    BY <1>1
  <2>2. SameOver(a, b, from, t) /\ SameOver(aa, bb, from, t)
    BY <1>6 DEF SameOver
  <2> HIDE DEF from
  <2> QED
    BY ONLY <2>1, <2>2, AddedSame
<1>8. a[t] = b[t]
  BY <1>1, <1>6
<1> QED
  BY <1>7, <1>8, Zenon DEF CvdDue, a, b, aa, bb, from

LEMMA PocSame ==
  ASSUME NEW d, NEW e, NEW m \in Nat, SameUpTo(d, e, m),
         NEW t \in ProfileBars .. m, t < d.length
  PROVE  PocDue(d, t) = PocDue(e, t)
<1> DEFINE from == t - ProfileBars
           to == t - 1
<1>1. /\ from \in Int /\ to \in Int
      /\ \A k \in from .. to : k \in 0 .. d.length - 1 /\ k <= m
      /\ t \in 0 .. d.length - 1 /\ t <= m /\ t - 1 \in 0 .. d.length - 1 /\ t - 1 <= m
  BY DEF ProfileBars, SameUpTo, IsFrame
<1>2. \A k \in 0 .. d.length - 1 : k <= m =>
        d.close[k] = e.close[k] /\ d.high[k] = e.high[k] /\ d.low[k] = e.low[k]
  BY DEF SameUpTo, IsFrame, BarsOf, SameBars
<1>3. \A k \in from .. to : d.high[k] = e.high[k] /\ d.low[k] = e.low[k]
  BY <1>1, <1>2
<1>4. d.close[t] = e.close[t] /\ d.close[t - 1] = e.close[t - 1]
  BY <1>1, <1>2
<1> HIDE DEF from, to
<1>5. \A k : /\ Ranked(d.high, from, to, k) = Ranked(e.high, from, to, k)
            /\ Ranked(d.low, from, to, k) = Ranked(e.low, from, to, k)
  <2>1. SameOver(d.high, e.high, from, to) /\ SameOver(d.low, e.low, from, to)
    BY <1>3 DEF SameOver
  <2> QED
    BY ONLY <1>1, <2>1, RankedSame
<1>6. ValueAreaHigh(d, t) = ValueAreaHigh(e, t) /\ ValueAreaLow(d, t) = ValueAreaLow(e, t)
  BY <1>5 DEF ValueAreaHigh, ValueAreaLow, from, to
<1> QED
  BY <1>4, <1>6, Zenon DEF PocDue

(* The perturbed frame has the bars of the frame up to the test bar.       *)
LEMMA PerturbedSame ==
  ASSUME NEW d, IsFrame(d)
  PROVE  SameUpTo(d, Perturbed(d), TestBar)
<1> DEFINE Change(f, factor) ==
             [t \in DOMAIN f |-> IF t > TestBar THEN (f[t] * factor) \div 20 ELSE f[t]]
<1>1. Perturbed(d) = [length |-> d.length,
                      open |-> Change(d.open, 26), high |-> Change(d.high, 28),
                      low |-> Change(d.low, 14), close |-> Change(d.close, 27),
                      volume |-> Change(d.volume, 100)]
  BY Zenon DEF Perturbed
<1>2. \A f, factor, n : BarsOf(f, n) => BarsOf(Change(f, factor), n)
  BY DEF BarsOf
<1>3. \A f, factor, n : BarsOf(f, n) => SameBars(f, Change(f, factor), TestBar)
  BY DEF BarsOf, SameBars, TestBar
<1> HIDE DEF Change
<1>4. IsFrame(Perturbed(d)) /\ d.length = Perturbed(d).length
  BY <1>1, <1>2 DEF IsFrame
<1> QED
  BY <1>1, <1>3, <1>4 DEF SameUpTo, IsFrame

LEMMA PerturbationIs ==
  ASSUME NEW strategy, NEW d
  PROVE  PerturbationInvariance(strategy, d) <=>
           \/ d.length <= TestBar + 10
           \/ UpTo(Signals(strategy, d, d.length), TestBar)
               = UpTo(Signals(strategy, Perturbed(d), d.length), TestBar)
BY DEF PerturbationInvariance

CvdDues(d, n) == [t \in CvdWindow .. n - 1 |-> CvdDue(d, t)]
PocDues(d, n) == [t \in ProfileBars .. n - 1 |-> PocDue(d, t)]

LEMMA CvdSays ==
  ASSUME NEW d, NEW n \in Nat, n >= CvdWindow + 2
  PROVE  Signals("cvd", d, n) = Entries(CvdDues(d, n), CvdWindow, n, 5)
BY DEF Signals, MicrostructureCVD, CvdDues, CvdWindow

LEMMA PocSays ==
  ASSUME NEW d, NEW n \in Nat
  PROVE  /\ n < ProfileBars + 2 => Signals("poc", d, n) = {}
         /\ n >= ProfileBars + 2 =>
              Signals("poc", d, n) = Entries(PocDues(d, n), ProfileBars, n, 10)
BY DEF Signals, VolumeProfilePOC, PocDues, ProfileBars

(* The delta strategy passes both tests.                                   *)
LEMMA CvdJudged ==
  ASSUME NEW d, IsFrame(d)
  PROVE  CausalInvariance("cvd", d) /\ PerturbationInvariance("cvd", d)
<1> DEFINE n == d.length
<1>1. n \in Nat /\ (Sampled(d) # {} => n >= 40) /\ \A t \in Sampled(d) : t \in 25 .. n - 5
  BY SamplesWithin DEF Sampled, IsFrame
<1> HIDE DEF n
<1>2. ASSUME NEW t \in Sampled(d)
      PROVE  ActionAt(Signals("cvd", d, Kept(t)), t) = ActionAt(Signals("cvd", d, n), t)
  <2>1. t \in Nat /\ t >= 25 /\ t <= n - 5 /\ Kept(t) = t + 1 /\ CvdWindow = 14
    BY <1>1 DEF Kept, CvdWindow
  <2>2. /\ Signals("cvd", d, Kept(t)) = Entries(CvdDues(d, Kept(t)), CvdWindow, Kept(t), 5)
        /\ Signals("cvd", d, n) = Entries(CvdDues(d, n), CvdWindow, n, 5)
    BY <1>1, <2>1, CvdSays
  <2>3. \A k \in CvdWindow .. t : CvdDues(d, Kept(t))[k] = CvdDues(d, n)[k]
    BY <1>1, <2>1 DEF CvdDues
  <2>4. UpTo(Signals("cvd", d, Kept(t)), t) = UpTo(Signals("cvd", d, n), t)
    BY <1>1, <2>1, <2>2, <2>3, EntriesLocal
  <2> QED
    BY <2>1, <2>4, SameActions
<1>3. CausalInvariance("cvd", d)
  BY <1>2, CausalIs DEF n
<1>4. ASSUME n > TestBar + 10
      PROVE  UpTo(Signals("cvd", d, n), TestBar) = UpTo(Signals("cvd", Perturbed(d), n), TestBar)
  <2>1. CvdWindow = 14 /\ TestBar = 30
    BY DEF CvdWindow, TestBar
  <2>2. /\ Signals("cvd", d, n) = Entries(CvdDues(d, n), CvdWindow, n, 5)
        /\ Signals("cvd", Perturbed(d), n) = Entries(CvdDues(Perturbed(d), n), CvdWindow, n, 5)
    BY <1>1, <1>4, <2>1, CvdSays
  <2>3. \A k \in CvdWindow .. TestBar : CvdDues(d, n)[k] = CvdDues(Perturbed(d), n)[k]
    <3> TAKE k \in CvdWindow .. TestBar
    <3>1. k < n /\ k \in CvdWindow .. n - 1 /\ TestBar \in Nat
      BY <1>1, <1>4, <2>1
    <3>2. CvdDue(d, k) = CvdDue(Perturbed(d), k)
      BY <3>1, PerturbedSame, CvdSame DEF n
    <3> QED
      BY <3>1, <3>2 DEF CvdDues
  <2> QED
    BY <1>1, <1>4, <2>1, <2>2, <2>3, EntriesLocal
<1>5. PerturbationInvariance("cvd", d)
  <2>1. n > TestBar + 10 \/ n <= TestBar + 10
    BY <1>1 DEF TestBar
  <2> QED
    BY <1>4, <2>1, PerturbationIs DEF n
<1> QED
  BY <1>3, <1>5

(* The profile strategy passes the perturbation test, and the truncation   *)
(* test unless it has an entry at its first bar and that bar is sampled.   *)
LEMMA PocJudged ==
  ASSUME NEW d, IsFrame(d)
  PROVE  /\ PerturbationInvariance("poc", d)
         /\ CausalInvariance("poc", d) <=> ~HasSignal("poc", d, Sampled(d) \cap {ProfileBars})
<1> DEFINE n == d.length
<1>1. n \in Nat /\ (Sampled(d) # {} => n >= 40) /\ \A t \in Sampled(d) : t \in 25 .. n - 5
  BY SamplesWithin DEF Sampled, IsFrame
<1>2. ProfileBars = 30 /\ TestBar = 30
  BY DEF ProfileBars, TestBar
<1> HIDE DEF n
<1>3. ASSUME NEW t \in Sampled(d), t > ProfileBars
      PROVE  ActionAt(Signals("poc", d, Kept(t)), t) = ActionAt(Signals("poc", d, n), t)
  <2>1. t \in Nat /\ t > 30 /\ t <= n - 5 /\ Kept(t) = t + 1
    BY <1>1, <1>2, <1>3 DEF Kept
  <2>2. /\ Signals("poc", d, Kept(t)) = Entries(PocDues(d, Kept(t)), ProfileBars, Kept(t), 10)
        /\ Signals("poc", d, n) = Entries(PocDues(d, n), ProfileBars, n, 10)
    BY <1>1, <1>2, <2>1, PocSays
  <2>3. \A k \in ProfileBars .. t : PocDues(d, Kept(t))[k] = PocDues(d, n)[k]
    BY <1>1, <1>2, <2>1 DEF PocDues
  <2>4. UpTo(Signals("poc", d, Kept(t)), t) = UpTo(Signals("poc", d, n), t)
    BY <1>1, <1>2, <2>1, <2>2, <2>3, EntriesLocal
  <2> QED
    BY <2>1, <2>4, SameActions
<1>4. ASSUME NEW t \in Sampled(d), t <= ProfileBars
      PROVE  ActionAt(Signals("poc", d, Kept(t)), t) = {}
  <2>1. Kept(t) \in Nat /\ Kept(t) < ProfileBars + 2
    BY <1>1, <1>2, <1>4 DEF Kept
  <2>2. Signals("poc", d, Kept(t)) = {}
    BY <2>1, PocSays
  <2> QED
    BY <2>2, NoAction
<1>5. ASSUME NEW t \in Sampled(d), t < ProfileBars
      PROVE  ActionAt(Signals("poc", d, n), t) = {}
  <2>1. Signals("poc", d, n) = Entries(PocDues(d, n), ProfileBars, n, 10)
    BY <1>1, <1>2, PocSays
  <2>2. \A s \in Signals("poc", d, n) : s.bar \in ProfileBars .. n - 1
    BY <1>1, <1>2, <2>1, EntriesFrom
  <2>3. t \in Int /\ ~(t \in ProfileBars .. n - 1)
    BY <1>1, <1>2, <1>5
  <2> QED
    BY <2>2, <2>3, NoAction
<1>6. \A t \in Sampled(d) : t > ProfileBars \/ t < ProfileBars \/ t = ProfileBars
  BY <1>1, <1>2
<1>7. CausalInvariance("poc", d) <=>
        \A t \in Sampled(d) \cap {ProfileBars} : ActionAt(Signals("poc", d, n), t) = {}
  <2>1. CausalInvariance("poc", d) <=>
          \A t \in Sampled(d) : ActionAt(Signals("poc", d, Kept(t)), t)
                                  = ActionAt(Signals("poc", d, n), t)
    BY CausalIs DEF n
  <2>2. \A t \in Sampled(d) : t # ProfileBars =>
          ActionAt(Signals("poc", d, Kept(t)), t) = ActionAt(Signals("poc", d, n), t)
    <3> TAKE t \in Sampled(d)
    <3>1. CASE t > ProfileBars
      BY <1>3, <3>1
    <3>2. CASE t < ProfileBars
      <4>1. t <= ProfileBars
        BY <1>1, <1>2, <3>2
      <4> QED
        BY <1>4, <1>5, <3>2, <4>1
    <3> QED
      BY <1>6, <3>1, <3>2
  <2>3. \A t \in Sampled(d) : t = ProfileBars => ActionAt(Signals("poc", d, Kept(t)), t) = {}
    BY <1>2, <1>4
  <2> QED
    BY ONLY <2>1, <2>2, <2>3
<1>8. CausalInvariance("poc", d) <=> ~HasSignal("poc", d, Sampled(d) \cap {ProfileBars})
  BY <1>7, NoAction DEF HasSignal, n
<1>9. ASSUME n > TestBar + 10
      PROVE  UpTo(Signals("poc", d, n), TestBar) = UpTo(Signals("poc", Perturbed(d), n), TestBar)
  <2>1. /\ Signals("poc", d, n) = Entries(PocDues(d, n), ProfileBars, n, 10)
        /\ Signals("poc", Perturbed(d), n) = Entries(PocDues(Perturbed(d), n), ProfileBars, n, 10)
    BY <1>1, <1>2, <1>9, PocSays
  <2>2. \A k \in ProfileBars .. TestBar : PocDues(d, n)[k] = PocDues(Perturbed(d), n)[k]
    <3> TAKE k \in ProfileBars .. TestBar
    <3>1. k < n /\ k \in ProfileBars .. n - 1 /\ TestBar \in Nat
      BY <1>1, <1>2, <1>9
    <3>2. PocDue(d, k) = PocDue(Perturbed(d), k)
      BY <3>1, PerturbedSame, PocSame DEF n
    <3> QED
      BY <3>1, <3>2 DEF PocDues
  <2> QED
    BY <1>1, <1>2, <1>9, <2>1, <2>2, EntriesLocal
<1>10. PerturbationInvariance("poc", d)
  <2>1. n > TestBar + 10 \/ n <= TestBar + 10
    BY <1>1, <1>2
  <2> QED
    BY <1>9, <2>1, PerturbationIs DEF n
<1> QED
  BY <1>8, <1>10

-----------------------------------------------------------------------------
(* The strategy that reads the mean of the frame: the perturbed bars raise *)
(* the mean above every close before them.                                 *)

Plus(sum, x) == x + sum
Sums == INSTANCE FoldTheorems WITH Op <- Plus

LEMMA AddedRuns ==
  ASSUME NEW f, NEW from \in Int, NEW to \in Int, from - 1 <= to
  PROVE  \E h : Sums!RunsOver(h, 0, f, from, to) /\ Added(f, from, to) = h[to]
<1> DEFINE Q(h) == h = [t \in from - 1 .. to |-> IF t < from THEN 0 ELSE f[t] + h[t - 1]]
<1>1. Added(f, from, to) = (CHOOSE h : Q(h))[to]
  BY Zenon DEF Added
<1>2. \A h : Q(h) <=> Sums!RunsOver(h, 0, f, from, to)
  BY DEF Sums!RunsOver, Plus
<1>3. \E h : Sums!RunsOver(h, 0, f, from, to)
  <2>1. to - from + 1 \in Nat /\ from - 1 + (to - from + 1) = to
    OBVIOUS
  <2> QED
    BY <2>1, Sums!RunExists
<1> HIDE DEF Q
<1>4. Q(CHOOSE h : Q(h))
  BY <1>2, <1>3, Zenon
<1> QED
  BY <1>1, <1>2, <1>4

(* Closes and the least that perturbed ones may be.                        *)
Closes == {19400, 20000, 20600}
Least(t) == IF t <= TestBar THEN 19400 ELSE 26190
LeastSum(t) == IF t <= TestBar THEN 19400 * (t + 1) ELSE 601400 + 26190 * (t - 30)

LEMMA SumAtLeast ==
  ASSUME NEW f, NEW n \in Nat, \A t \in 0 .. n - 1 : f[t] \in Int /\ f[t] >= Least(t)
  PROVE  Added(f, 0, n - 1) \in Int /\ Added(f, 0, n - 1) >= LeastSum(n - 1)
<1>1. PICK h : Sums!RunsOver(h, 0, f, 0, n - 1) /\ Added(f, 0, n - 1) = h[n - 1]
  <2>1. n - 1 \in Int /\ 0 - 1 <= n - 1 /\ 0 \in Int
    OBVIOUS
  <2> QED
    BY <2>1, AddedRuns
<1>2. h[-1] = 0 /\ \A t \in 0 .. n - 1 : h[t] = f[t] + h[t - 1]
  <2>1. n - 1 \in Int /\ 0 - 1 <= n - 1 /\ 0 \in Int /\ 0 - 1 = -1
    OBVIOUS
  <2>2. h[0 - 1] = 0 /\ \A t \in 0 .. n - 1 : h[t] = Plus(h[t - 1], f[t])
    BY <1>1, <2>1, Sums!RunsAt
  <2> QED
    BY <2>1, <2>2 DEF Plus
<1> DEFINE N == { k \in Nat : k <= n /\ ~(h[k - 1] \in Int /\ h[k - 1] >= LeastSum(k - 1)) }
<1>3. ASSUME NEW k \in N, \A j \in N : k <= j PROVE FALSE
  <2>1. k \in Nat /\ k <= n /\ ~(h[k - 1] \in Int /\ h[k - 1] >= LeastSum(k - 1))
    OBVIOUS
  <2>2. CASE k = 0
    <3>1. k - 1 = -1 /\ LeastSum(-1) = 0
      BY <2>2 DEF LeastSum, TestBar
    <3> QED
      BY <1>2, <2>1, <3>1
  <2>3. CASE k # 0
    <3> DEFINE t == k - 1
    <3>1. t \in Nat /\ t \in 0 .. n - 1 /\ t \notin N
      <4> HIDE DEF N
      <4>1. k - 1 \in Nat /\ k - 1 \in 0 .. n - 1 /\ ~(k <= k - 1)
        BY <2>1, <2>3
      <4> QED
        BY <1>3, <4>1
    <3>2. h[t - 1] \in Int /\ h[t - 1] >= LeastSum(t - 1)
      BY <3>1
    <3>3. h[t] = f[t] + h[t - 1] /\ f[t] \in Int /\ f[t] >= Least(t)
      BY <1>2, <3>1
    <3>4. LeastSum(t) = Least(t) + LeastSum(t - 1) /\ LeastSum(t - 1) \in Int /\ Least(t) \in Int
      BY <3>1 DEF LeastSum, Least, TestBar
    <3> HIDE DEF t
    <3>5. h[t] \in Int /\ h[t] >= LeastSum(t)
      BY ONLY <3>2, <3>3, <3>4
    <3> QED
      BY <2>1, <3>5 DEF t
  <2> QED
    BY <2>2, <2>3
<1>4. N = {}
  <2> HIDE DEF N
  <2>1. N \subseteq Nat
    BY DEF N
  <2> QED
    BY <1>3, <2>1, Sums!LeastNumber
<1>5. n \notin N
  BY <1>4
<1> QED
  BY <1>1, <1>5

LEMMA RegimeJudged ==
  ASSUME NEW d, IsFrame(d), \A t \in 0 .. d.length - 1 : d.close[t] \in Closes,
         d.length > TestBar + 10, HasSignal("regime", d, 0 .. TestBar)
  PROVE  ~PerturbationInvariance("regime", d)
<1> DEFINE n == d.length
           e == Perturbed(d)
           sum == Added(e.close, 0, n - 1)
<1>1. n \in Nat /\ n > 40 /\ TestBar = 30
  BY DEF TestBar, IsFrame
<1>2. SameUpTo(d, e, TestBar)
  BY PerturbedSame
<1> HIDE DEF n
<1>3. ASSUME NEW t \in 0 .. n - 1
      PROVE  /\ e.close[t] \in Int /\ e.close[t] >= Least(t)
             /\ t <= TestBar => e.close[t] \in Closes
  <2>1. d.close[t] \in Closes /\ DOMAIN d.close = 0 .. n - 1
    BY DEF n, IsFrame, BarsOf
  <2>2. CASE t <= TestBar
    <3>1. e.close[t] = d.close[t]
      BY <1>2, <2>1, <2>2 DEF SameUpTo, SameBars
    <3> QED
      BY <2>1, <2>2, <3>1 DEF Closes, Least
  <2>3. CASE ~(t <= TestBar)
    <3>1. e.close[t] = (d.close[t] * 27) \div 20
      BY <1>1, <2>1, <2>3 DEF Perturbed
    <3>2. (19400 * 27) \div 20 = 26190 /\ (20000 * 27) \div 20 = 27000
          /\ (20600 * 27) \div 20 = 27810
      OBVIOUS
    <3>3. e.close[t] \in {26190, 27000, 27810}
      BY ONLY <2>1, <3>1, <3>2 DEF Closes
    <3> QED
      BY ONLY <2>3, <3>3 DEF Least
  <2> QED
    BY <2>2, <2>3
<1> HIDE DEF e
<1>4. sum \in Int /\ sum >= LeastSum(n - 1)
  BY <1>1, <1>3, SumAtLeast
<1> HIDE DEF sum
<1>5. LeastSum(n - 1) >= 20600 * n /\ LeastSum(n - 1) \in Int
  BY <1>1 DEF LeastSum
<1>6. \A t \in 0 .. n - 1 : t <= TestBar => ~(e.close[t] * n > sum)
  <2> TAKE t \in 0 .. n - 1
  <2> HAVE t <= TestBar
  <2>1. e.close[t] \in {19400, 20000, 20600}
    BY <1>3 DEF Closes
  <2>2. e.close[t] * n <= 20600 * n /\ e.close[t] * n \in Int
    BY ONLY <1>1, <2>1
  <2> QED
    BY ONLY <1>1, <1>4, <1>5, <2>2
<1>7. UpTo(Signals("regime", e, n), TestBar) = {}
  <2>1. Signals("regime", e, n) = Longs({ t \in 0 .. n - 1 : n >= 10 /\ e.close[t] * n > sum })
    BY DEF Signals, FutureRegime, sum
  <2>2. \A s \in Signals("regime", e, n) : ~(s.bar <= TestBar)
    BY <1>6, <2>1 DEF Longs
  <2> QED
    BY <2>2 DEF UpTo
<1>8. UpTo(Signals("regime", d, n), TestBar) # {}
  BY <1>1 DEF HasSignal, UpTo, n
<1> QED
  BY <1>1, <1>7, <1>8, PerturbationIs DEF n, e

(* A frame the guard is given.                                             *)
LEMMA FramesAre ==
  ASSUME NEW o \in Outlines, NEW d, d = FrameOf(o)
  PROVE  IsFrame(d) /\ \A t \in 0 .. d.length - 1 : d.close[t] \in Closes
<1>1. o.length \in Nat \ {0}
  BY OutlinesAssumption
<1>2. d.length = o.length
  BY DEF FrameOf
<1>3. IsFrame(d)
  BY <1>1 DEF FrameOf, IsFrame, BarsOf
<1>4. ASSUME NEW t \in 0 .. d.length - 1 PROVE d.close[t] \in Closes
  <2>1. d.close[t] = 20 * (1000 + (IF t \in o.up THEN PriceMove ELSE 0)
                                - (IF t \in o.down THEN PriceMove ELSE 0))
    BY <1>2 DEF FrameOf
  <2> QED
    BY <2>1 DEF PriceMove, Closes
<1> QED
  BY <1>3, <1>4

(* The verdict on a strategy.                                              *)
Judged(v, d) ==
  /\ v.strategy \in Reader => (v.causal <=> ~ HasSignal(v.strategy, d, Sampled(d)))
  /\ v.strategy = "regime" /\ d.length > TestBar + 10 /\ HasSignal("regime", d, 0 .. TestBar) =>
       ~ v.unperturbed
  /\ v.strategy = "cvd" => v.unperturbed /\ v.causal
  /\ v.strategy = "poc" =>
       /\ v.unperturbed
       /\ v.causal <=> ~ HasSignal("poc", d, Sampled(d) \cap {ProfileBars})

VerdictOn(strategy, d) ==
  [strategy |-> strategy, causal |-> CausalInvariance(strategy, d),
   unperturbed |-> PerturbationInvariance(strategy, d)]

LEMMA VerdictsHold ==
  ASSUME NEW o \in Outlines, NEW strategy \in Strategies
  PROVE  Judged(VerdictOn(strategy, FrameOf(o)), FrameOf(o))
<1> PICK d : d = FrameOf(o)
  OBVIOUS
<1> PICK v : v = VerdictOn(strategy, d)
  OBVIOUS
<1>1. IsFrame(d) /\ \A t \in 0 .. d.length - 1 : d.close[t] \in Closes
  BY FramesAre
<1>2. d.length \in Nat
  BY <1>1 DEF IsFrame
<1>3. /\ v.strategy = strategy /\ v.causal = CausalInvariance(strategy, d)
      /\ v.unperturbed = PerturbationInvariance(strategy, d)
  BY DEF VerdictOn
<1>4. v.strategy \in Reader => (v.causal <=> ~ HasSignal(v.strategy, d, Sampled(d)))
  BY <1>2, <1>3, ReadersJudged
<1>5. v.strategy = "regime" /\ d.length > TestBar + 10 /\ HasSignal("regime", d, 0 .. TestBar) =>
        ~ v.unperturbed
  BY <1>1, <1>3, RegimeJudged
<1>6. v.strategy = "cvd" => v.unperturbed /\ v.causal
  BY <1>1, <1>3, CvdJudged
<1>7. v.strategy = "poc" =>
        /\ v.unperturbed
        /\ v.causal <=> ~ HasSignal("poc", d, Sampled(d) \cap {ProfileBars})
  BY <1>1, <1>3, PocJudged
<1>8. Judged(v, d)
  BY ONLY <1>4, <1>5, <1>6, <1>7 DEF Judged
<1> QED
  BY <1>8

(* The guard reads one frame and judges one strategy on it.                *)
GuardInv ==
  \/ frame = {} /\ verdict = {}
  \/ \E o \in Outlines :
       /\ frame = {FrameOf(o)}
       /\ verdict = {} \/ \E strategy \in Strategies : verdict = {VerdictOn(strategy, FrameOf(o))}

LEMMA GuardKept == Spec => []GuardInv
<1>1. Init => GuardInv
  BY DEF Init, GuardInit, GuardInv
<1>2. GuardInv /\ [Next]_vars => GuardInv'
  <2> SUFFICES ASSUME GuardInv, [Next]_vars PROVE GuardInv'
    OBVIOUS
  <2>1. Read \/ Judge \/ (frame' = frame /\ verdict' = verdict)
    BY Zenon DEF Next, RunBacktest, RunWalkForward, RunAdjustment, RunGuard, GuardNext, vars, gvars
  <2>2. CASE Read
    <3>1. frame = {} /\ verdict = {}
      BY <2>2 DEF Read, GuardInv
    <3>2. PICK o \in Outlines : frame' = {FrameOf(o)} /\ verdict' = {}
      BY <2>2, <3>1 DEF Read
    <3> QED
      BY <3>2 DEF GuardInv
  <2>3. CASE Judge
    <3>1. PICK d \in frame, strategy \in Strategies : verdict' = {VerdictOn(strategy, d)}
      BY <2>3 DEF Judge, VerdictOn
    <3>2. PICK o \in Outlines : frame = {FrameOf(o)}
      BY <3>1 DEF GuardInv
    <3>3. frame' = {FrameOf(o)} /\ d = FrameOf(o)
      BY <2>3, <3>1, <3>2 DEF Judge
    <3> QED
      BY <3>1, <3>3 DEF GuardInv
  <2>4. CASE frame' = frame /\ verdict' = verdict
    BY <2>4 DEF GuardInv
  <2> QED
    BY <2>1, <2>2, <2>3, <2>4
<1> QED
  BY <1>1, <1>2, PTL DEF Spec

(* The guard's two tests say of a strategy what they are worth: on a frame *)
(* of any length, with any bars risen, fallen and loud, a strategy that    *)
(* reads a few bars ahead is caught exactly where an entry of it is        *)
(* sampled, and no test touches a library strategy but for the profile's   *)
(* entry at its first bar (lookahead_guard.py:159-230).                    *)
THEOREM JudgementsHold == Spec => []GuardJudges
<1>1. GuardInv => GuardJudges
  <2> SUFFICES ASSUME GuardInv, NEW v \in verdict, NEW d \in frame PROVE Judged(v, d)
    BY DEF GuardJudges, Judged, Sampled
  <2>1. PICK o \in Outlines, strategy \in Strategies :
          d = FrameOf(o) /\ v = VerdictOn(strategy, FrameOf(o))
    BY DEF GuardInv
  <2> QED
    BY <2>1, VerdictsHold
<1> QED
  BY <1>1, GuardKept, PTL

-----------------------------------------------------------------------------
(* Types.                                                                  *)

JobOK == job \in Jobs

(* The computations have the types of their results.                       *)
THEOREM TypesHold == Spec => []TypeOK
<1>1. BacktestInv => BTypeOK
  <2> SUFFICES ASSUME BacktestInv PROVE BTypeOK
    OBVIOUS
  <2>1. \A t \in ToSet(trades) : t \in Trades
    BY DEF BacktestInv, BookInv, ToSet
  <2> QED
    BY <2>1 DEF BacktestInv, BookInv, BTypeOK, Holding, Trades
<1>2. WInv => WTypeOK
  BY DEF WInv
<1>3. FamilyInv => MTypeOK
  <2>1. 0 \in 0 .. Unit * Ranks /\ 0 \in 0 .. M
    BY TestingSizes, Times
  <2>2. ASSUME NEW T, T \subseteq Hypotheses PROVE Cardinality(T) \in 0 .. M
    <3>1. IsFiniteSet(Hypotheses) /\ Cardinality(Hypotheses) = M
      BY TestingSizes, FS_Interval DEF Hypotheses
    <3>2. Cardinality(T) <= M /\ IsFiniteSet(T)
      BY <3>1, <2>2, FS_Subset
    <3>3. Cardinality(T) \in Nat
      BY <3>2, FS_CardinalityType
    <3> QED
      BY <3>2, <3>3, TestingSizes
  <2>3. CASE family = NoFamily
    BY <2>1, <2>3 DEF NoFamily, MTypeOK
  <2>4. CASE FamilyInv /\ family # NoFamily
    <3>1. Significant(family.adj, family.alpha) \subseteq Hypotheses
      BY DEF Significant
    <3>2. family.count \in 0 .. M
      BY <2>2, <2>4, <3>1 DEF FamilyInv
    <3> QED
      BY <2>4, <3>2 DEF FamilyInv, MTypeOK, Agree
  <2> QED
    BY <2>3, <2>4
<1>4. GuardInv => GuardTypeOK
  <2> SUFFICES ASSUME GuardInv PROVE GuardTypeOK
    OBVIOUS
  <2>1. \A x : Cardinality({x}) = 1
    BY FS_Singleton
  <2>2. Cardinality({}) = 0
    BY FS_EmptySet
  <2>3. Cardinality(frame) <= 1 /\ Cardinality(verdict) <= Cardinality(frame)
    <3>1. frame = {} \/ \E d : frame = {d}
      BY DEF GuardInv
    <3>2. CASE verdict = {}
      BY <2>1, <2>2, <3>1, <3>2
    <3>3. CASE verdict # {}
      <4>1. (\E v : verdict = {v}) /\ \E d : frame = {d}
        BY <3>3 DEF GuardInv
      <4>2. Cardinality(verdict) = 1 /\ Cardinality(frame) = 1
        BY <2>1, <4>1
      <4> QED
        BY <4>2
    <3> QED
      BY <3>2, <3>3
  <2>4. \A v \in verdict : v.strategy \in Strategies /\ {v.causal, v.unperturbed} \subseteq BOOLEAN
    <3>1. \A s, d : CausalInvariance(s, d) \in BOOLEAN /\ PerturbationInvariance(s, d) \in BOOLEAN
      BY Zenon DEF CausalInvariance, PerturbationInvariance
    <3>2. \A v \in verdict : \E s \in Strategies : \E d : v = VerdictOn(s, d)
      BY DEF GuardInv
    <3> QED
      BY <3>1, <3>2 DEF VerdictOn
  <2> QED
    BY <2>3, <2>4 DEF GuardTypeOK
<1>5. Init => JobOK
  BY DEF Init, Jobs, JobOK
<1>6. JobOK /\ [Next]_vars => JobOK'
  BY DEF Jobs, Next, RunBacktest, RunWalkForward, RunAdjustment, RunGuard, vars, JobOK
<1>7. BTypeOK /\ WTypeOK /\ MTypeOK /\ GuardTypeOK /\ JobOK => TypeOK
  BY DEF TypeOK, JobOK
<1> QED
  BY <1>1, <1>2, <1>3, <1>4, <1>5, <1>6, <1>7, BacktestKept, WalkKept, FamilyKept, GuardKept, PTL
     DEF Spec
=============================================================================
