--------------------------- MODULE Microstructure ---------------------------
(***************************************************************************)
(* MicrostructureEngine of one symbol: the order flow of the trades the    *)
(* event loop takes in, and the volume profile that an endpoint's thread   *)
(* computes from the same footprint meanwhile.                             *)
(*                                                                         *)
(* Prices are ticks, quantities whole, and sums exact.                     *)
(***************************************************************************)
EXTENDS Integers, FiniteSetsExt, SequencesExt

CONSTANTS
  Prices,
  Trades,     \* price, buy (the aggressor's side), quantity
  Askers,     \* calls of get_microstructure
  MaxTrades,  \* number of trades (a bound of the model)
  Nothing     \* no profile, no level, no trade under way

LevelRows == [buy : Nat, sell : Nat, total : Nat]

ASSUME TradesAssumption ==
  /\ Prices \subseteq Int /\ Trades \subseteq [price : Prices, buy : BOOLEAN, quantity : Nat \ {0}]
  /\ MaxTrades \in Nat /\ Nothing \notin LevelRows /\ Nothing \notin Trades

VARIABLES
  level,      \* footprint_levels: level[p], or Nothing
  cvd,        \* current_cvd
  bar,        \* current_bar_buy_vol and current_bar_sell_vol
  trade,      \* the trade process_trade works on, or Nothing
  step,       \* the statement it stands at
  traded,     \* number of trades taken in
  snapshot,   \* latest_snapshots of the symbol: cvd and profile, or Nothing
  asker       \* asker[a]: where a call stands, and its local variables

flowVars == <<level, cvd, bar, trade, step, traded, snapshot, asker>>

NewLevel == [buy |-> 0, sell |-> 0, total |-> 0]
Levels == {p \in Prices : level[p] # Nothing}
Volumes == [p \in Levels |-> level[p].total]
Sum(volumes) == SumFunctionOnSet(volumes, DOMAIN volumes)
NoCall == [at |-> "begin", levels |-> {}, left |-> {}, total |-> 0, map |-> <<>>,
           counted |-> 0, profile |-> Nothing]

FlowTypeOK ==
  /\ level \in [Prices -> LevelRows \cup {Nothing}]
  /\ cvd \in Int /\ bar \in [buy : Nat, sell : Nat]
  /\ trade \in Trades \cup {Nothing} /\ traded \in 0..MaxTrades
  /\ step \in {"rest", "level", "side", "total", "profile"} /\ (trade = Nothing <=> step = "rest")
  /\ \A a \in Askers : asker[a].at \in {"begin", "sum", "prices", "map", "done", "raised"}

FlowInit ==
  /\ level = [p \in Prices |-> Nothing]
  /\ cvd = 0 /\ bar = [buy |-> 0, sell |-> 0]
  /\ trade = Nothing /\ step = "rest" /\ traded = 0
  /\ snapshot = Nothing
  /\ asker = [a \in Askers |-> NoCall]

-----------------------------------------------------------------------------
(* calculate_volume_profile, from the volumes by price and their total.    *)

Inside(volumes, area) ==
  SumFunctionOnSet(volumes, {p \in DOMAIN volumes : area.low <= p /\ p <= area.high})
Reached(volumes, area, total) == 10 * Inside(volumes, area) >= 7 * total

Above(volumes, area) == {p \in DOMAIN volumes : p > area.high}
Below(volumes, area) == {p \in DOMAIN volumes : p < area.low}
UpperIsThicker(volumes, area) ==
  LET above == Above(volumes, area)
      below == Below(volumes, area)
  IN (IF above = {} THEN 0 ELSE volumes[Min(above)]) >= (IF below = {} THEN 0 ELSE volumes[Max(below)])

(* Slip: where nothing is above, the area stops. *)
WidenedUpwards(search, p) ==
  LET volumes == search.volumes
  IN  IF Reached(volumes, search, search.total) \/ Above(volumes, search) = {} THEN search
      ELSE IF UpperIsThicker(volumes, search)
      THEN [search EXCEPT !.high = Min(Above(volumes, search))]
      ELSE [search EXCEPT !.low = Max(Below(volumes, search))]

(* A round of the loop: one price further, up if that is the thicker       *)
(* neighbour.                                                              *)
Widened(search, p) ==
  LET volumes == search.volumes
  IN  IF Reached(volumes, search, search.total)
           \/ Above(volumes, search) \cup Below(volumes, search) = {} THEN search
      ELSE IF UpperIsThicker(volumes, search) /\ Above(volumes, search) # {}
      THEN [search EXCEPT !.high = Min(Above(volumes, search))]
      ELSE [search EXCEPT !.low = Max(Below(volumes, search))]

Thickest(volumes) == {p \in DOMAIN volumes : \A q \in DOMAIN volumes : volumes[q] <= volumes[p]}

Profile(volumes, total) ==
  IF DOMAIN volumes = {} \/ total = 0 THEN Nothing
  ELSE LET poc == Min(Thickest(volumes))
           area == FoldLeft(Widened, [volumes |-> volumes, total |-> total,
                                      poc |-> poc, low |-> poc, high |-> poc],
                            SetToSeq(DOMAIN volumes))
       IN  [poc |-> area.poc, low |-> area.low, high |-> area.high]

-----------------------------------------------------------------------------
(* process_trade, on the event loop; a thread may run between any two of   *)
(* its statements.                                                         *)

Ingest(t) ==
  /\ step = "rest" /\ traded < MaxTrades
  /\ trade' = t /\ traded' = traded + 1 /\ step' = "level"
  /\ cvd' = cvd + IF t.buy THEN t.quantity ELSE -t.quantity
  /\ UNCHANGED <<level, bar, snapshot, asker>>

FindLevel ==
  /\ step = "level" /\ step' = "side"
  /\ level' = [level EXCEPT ![trade.price] = IF @ = Nothing THEN NewLevel ELSE @]
  /\ UNCHANGED <<cvd, bar, trade, traded, snapshot, asker>>

AddSide ==
  /\ step = "side" /\ step' = "total"
  /\ LET side == IF trade.buy THEN "buy" ELSE "sell"
     IN  /\ level' = [level EXCEPT ![trade.price][side] = @ + trade.quantity]
         /\ bar' = [bar EXCEPT ![side] = @ + trade.quantity]
  /\ UNCHANGED <<cvd, trade, traded, snapshot, asker>>

AddTotal ==
  /\ step = "total" /\ step' = "profile"
  /\ level' = [level EXCEPT ![trade.price].total = @ + trade.quantity]
  /\ UNCHANGED <<cvd, bar, trade, traded, snapshot, asker>>

(* The profile, the snapshot, and the worker's latest_snapshots. *)
TakeSnapshot ==
  /\ step = "profile" /\ step' = "rest" /\ trade' = Nothing
  /\ snapshot' = [cvd |-> cvd, profile |-> Profile(Volumes, Sum(Volumes))]
  /\ UNCHANGED <<level, cvd, bar, traded, asker>>

-----------------------------------------------------------------------------
(* calculate_volume_profile in the endpoint's thread, after the snapshot   *)
(* and the footprint were read.                                            *)

Advance(a, call) ==
  asker' = [asker EXCEPT ![a] = call] /\ UNCHANGED <<level, cvd, bar, trade, step, traded, snapshot>>

Ask(a) ==
  /\ asker[a].at = "begin"
  /\ Advance(a, IF Levels = {} THEN [NoCall EXCEPT !.at = "done"]
                ELSE [NoCall EXCEPT !.at = "sum", !.levels = Levels, !.left = Levels,
                                    !.counted = Sum(Volumes)])

(* The sum goes over the dictionary level by level, in some order; one     *)
(* that grew meanwhile raises.                                             *)
CountLevel(a) ==
  /\ asker[a].at = "sum"
  /\ LET c == asker[a]
     IN  CASE Levels # c.levels -> Advance(a, [c EXCEPT !.at = "raised"])
           [] Levels = c.levels /\ c.left = {} ->
                Advance(a, [c EXCEPT !.at = IF c.total = 0 THEN "done" ELSE "prices"])
           [] OTHER -> \E p \in c.left :
                Advance(a, [c EXCEPT !.total = @ + level[p].total, !.left = @ \ {p}])

(* The prices are sorted, with those that came after the sum. *)
SortPrices(a) ==
  /\ asker[a].at = "prices"
  /\ Advance(a, [asker[a] EXCEPT !.at = "map", !.levels = Levels, !.left = Levels])

(* The volumes are read again, price by price from the lowest. *)
MapLevel(a) ==
  /\ asker[a].at = "map"
  /\ LET c == asker[a]
         p == Min(c.left)
         read == [q \in DOMAIN c.map \cup {p} |-> IF q = p THEN level[p].total ELSE c.map[q]]
     IN  IF c.left = {p}
         THEN Advance(a, [c EXCEPT !.at = "done", !.map = read, !.left = {},
                                   !.profile = Profile(read, c.total)])
         ELSE Advance(a, [c EXCEPT !.map = read, !.left = @ \ {p}])

FlowNext ==
  \/ \E t \in Trades : Ingest(t)
  \/ FindLevel \/ AddSide \/ AddTotal \/ TakeSnapshot
  \/ \E a \in Askers : Ask(a) \/ CountLevel(a) \/ SortPrices(a) \/ MapLevel(a)

-----------------------------------------------------------------------------
(* Between two trades the running sums agree with the footprint, and the   *)
(* snapshot is of the last trade.                                          *)
SumsAgree ==
  step = "rest" =>
    /\ cvd = SumFunctionOnSet([p \in Levels |-> level[p].buy - level[p].sell], Levels)
    /\ cvd = bar.buy - bar.sell
    /\ \A p \in Levels : level[p].total = level[p].buy + level[p].sell
    /\ snapshot # Nothing => snapshot.cvd = cvd

(* A value area holds the point of control and 70% of the volume, and at   *)
(* one end no more than it takes to get there.                             *)
IsValueArea(profile, volumes, total) ==
  /\ profile.poc \in DOMAIN volumes /\ \A p \in DOMAIN volumes : volumes[p] <= volumes[profile.poc]
  /\ profile.low <= profile.poc /\ profile.poc <= profile.high
  /\ Reached(volumes, profile, total)
  /\ \/ profile.low = profile.high
     \/ profile.low < profile.poc /\ ~Reached(volumes, [profile EXCEPT !.low = @ + 1], total)
     \/ profile.high > profile.poc /\ ~Reached(volumes, [profile EXCEPT !.high = @ - 1], total)

(* The snapshot's is one; and what the endpoint answers is one for the     *)
(* volumes it read, and covers 70% of what was traded when it began, while *)
(* trades come in all the time.                                            *)
ProfileCovers ==
  /\ step = "rest" /\ snapshot # Nothing => IsValueArea(snapshot.profile, Volumes, Sum(Volumes))
  /\ \A a \in Askers :
       LET c == asker[a]
       IN  c.profile # Nothing => IsValueArea(c.profile, c.map, c.total) /\ c.total >= c.counted

(* Order flow as the platform shows it. *)
FlowAddsUp == SumsAgree /\ ProfileCovers
=============================================================================
