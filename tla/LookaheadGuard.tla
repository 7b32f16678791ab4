--------------------------- MODULE LookaheadGuard ---------------------------
(***************************************************************************)
(* The lookahead guard (core/research/lookahead_guard.py) and the          *)
(* strategies it judges: the five of that file that read bars to come, and *)
(* the two of core/strategies/library.py.                                  *)
(*                                                                         *)
(* A frame is quiet but for some bars: a close PriceMove above or below    *)
(* the open, a volume three times the others'.  Prices are in 1/20, so     *)
(* that the guard's factors 1.3, 1.4, 0.7 and 1.35 are whole.  A signal is *)
(* its bar and action; its price is the close of that bar.                 *)
(***************************************************************************)
EXTENDS Integers, FiniteSets

CONSTANTS Outlines   \* the frames: length, bars that rise, fall, are loud

ASSUME OutlinesAssumption ==
  \A o \in Outlines :
    /\ o.length \in Nat \ {0}
    /\ o.up \cup o.down \cup o.loud \subseteq 0 .. o.length - 1

VARIABLES frame,    \* the data frame, {} before one is read
          verdict   \* the guard's two answers about a strategy, {} before

gvars == <<frame, verdict>>

PriceMove == 30
Reader == {"close", "volume", "label", "feature"}   \* of a few bars to come
Builtin == {"cvd", "poc"}
Strategies == Reader \cup {"regime"} \cup Builtin

FrameOf(o) ==
  LET bars == 0 .. o.length - 1
      Close(t) == 1000 + (IF t \in o.up THEN PriceMove ELSE 0)
                       - (IF t \in o.down THEN PriceMove ELSE 0)
      Highest(t) == IF Close(t) > 1000 THEN Close(t) ELSE 1000
      Lowest(t) == IF Close(t) < 1000 THEN Close(t) ELSE 1000
  IN [length |-> o.length,
      open |-> [t \in bars |-> 20 * 1000],
      high |-> [t \in bars |-> 20 * (Highest(t) + 5)],
      low |-> [t \in bars |-> 20 * (Lowest(t) - 5)],
      close |-> [t \in bars |-> 20 * Close(t)],
      volume |-> [t \in bars |-> IF t \in o.loud THEN 30 ELSE 10]]

\* f[from] + ... + f[to], 0 for no bars.
Added(f, from, to) ==
  LET sum[t \in from - 1 .. to] == IF t < from THEN 0 ELSE f[t] + sum[t - 1]
  IN sum[to]

-----------------------------------------------------------------------------
(* The signals of the strategies that read ahead, on the first n bars of d. *)

Longs(bars) == { [bar |-> t, action |-> "ENTER_LONG"] : t \in bars }

FutureClose(d, n) ==
  Longs({ t \in 0 .. n - 2 : n >= 5 /\ d.close[t + 1] * 1000 > d.close[t] * 1002 })

FutureVolume(d, n) ==
  Longs({ t \in 0 .. n - 3 : n >= 5 /\ d.volume[t + 2] > d.volume[t] * 2 })

FutureLabel(d, n) ==
  Longs({ t \in 0 .. n - 4 : n >= 5 /\ d.close[t + 3] * 100 > d.close[t] * 101 })

\* Above the mean of the five bars around it.
FutureFeature(d, n) ==
  Longs({ t \in 2 .. n - 3 : n >= 10 /\ d.close[t] * 5 > Added(d.close, t - 2, t + 2) })

\* Above the mean of the whole frame.
FutureRegime(d, n) ==
  LET sum == Added(d.close, 0, n - 1) IN
  Longs({ t \in 0 .. n - 1 : n >= 10 /\ d.close[t] * n > sum })

-----------------------------------------------------------------------------
(* The strategies of the library.                                           *)

\* Bar after bar from `first', an entry where one is due and the last one is at
\* least `cooldown' bars ago.
Entries(due, first, n, cooldown) ==
  LET upto[t \in first - 1 .. n - 1] ==
        IF t < first THEN {} ELSE
        LET before == upto[t - 1] IN
        before \cup
        { [bar |-> t, action |-> a] :
            a \in IF \A s \in before : t - s.bar >= cooldown THEN due[t] ELSE {} }
  IN upto[n - 1]

\* The volume delta, signed like the bar (the proxy for frames without sides).
Delta(d) ==
  [t \in DOMAIN d.close |->
     IF d.close[t] > d.open[t] THEN d.volume[t]
     ELSE IF d.close[t] < d.open[t] THEN - d.volume[t] ELSE 0]

CvdWindow == 14

\* The z-score of the delta in its window of w bars exceeds 1.5 either way.  With
\* the sums S and SS, it is x * sqrt(w - 1) / sqrt(w * V) for x = w * delta - S
\* and V = w * SS - S * S; where V is 0, x is.
CvdDue(d, t) ==
  LET w == CvdWindow
      delta == Delta(d)
      sum == Added(delta, t - w + 1, t)
      squares == Added([k \in DOMAIN delta |-> delta[k] * delta[k]], t - w + 1, t)
      x == w * delta[t] - sum
  IN IF 4 * x * x * (w - 1) <= 9 * w * (w * squares - sum * sum) THEN {}
     ELSE IF x > 0 THEN {"ENTER_LONG"} ELSE {"ENTER_SHORT"}

MicrostructureCVD(d, n) ==
  IF n < CvdWindow + 2 THEN {} ELSE Entries([t \in CvdWindow .. n - 1 |-> CvdDue(d, t)], CvdWindow, n, 5)

ProfileBars == 30

\* The value of rank k (from 0) among f[from] .. f[to].
Ranked(f, from, to, k) ==
  CHOOSE v \in { f[t] : t \in from .. to } :
    /\ Cardinality({ t \in from .. to : f[t] < v }) <= k
    /\ Cardinality({ t \in from .. to : f[t] <= v }) > k

\* Twenty times the quantiles 0.85 of the highs and 0.15 of the lows of the 30
\* bars before t: ranks 24.65 and 4.35, between two neighbours.
ValueAreaHigh(d, t) ==
  7 * Ranked(d.high, t - ProfileBars, t - 1, 24)
    + 13 * Ranked(d.high, t - ProfileBars, t - 1, 25)
ValueAreaLow(d, t) ==
  13 * Ranked(d.low, t - ProfileBars, t - 1, 4)
    + 7 * Ranked(d.low, t - ProfileBars, t - 1, 5)

PocDue(d, t) ==
  LET vah == ValueAreaHigh(d, t)
      val == ValueAreaLow(d, t)
  IN IF 20 * d.close[t - 1] <= vah /\ 20 * d.close[t] > vah THEN {"ENTER_LONG"}
     ELSE IF 20 * d.close[t - 1] >= val /\ 20 * d.close[t] < val THEN {"ENTER_SHORT"}
     ELSE {}

VolumeProfilePOC(d, n) ==
  IF n < ProfileBars + 2 THEN {} ELSE Entries([t \in ProfileBars .. n - 1 |-> PocDue(d, t)], ProfileBars, n, 10)

Signals(strategy, d, n) ==
  CASE strategy = "close" -> FutureClose(d, n)
    [] strategy = "volume" -> FutureVolume(d, n)
    [] strategy = "label" -> FutureLabel(d, n)
    [] strategy = "feature" -> FutureFeature(d, n)
    [] strategy = "regime" -> FutureRegime(d, n)
    [] strategy = "cvd" -> MicrostructureCVD(d, n)
    [] strategy = "poc" -> VolumeProfilePOC(d, n)

-----------------------------------------------------------------------------
(* The guard's two tests.                                                   *)

\* np.linspace(25, len - 5, num = min(10, len - 30), dtype = int)
Samples(n) ==
  LET num == IF n - 30 < 10 THEN n - 30 ELSE 10 IN
  { 25 + (k * (n - 30)) \div (num - 1) : k \in 0 .. num - 1 }

ActionAt(signals, t) == { s.action : s \in { s \in signals : s.bar = t } }

\* Slip: the truncated frame holds the bar after t.
KeptWithNext(t) == t + 2

\* The bars of df.iloc[: t + 1].
Kept(t) == t + 1

CausalInvariance(strategy, d) ==
  d.length < 40 \/
  LET full == Signals(strategy, d, d.length) IN
  \A t \in Samples(d.length) :
    ActionAt(Signals(strategy, d, Kept(t)), t) = ActionAt(full, t)

TestBar == 30

Perturbed(d) ==
  LET Scaled(f, factor) ==
        [t \in DOMAIN f |-> IF t > TestBar THEN (f[t] * factor) \div 20 ELSE f[t]]
  IN [length |-> d.length,
      open |-> Scaled(d.open, 26), high |-> Scaled(d.high, 28),
      low |-> Scaled(d.low, 14), close |-> Scaled(d.close, 27),
      volume |-> Scaled(d.volume, 100)]

UpTo(signals, t) == { s \in signals : s.bar <= t }

PerturbationInvariance(strategy, d) ==
  d.length <= TestBar + 10 \/
  UpTo(Signals(strategy, d, d.length), TestBar)
    = UpTo(Signals(strategy, Perturbed(d), d.length), TestBar)

GuardInit == frame = {} /\ verdict = {}

Read ==
  /\ frame = {}
  /\ \E o \in Outlines : frame' = {FrameOf(o)}
  /\ UNCHANGED verdict

Judge ==
  /\ verdict = {}
  /\ \E d \in frame, strategy \in Strategies :
       verdict' = {[strategy |-> strategy,
                    causal |-> CausalInvariance(strategy, d),
                    unperturbed |-> PerturbationInvariance(strategy, d)]}
  /\ UNCHANGED frame

GuardNext == Read \/ Judge

-----------------------------------------------------------------------------
GuardTypeOK ==
  /\ Cardinality(frame) <= 1
  /\ Cardinality(verdict) <= Cardinality(frame)
  /\ \A v \in verdict : v.strategy \in Strategies /\ {v.causal, v.unperturbed} \subseteq BOOLEAN

HasSignal(strategy, d, bars) ==
  \E s \in Signals(strategy, d, d.length) : s.bar \in bars

\* What the guard's word is worth (lookahead_guard.py:159-230).  No perturbation
\* touches a library strategy, and the truncation test finds fault with one only
\* for an entry at the bar where its warm-up ends: the profile strategy wants two
\* bars more than its window, and loses that entry when the frame ends there
\* (library.py:139).  A strategy that reads a few bars ahead is caught exactly
\* where one of its entries is on a sampled bar, so one that leaks only between
\* them is passed; the one that reads the mean of the frame is caught by the
\* perturbed bars, which raise it, as soon as it has an entry before them.
GuardJudges ==
  \A v \in verdict, d \in frame :
    LET sampled == IF d.length < 40 THEN {} ELSE Samples(d.length) IN
    /\ v.strategy \in Reader => (v.causal <=> ~ HasSignal(v.strategy, d, sampled))
    /\ v.strategy = "regime" /\ d.length > TestBar + 10 /\ HasSignal("regime", d, 0 .. TestBar) =>
         ~ v.unperturbed
    /\ v.strategy = "cvd" => v.unperturbed /\ v.causal
    /\ v.strategy = "poc" =>
         /\ v.unperturbed
         /\ v.causal <=> ~ HasSignal("poc", d, sampled \cap {ProfileBars})
=============================================================================
