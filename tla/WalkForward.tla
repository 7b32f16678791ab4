---------------------------- MODULE WalkForward -----------------------------
(***************************************************************************)
(* WalkForwardEngine.run (core/research/walk_forward.py) for one request:  *)
(* the folds are laid out one after the other, and each is evaluated by a  *)
(* backtest of its training slice and one of its test slice, each of which *)
(* leaves a row in backtest_runs.  A slice without bars makes the backtest *)
(* raise, and with it the whole run (backtest.py:391, df.iloc[0]).         *)
(*                                                                         *)
(* A window is the interval of bars from "from" up to and without "to".    *)
(* The lengths of a request are any integers, as the endpoint takes them   *)
(* (main.py:413-421); only purge and embargo are raised to 1.  A bound that *)
(* a negative length moves below 0 counts from the end of the data, as in  *)
(* every slice of Python, so the bars of a window are those of Rows(w).    *)
(***************************************************************************)
EXTENDS Integers, FiniteSets

CONSTANTS Total,        \* len(df)
          WalkRequests  \* the requests: methodology and window lengths

ASSUME WalkAssumption ==
  /\ Total \in Nat
  /\ WalkRequests \subseteq
       [methodology : {"ROLLING", "EXPANDING"}, train : Int, purge : Int,
        test : Int, embargo : Int, step : Int]

VARIABLES wstat,      \* "idle", "walking", "done", "failed"
          req,        \* the request
          start,      \* current_train_start
          folds,      \* the fold records
          evaluated   \* the bars of the slices with a row in backtest_runs

wvars == <<wstat, req, start, folds, evaluated>>

AtLeastOne(n) == IF n < 1 THEN 1 ELSE n
Window(a, length) == [from |-> a, to |-> a + length]

\* The windows of the fold whose training begins at s (EXPANDING: ends there).
TrainOf(r, s) ==
  [from |-> IF r.methodology = "ROLLING" THEN s ELSE 0, to |-> s + r.train]
\* Mutant: the purge is as long as the request says, also 0.
PurgeAsAsked(r, s) == Window(s + r.train, r.purge)

PurgeOf(r, s) == Window(s + r.train, AtLeastOne(r.purge))
TestOf(r, s) == Window(PurgeOf(r, s).to, r.test)
EmbargoOf(r, s) == Window(TestOf(r, s).to, AtLeastOne(r.embargo))

FoldAt(r, s) ==
  [train |-> TrainOf(r, s), purge |-> PurgeOf(r, s),
   test |-> TestOf(r, s), embargo |-> EmbargoOf(r, s)]

\* The bar a bound of a slice stands for, and the bars of a slice.
Clip(n) ==
  LET m == IF n < 0 THEN n + Total ELSE n
  IN  IF m < 0 THEN 0 ELSE IF m > Total THEN Total ELSE m
Rows(w) == [from |-> Clip(w.from), to |-> Clip(w.to)]
Empty(w) == Rows(w).to <= Rows(w).from

\* Mutant: the test window must end before the last bar.
FitsBefore(r, s) == TestOf(r, s).to < Total

Fits(r, s) == TestOf(r, s).to <= Total

\* Mutant: the loop advances by step_bars alone.
StepAsAsked(r) == r.step

\* How far the next fold is from this one.
StepOf(r) == IF r.step > r.test THEN r.step ELSE r.test

-----------------------------------------------------------------------------
NoRequest == [methodology |-> "ROLLING", train |-> 0, purge |-> 0, test |-> 0,
              embargo |-> 0, step |-> 0]

WInit ==
  /\ wstat = "idle" /\ req = NoRequest
  /\ start = 0 /\ folds = {} /\ evaluated = {}

WStart ==
  /\ wstat = "idle"
  /\ wstat' = "walking" /\ req' \in WalkRequests
  /\ UNCHANGED <<start, folds, evaluated>>

\* One turn of the loop: both slices are evaluated and the fold is recorded.
EvaluateFold ==
  /\ wstat = "walking" /\ Fits(req, start)
  /\ ~ Empty(TrainOf(req, start)) /\ ~ Empty(TestOf(req, start))
  /\ folds' = folds \cup {FoldAt(req, start)}
  /\ evaluated' = evaluated \cup {Rows(TrainOf(req, start)), Rows(TestOf(req, start))}
  /\ start' = start + StepOf(req)
  /\ UNCHANGED <<wstat, req>>

\* The first empty slice raises; the rows written before it stay.
RaiseOnEmpty ==
  /\ wstat = "walking" /\ Fits(req, start)
  /\ \/ Empty(TrainOf(req, start)) /\ UNCHANGED evaluated
     \/ /\ ~ Empty(TrainOf(req, start)) /\ Empty(TestOf(req, start))
        /\ evaluated' = evaluated \cup {Rows(TrainOf(req, start))}
  /\ wstat' = "failed"
  /\ UNCHANGED <<req, start, folds>>

\* The next test window would leave the data: the run is summed up and stored.
EndOfFolds ==
  /\ wstat = "walking" /\ ~ Fits(req, start)
  /\ wstat' = "done"
  /\ UNCHANGED <<req, start, folds, evaluated>>

WNext == WStart \/ EvaluateFold \/ RaiseOnEmpty \/ EndOfFolds

-----------------------------------------------------------------------------
WindowsType == [from : Int, to : Int]

WTypeOK ==
  /\ wstat \in {"idle", "walking", "done", "failed"}
  /\ req \in WalkRequests \cup {NoRequest}
  /\ start \in Int
  /\ folds \subseteq [train : WindowsType, purge : WindowsType, test : WindowsType,
                      embargo : WindowsType]
  /\ evaluated \subseteq [from : 0 .. Total, to : 0 .. Total]

Disjoint(v, w) == v.to <= w.from \/ w.to <= v.from

\* The requests the folds are sound for.  Nothing in the program refuses the
\* others: with train = -1, say, the training slice is the whole data but its
\* last bar, the purge lies "before" bar 0 and the test begins in the training.
Proper(r) == r.train >= 0 /\ r.test >= 0

\* Out of sample: in every fold the bars that are evaluated are the recorded
\* windows, at least one purged bar lies between the last training bar and the
\* first test bar, all of it is in the data, and no bar is tested in two folds
\* (walk_forward.py:102-126, 159).
OutOfSample ==
  \A f \in folds :
    /\ Rows(f.train) = f.train /\ Rows(f.test) = f.test
    /\ f.train.from < f.train.to /\ f.train.to < f.test.from
    /\ f.test.from < f.test.to /\ f.test.to <= Total
    /\ \A g \in folds : f = g \/ Disjoint(f.test, g.test)

\* A finished run has left out no fold: after the last test window there is no
\* room for another step, and what lies between two test windows is less than
\* a step (walk_forward.py:121, 159).
NoFoldLeftOut ==
  wstat = "done" =>
    /\ start + req.train + AtLeastOne(req.purge) + req.test > Total
    /\ \A f \in folds :
         \/ f.test.from + StepOf(req) + req.test > Total
         \/ \E g \in folds : g.test.from = f.test.from + StepOf(req)

\* For a request whose training and test lengths are not negative, the folds are
\* out of sample, and they are all there, whatever its purge, embargo and step.
\* For a negative length nothing of the kind is claimed: see Proper.
FoldsSound == Proper(req) => OutOfSample /\ NoFoldLeftOut

\* A claim the code does not keep (walk_forward.py:158), not even for proper
\* requests: no later fold tests a bar of the embargo of an earlier one.
EmbargoKept ==
  Proper(req) =>
    \A f, g \in folds : f.test.from < g.test.from => Disjoint(f.embargo, g.test)

\* A run comes to an end when its step is not 0 or its test length not negative:
\* the loop then moves, forwards until the test window leaves the data, or
\* backwards until a slice is empty, or a slice is empty at once and raises.
\* The condition is needed.  With train = -1, purge = 1, test = -1, step = 0 the
\* loop evaluates the same two slices for ever, and the endpoint accepts it
\* (walk_forward.py:121, 159; main.py:413-421).
WalkEnds ==
  (wstat = "walking" /\ (req.step # 0 \/ req.test >= 0)) ~> wstat \in {"done", "failed"}
=============================================================================
