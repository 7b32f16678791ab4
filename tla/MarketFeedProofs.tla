-------------------------- MODULE MarketFeedProofs --------------------------
(***************************************************************************)
(* Proofs about MarketFeed, for any number of starts, stops, messages and  *)
(* places in the queue.                                                    *)
(***************************************************************************)
EXTENDS MarketFeed, FiniteSetTheorems, TLAPS

USE FeedAssumption

PutsOf(f) == {t \in Numbers : f[t] = "put"}

(* What holds whatever starts and stops do to each other: the numbers of   *)
(* sessions are handed out once, whoever may write has a file to write to, *)
(* and only a feeder that stands somewhere has a cancellation to get.      *)
BaseInv ==
  /\ AdapterFollowsWorker
  /\ cancelled \subseteq Alive
  /\ \A n \in Numbers : n > starts => feeder[n] = "none" /\ file[n] = None
  /\ session # None => session <= starts
  /\ writer # None => writer <= starts /\ file[writer] # None
  /\ session # None /\ file[session] # None => writer = session
  /\ Alive # {} => writer # None
  /\ Accounted

(* A worker that was not told to stop has no stop under way; one that was  *)
(* has a stop that waits for whatever feeder is left.                      *)
StopsCover ==
  /\ wanted => ~Stopping /\ cancelled = {}
  /\ ~wanted /\ Alive # {} =>
       \E s \in Stops : \/ stopAt[s] = "closing"
                        \/ stopAt[s] = "joining" /\ joined[s] \in Alive
  /\ \A s \in Stops : stopAt[s] = "joining" => Alive \subseteq {joined[s]}

(* The one feeder is the adapter's task and the session's, whose row is    *)
(* still active.                                                           *)
OneFeeder ==
  /\ \A t \in Alive : task = t /\ session = t /\ writer = t /\ row[t].state = "active"
  /\ strays = {}
  /\ \A n \in Numbers : row[n].state = "closed" /\ file[n] # None =>
                          row[n].of = n /\ row[n].records = file[n]
  /\ connector /\ wanted /\ writer = starts => running /\ starts \in Alive

SerialInv == ~crossed => StopsCover /\ OneFeeder

Inv == TypeOK /\ BaseInv /\ SerialInv

-----------------------------------------------------------------------------
(* The number of puts under way is finite, and one feeder changes it by at *)
(* most one.                                                               *)
LEMMA PutsFinite ==
  ASSUME NEW f PROVE IsFiniteSet(PutsOf(f)) /\ Cardinality(PutsOf(f)) \in Nat
<1>1. IsFiniteSet(Numbers)
  BY FS_Interval DEF Numbers
<1>2. PutsOf(f) \in SUBSET Numbers
  BY DEF PutsOf
<1>3. IsFiniteSet(PutsOf(f))
  BY <1>1, <1>2, FS_Subset
<1> QED
  BY <1>3, FS_CardinalityType

OthersStay(f, g, t) == \A u \in Numbers \ {t} : g[u] = "put" <=> f[u] = "put"

LEMMA PutsChange ==
  ASSUME NEW f, NEW g, NEW t \in Numbers, OthersStay(f, g, t)
  PROVE  /\ (g[t] = "put" <=> f[t] = "put") => PutsOf(g) = PutsOf(f)
         /\ g[t] = "put" /\ f[t] # "put" =>
              Cardinality(PutsOf(g)) = Cardinality(PutsOf(f)) + 1
         /\ g[t] # "put" /\ f[t] = "put" =>
              Cardinality(PutsOf(f)) = Cardinality(PutsOf(g)) + 1
<1>1. ASSUME g[t] = "put" <=> f[t] = "put" PROVE PutsOf(g) = PutsOf(f)
  BY <1>1 DEF PutsOf, OthersStay
<1>2. ASSUME g[t] = "put", f[t] # "put"
      PROVE  Cardinality(PutsOf(g)) = Cardinality(PutsOf(f)) + 1
  <2>1. PutsOf(g) = PutsOf(f) \cup {t} /\ t \notin PutsOf(f)
    BY <1>2 DEF PutsOf, OthersStay
  <2> QED
    BY <2>1, PutsFinite, FS_AddElement
<1>3. ASSUME g[t] # "put", f[t] = "put"
      PROVE  Cardinality(PutsOf(f)) = Cardinality(PutsOf(g)) + 1
  <2>1. PutsOf(f) = PutsOf(g) \cup {t} /\ t \notin PutsOf(g)
    BY <1>3 DEF PutsOf, OthersStay
  <2> QED
    BY <2>1, PutsFinite, FS_AddElement
<1> QED
  BY <1>1, <1>2, <1>3

(* The queue's accounts, as a number of puts. *)
LEMMA Accounts ==
  /\ Accounted <=> stats.received = stats.persisted + stats.lost + aborted
                                    + Cardinality(PutsOf(feeder))
  /\ Accounted' <=> stats'.received = stats'.persisted + stats'.lost + aborted'
                                      + Cardinality(PutsOf(feeder'))
BY DEF Accounted, PutsOf

-----------------------------------------------------------------------------
(* Nothing runs at first. *)
LEMMA InitInv == Init => Inv
<1> SUFFICES ASSUME Init PROVE Inv
  OBVIOUS
<1> USE DEF Init
<1>1. TypeOK
  <2>1. 0 \in 0..MaxRecords /\ 0 \in 0..MaxQueue /\ 0 \in 0..MaxStarts
    OBVIOUS
  <2>2. stats \in [received : 0..MaxRecords, persisted : 0..MaxRecords, lost : 0..MaxRecords,
                   queued : 0..MaxQueue]
    BY <2>1
  <2> QED
    BY <2>1, <2>2 DEF TypeOK, FeederStates, NoRow
<1>2. PutsOf(feeder) = {}
  BY DEF PutsOf
<1>3. Accounted
  <2>1. Cardinality(PutsOf(feeder)) = 0
    BY <1>2, FS_EmptySet
  <2>2. stats.received = 0 /\ stats.persisted = 0 /\ stats.lost = 0 /\ aborted = 0
    OBVIOUS
  <2> QED
    BY <2>1, <2>2 DEF Accounted, PutsOf
<1>4. Alive = {}
  BY DEF Alive
<1>5. BaseInv
  BY <1>3, <1>4 DEF BaseInv, AdapterFollowsWorker
<1>6. SerialInv
  BY <1>4 DEF SerialInv, StopsCover, OneFeeder, NoRow
<1> QED
  BY <1>1, <1>5, <1>6 DEF Inv

-----------------------------------------------------------------------------
(* What a feeder does between two messages: it goes from one place of the  *)
(* loop to another, and ends only when the adapter does not run.           *)
Roaming == {"connecting", "open", "leaving", "sleep"}

Moves(t) ==
  /\ feeder[t] \in Roaming /\ t \notin cancelled
  /\ \E to \in Roaming \cup {"done"} :
       /\ feeder' = [feeder EXCEPT ![t] = to]
       /\ running => to # "done"
  /\ ws' \in {ws, t} /\ ended' \subseteq Numbers
  /\ UNCHANGED <<workerVars, running, task, cancelled, stopVars, dataVars, starts, history>>

LEMMA FeederMoves ==
  ASSUME TypeOK, NEW t \in Numbers,
         Connect(t) \/ Refused(t) \/ Breaks(t) \/ Wakes(t) \/ SeesEnd(t) \/ SeesStop(t) \/ Leaves(t)
  PROVE  Moves(t)
<1> DEFINE To(to) == /\ feeder' = [feeder EXCEPT ![t] = to]
                     /\ running => to # "done"
<1>1. \E to \in Roaming \cup {"done"} : To(to)
  <2>1. \/ To("open") \/ To("leaving")
        \/ To(IF running THEN "sleep" ELSE "done")
        \/ To(IF running THEN "connecting" ELSE "done")
    BY DEF Connect, Refused, Breaks, Fails, Wakes, SeesEnd, SeesStop, Leaves, Loop
  <2> QED
    BY <2>1 DEF Roaming
<1>2. /\ feeder[t] \in Roaming /\ t \notin cancelled
      /\ ws' \in {ws, t} /\ ended' \subseteq Numbers
      /\ UNCHANGED <<workerVars, running, task, cancelled, stopVars, dataVars, starts, history>>
  BY DEF Roaming, TypeOK, adapterVars,
         Connect, Refused, Breaks, Fails, Wakes, SeesEnd, SeesStop, Leaves
<1> QED
  BY <1>1, <1>2 DEF Moves

LEMMA MovesKeep ==
  ASSUME Inv, NEW t \in Numbers, Moves(t) PROVE Inv'
<1> USE DEF Inv
<1>0. PICK to \in Roaming \cup {"done"} :
        /\ feeder' = [feeder EXCEPT ![t] = to]
        /\ running => to # "done"
  BY DEF Moves
<1>1. /\ feeder[t] \in Roaming /\ t \notin cancelled /\ t \in Alive
      /\ UNCHANGED <<connector, wanted, session, writer, running, task, cancelled, stopAt, joined,
                     file, row, stats, starts, aborted, crossed, strays>>
      /\ feeder \in [Numbers -> FeederStates]
  BY DEF Moves, Roaming, Alive, TypeOK, workerVars, stopVars, dataVars, history
<1>2. TypeOK'
  BY <1>0, <1>1 DEF Moves, TypeOK, FeederStates, Roaming
<1>3. Alive' = IF to = "done" THEN Alive \ {t} ELSE Alive
  BY <1>0, <1>1 DEF Alive, FeederStates, Roaming
<1>4. Accounted'
  <2>1. PutsOf(feeder') = PutsOf(feeder)
    BY <1>0, <1>1 DEF PutsOf, Roaming
  <2> QED
    BY <1>1, <2>1, Accounts DEF BaseInv
<1>5. BaseInv'
  <2>1. \A n \in Numbers : n > starts => feeder'[n] = "none"
    BY <1>0, <1>1 DEF BaseInv, Roaming
  <2> QED
    BY <1>1, <1>3, <1>4, <2>1 DEF BaseInv, AdapterFollowsWorker
<1>6. SerialInv'
  <2> SUFFICES ASSUME ~crossed PROVE StopsCover' /\ OneFeeder'
    BY <1>1 DEF SerialInv
  <2>1. StopsCover /\ OneFeeder
    BY DEF SerialInv
  <2>2. Alive \subseteq {t}
    BY <1>1, <2>1 DEF OneFeeder
  <2>3. StopsCover'
    BY <1>1, <1>3, <2>1, <2>2 DEF StopsCover, Stopping
  <2>4. OneFeeder'
    BY <1>0, <1>1, <1>3, <2>1 DEF OneFeeder
  <2> QED
    BY <2>3, <2>4
<1> QED
  BY <1>2, <1>5, <1>6

-----------------------------------------------------------------------------
(* A message goes to the file of the writer, which is the feeder's own     *)
(* unless a start crossed a stop; its trade is counted once.               *)
LEMMA AppendKeeps ==
  ASSUME Inv, NEW t \in Numbers, Append(t),
         UNCHANGED <<workerVars, adapterVars, cancelled, ended, stopVars, row, starts, aborted,
         crossed>>,
         Alive' = Alive, TypeOK', Accounted',
         \A n \in Numbers : n > starts => feeder'[n] = feeder[n]
  PROVE  Inv'
<1> USE DEF Inv, workerVars, adapterVars, stopVars
<1>1. /\ t \in Alive /\ writer \in Numbers /\ writer <= starts
      /\ file' = [file EXCEPT ![writer] = @ + 1]
      /\ file \in [Numbers -> 0..MaxRecords \cup {None}] /\ file[writer] \in 0..MaxRecords
      /\ starts \in Nat /\ MaxStarts \in Nat
  BY DEF Append, Alive, BaseInv, TypeOK
<1>2. file'[writer] # None /\ \A n \in Numbers \ {writer} : file'[n] = file[n]
  BY <1>1
<1>3. BaseInv'
  BY <1>1, <1>2 DEF BaseInv, AdapterFollowsWorker, TypeOK
<1>4. SerialInv'
  <2> SUFFICES ASSUME ~crossed PROVE StopsCover' /\ OneFeeder'
    BY DEF SerialInv
  <2>1. StopsCover /\ OneFeeder
    BY DEF SerialInv
  <2>2. StopsCover'
    BY <2>1 DEF StopsCover, Stopping
  <2>3. writer = t /\ strays' = {} /\ row[t].state = "active"
    BY <1>1, <2>1 DEF OneFeeder, Append
  <2>4. OneFeeder'
    BY <1>1, <1>2, <2>1, <2>3 DEF OneFeeder
  <2> QED
    BY <2>2, <2>4
<1> QED
  BY <1>3, <1>4

LEMMA QuoteKeeps == ASSUME Inv, NEW t \in Numbers, Quote(t) PROVE Inv'
<1> USE DEF Inv, Quote
<1>1. /\ file' = [file EXCEPT ![writer] = @ + 1] /\ file[writer] < MaxRecords
      /\ strays' \in {strays, strays \cup {t}} /\ t \in Alive
      /\ UNCHANGED <<connector, wanted, session, writer, running, ws, task, feeder, cancelled,
                     ended, stopAt, joined, row, stats, starts, aborted, crossed>>
  BY DEF Append, Alive, workerVars, adapterVars, feedVars, stopVars
<1>2. writer \in Numbers /\ file[writer] \in 0..MaxRecords
  BY <1>1 DEF BaseInv, TypeOK
<1>3. TypeOK'
  BY <1>1, <1>2 DEF TypeOK
<1>4. Alive' = Alive
  BY <1>1 DEF Alive
<1>5. Accounted'
  BY <1>1, Accounts DEF BaseInv
<1> QED
  BY <1>1, <1>3, <1>4, <1>5, AppendKeeps DEF feedVars

LEMMA TradeKeeps == ASSUME Inv, NEW t \in Numbers, Trade(t) PROVE Inv'
<1> USE DEF Inv, Trade
<1>1. /\ file' = [file EXCEPT ![writer] = @ + 1] /\ file[writer] < MaxRecords
      /\ strays' \in {strays, strays \cup {t}} /\ t \in Alive
      /\ feeder[t] = "open" /\ feeder' = [feeder EXCEPT ![t] = "put"]
      /\ stats.received < MaxRecords /\ stats' = [stats EXCEPT !.received = @ + 1]
      /\ UNCHANGED <<connector, wanted, session, writer, running, ws, task, cancelled, ended, stopAt,
                     joined, row, starts, aborted, crossed>>
  BY DEF Append, Alive, workerVars, adapterVars, stopVars
<1>2. /\ writer \in Numbers /\ file[writer] \in 0..MaxRecords
      /\ feeder \in [Numbers -> FeederStates]
  BY <1>1 DEF BaseInv, TypeOK
<1>3. TypeOK'
  BY <1>1, <1>2 DEF TypeOK, FeederStates
<1>4. Alive' = Alive
  BY <1>1, <1>2 DEF Alive
<1>5. Accounted'
  <2>1. Cardinality(PutsOf(feeder')) = Cardinality(PutsOf(feeder)) + 1
    <3>1. feeder'[t] = "put" /\ \A u \in Numbers \ {t} : feeder'[u] = feeder[u]
      BY <1>1, <1>2
    <3>2. OthersStay(feeder, feeder', t)
      BY <3>1 DEF OthersStay
    <3> QED
      BY <1>1, <3>1, <3>2, PutsChange
  <2>2. /\ stats'.received = stats.received + 1 /\ stats'.persisted = stats.persisted
        /\ stats'.lost = stats.lost
        /\ stats.received \in Nat /\ stats.persisted \in Nat /\ stats.lost \in Nat /\ aborted \in Nat
    BY <1>1 DEF TypeOK
  <2>3. /\ Cardinality(PutsOf(feeder)) \in Nat
        /\ stats.received = stats.persisted + stats.lost + aborted + Cardinality(PutsOf(feeder))
    BY PutsFinite, Accounts DEF BaseInv
  <2>4. stats'.received = stats'.persisted + stats'.lost + aborted' + Cardinality(PutsOf(feeder'))
    BY <1>1, <2>1, <2>2, <2>3
  <2> QED
    BY <2>4, Accounts
<1>6. \A n \in Numbers : n > starts => feeder'[n] = feeder[n]
  BY <1>1, <1>2 DEF BaseInv
<1> QED
  BY <1>1, <1>3, <1>4, <1>5, <1>6, AppendKeeps

-----------------------------------------------------------------------------
(* The end of a put: its message is persisted or lost, or the put ends in  *)
(* a cancellation, delivered or swallowed.                                 *)
LEMMA PutRoom ==
  ASSUME TypeOK, Accounted, NEW t \in Numbers, feeder[t] = "put",
         NEW to \in FeederStates \ {"put"}, feeder' = [feeder EXCEPT ![t] = to]
  PROVE  /\ Cardinality(PutsOf(feeder')) \in Nat
         /\ stats.received = stats.persisted + stats.lost + aborted
                             + Cardinality(PutsOf(feeder')) + 1
         /\ stats.persisted + 1 \in 0..MaxRecords /\ stats.lost + 1 \in 0..MaxRecords
         /\ aborted + 1 \in 0..MaxRecords
<1>1. Cardinality(PutsOf(feeder')) \in Nat /\ Cardinality(PutsOf(feeder)) \in Nat
  BY PutsFinite
<1>2. feeder'[t] = to /\ \A u \in Numbers \ {t} : feeder'[u] = feeder[u]
  BY DEF TypeOK
<1>3. Cardinality(PutsOf(feeder)) = Cardinality(PutsOf(feeder')) + 1
  <2>1. OthersStay(feeder, feeder', t)
    BY <1>2 DEF OthersStay
  <2> QED
    BY <1>2, <2>1, PutsChange
<1>4. /\ stats.received \in 0..MaxRecords /\ stats.persisted \in 0..MaxRecords
      /\ stats.lost \in 0..MaxRecords /\ aborted \in 0..MaxRecords
  BY DEF TypeOK
<1>5. stats.received = stats.persisted + stats.lost + aborted + Cardinality(PutsOf(feeder))
  BY Accounts
<1> QED
  BY <1>1, <1>3, <1>4, <1>5

LEMMA PutKeeps == ASSUME Inv, NEW t \in Numbers, Put(t) \/ Swallowed(t) PROVE Inv'
<1> USE DEF Inv
<1>1. /\ feeder[t] = "put" /\ feeder' = [feeder EXCEPT ![t] = "open"]
      /\ cancelled' \in {cancelled, cancelled \ {t}}
      /\ UNCHANGED <<connector, wanted, session, writer, running, ws, task, ended, stopAt, joined,
                     file, row, starts, aborted, crossed, strays>>
      /\ feeder \in [Numbers -> FeederStates]
  BY DEF Put, Swallowed, TypeOK, workerVars, adapterVars, stopVars, history
<1>2. \/ stats.queued < MaxQueue /\ stats' = [stats EXCEPT !.queued = @ + 1, !.persisted = @ + 1]
      \/ stats' = [stats EXCEPT !.lost = @ + 1]
  BY DEF Put, Swallowed
<1>3. "open" \in FeederStates \ {"put"}
  BY DEF FeederStates
<1>4. /\ Cardinality(PutsOf(feeder')) \in Nat
      /\ stats.received = stats.persisted + stats.lost + aborted
                          + Cardinality(PutsOf(feeder')) + 1
      /\ stats.persisted + 1 \in 0..MaxRecords /\ stats.lost + 1 \in 0..MaxRecords
  BY <1>1, <1>3, PutRoom DEF BaseInv
<1>5. stats \in [received : 0..MaxRecords, persisted : 0..MaxRecords, lost : 0..MaxRecords,
                queued : 0..MaxQueue]
  BY DEF TypeOK
<1>6. /\ stats' \in [received : 0..MaxRecords, persisted : 0..MaxRecords, lost : 0..MaxRecords,
                    queued : 0..MaxQueue]
      /\ stats'.received = stats.received
      /\ stats'.persisted + stats'.lost = stats.persisted + stats.lost + 1
  <2>1. CASE stats.queued < MaxQueue /\ stats' = [stats EXCEPT !.queued = @ + 1, !.persisted = @ + 1]
    <3>1. stats.queued + 1 \in 0..MaxQueue
      BY <1>5, <2>1
    <3>2. /\ stats'.queued = stats.queued + 1 /\ stats'.persisted = stats.persisted + 1
          /\ stats'.received = stats.received /\ stats'.lost = stats.lost
      BY <1>5, <2>1
    <3>3. stats' = [received |-> stats.received, persisted |-> stats.persisted + 1,
                    lost |-> stats.lost, queued |-> stats.queued + 1]
      BY <1>5, <2>1
    <3>4. stats.persisted \in Nat /\ stats.lost \in Nat
      BY <1>5
    <3> QED
      BY <1>4, <1>5, <3>1, <3>2, <3>3, <3>4
  <2>2. CASE stats' = [stats EXCEPT !.lost = @ + 1]
    <3>1. /\ stats'.lost = stats.lost + 1 /\ stats'.persisted = stats.persisted
          /\ stats'.received = stats.received
      BY <1>5, <2>2
    <3> QED
      BY <1>4, <1>5, <2>2, <3>1
  <2> QED
    BY <1>2, <2>1, <2>2
<1>7. TypeOK'
  BY <1>1, <1>6 DEF TypeOK, FeederStates
<1>8. Alive' = Alive
  BY <1>1 DEF Alive
<1>9. Accounted'
  <2>1. /\ stats.persisted \in Nat /\ stats.lost \in Nat /\ aborted \in Nat
        /\ stats'.persisted \in Nat /\ stats'.lost \in Nat
    BY <1>5, <1>6 DEF TypeOK
  <2> QED
    BY <1>1, <1>4, <1>6, <2>1, Accounts
<1>10. BaseInv'
  <2>1. \A n \in Numbers : n > starts => feeder'[n] = "none"
    BY <1>1 DEF BaseInv
  <2> QED
    BY <1>1, <1>8, <1>9, <2>1 DEF BaseInv, AdapterFollowsWorker
<1>11. SerialInv'
  BY <1>1, <1>8 DEF SerialInv, StopsCover, Stopping, OneFeeder
<1> QED
  BY <1>7, <1>10, <1>11

LEMMA CancelledKeeps == ASSUME Inv, NEW t \in Numbers, Cancelled(t) PROVE Inv'
<1> USE DEF Inv
<1>1. /\ t \in cancelled /\ t \in Alive
      /\ feeder' = [feeder EXCEPT ![t] = "done"] /\ cancelled' = cancelled \ {t}
      /\ UNCHANGED <<connector, wanted, session, writer, running, ws, task, ended, stopAt, joined,
                     file, row, starts, crossed, strays>>
      /\ feeder \in [Numbers -> FeederStates]
  BY DEF Cancelled, TypeOK, workerVars, adapterVars, stopVars
<1>2. Alive' = Alive \ {t}
  BY <1>1 DEF Alive, FeederStates
<1>3. "done" \in FeederStates \ {"put"}
  BY DEF FeederStates
<1>4. TypeOK' /\ Accounted'
  <2>1. CASE feeder[t] = "put"
    <3>1. /\ aborted' = aborted + 1
          /\ \/ stats' = stats
             \/ stats.queued < MaxQueue /\ stats' = [stats EXCEPT !.queued = @ + 1]
      BY <2>1 DEF Cancelled
    <3>2. /\ Cardinality(PutsOf(feeder')) \in Nat
          /\ stats.received = stats.persisted + stats.lost + aborted
                              + Cardinality(PutsOf(feeder')) + 1
          /\ aborted + 1 \in 0..MaxRecords
      BY <1>1, <1>3, <2>1, PutRoom DEF BaseInv
    <3>3. TypeOK'
      BY <1>1, <3>1, <3>2 DEF TypeOK, FeederStates
    <3>4. /\ stats'.received = stats.received /\ stats'.persisted = stats.persisted
          /\ stats'.lost = stats.lost
          /\ stats.persisted \in Nat /\ stats.lost \in Nat /\ aborted \in Nat
      BY <3>1 DEF TypeOK
    <3>5. Accounted'
      BY <3>1, <3>2, <3>4, Accounts
    <3> QED
      BY <3>3, <3>5
  <2>2. CASE feeder[t] # "put"
    <3>1. UNCHANGED <<aborted, stats>>
      BY <2>2 DEF Cancelled
    <3>2. TypeOK'
      BY <1>1, <3>1 DEF TypeOK, FeederStates
    <3>3. PutsOf(feeder') = PutsOf(feeder)
      BY <1>1, <2>2 DEF PutsOf
    <3>4. Accounted'
      BY <3>1, <3>3, Accounts DEF BaseInv
    <3> QED
      BY <3>2, <3>4
  <2> QED
    BY <2>1, <2>2
<1>5. BaseInv'
  <2>1. \A n \in Numbers : n > starts => feeder'[n] = "none"
    BY <1>1 DEF BaseInv, Alive
  <2> QED
    BY <1>1, <1>2, <1>4, <2>1 DEF BaseInv, AdapterFollowsWorker
<1>6. SerialInv'
  <2> SUFFICES ASSUME ~crossed PROVE StopsCover' /\ OneFeeder'
    BY <1>1 DEF SerialInv
  <2>1. StopsCover /\ OneFeeder
    BY DEF SerialInv
  <2>2. Alive \subseteq {t} /\ ~wanted
    BY <1>1, <2>1 DEF OneFeeder, StopsCover
  <2>3. StopsCover'
    BY <1>1, <1>2, <2>1, <2>2 DEF StopsCover
  <2>4. OneFeeder'
    BY <1>1, <1>2, <2>1, <2>2 DEF OneFeeder
  <2> QED
    BY <2>3, <2>4
<1> QED
  BY <1>4, <1>5, <1>6

-----------------------------------------------------------------------------
(* A start that crosses no stop finds no feeder: the last stop, if there   *)
(* was one, has waited for it.                                             *)
LEMMA StartAlone ==
  ASSUME Inv, NEW n, Begin(n), ~crossed' PROVE Alive = {} /\ cancelled = {} /\ ~Stopping /\ ~crossed
<1>1. ~wanted /\ ~Stopping /\ ~crossed
  BY DEF Begin
<1>2. StopsCover
  BY <1>1 DEF Inv, SerialInv
<1>3. Alive = {}
  BY <1>1, <1>2 DEF StopsCover, Stopping
<1> QED
  BY <1>1, <1>3 DEF Inv, BaseInv

LEMMA StartKeeps == ASSUME Inv, Start PROVE Inv'
<1> USE DEF Inv
<1>1. PICK n \in Numbers :
        /\ Begin(n) /\ n = starts + 1 /\ starts' = n /\ wanted' = TRUE
        /\ session' = n /\ writer' = n
        /\ row' = [row EXCEPT ![n] = OpenRow] /\ file' = [file EXCEPT ![n] = 0]
        /\ running' = TRUE /\ task' = n
        /\ feeder' = [feeder EXCEPT ![n] = "connecting"]
        /\ crossed' \in BOOLEAN
        /\ UNCHANGED <<connector, ws, cancelled, ended, stopAt, joined, stats, aborted, strays>>
  BY DEF Start, Begin, stopVars, TypeOK
<1>2. /\ n \in Nat /\ n \in 1..MaxStarts /\ starts \in Nat
      /\ feeder \in [Numbers -> FeederStates] /\ feeder[n] = "none" /\ file[n] = None
      /\ \A m \in Numbers : m > n => m > starts
  BY <1>1 DEF TypeOK, BaseInv, Numbers
<1>3. TypeOK'
  <2>1. n \in 0..MaxStarts /\ 0 \in 0..MaxRecords
    BY <1>2
  <2>2. row' \in [Numbers -> [state : {"none", "active", "closed"}, of : Numbers \cup {None},
                              records : 0..MaxRecords]]
    BY <1>1, <2>1 DEF TypeOK, OpenRow
  <2> QED
    BY <1>1, <1>2, <2>1, <2>2 DEF TypeOK, FeederStates
<1>4. Alive' = Alive \cup {n}
  BY <1>1, <1>2 DEF Alive
<1>5. Accounted'
  <2>1. PutsOf(feeder') = PutsOf(feeder)
    BY <1>1, <1>2 DEF PutsOf
  <2> QED
    BY <1>1, <2>1, Accounts DEF BaseInv
<1>6. BaseInv'
  <2>1. \A m \in Numbers : m > n => feeder'[m] = "none" /\ file'[m] = None
    BY <1>1, <1>2 DEF BaseInv, TypeOK
  <2>2. file'[n] # None
    BY <1>1 DEF TypeOK
  <2>3. cancelled \subseteq Alive
    BY DEF BaseInv
  <2> QED
    BY <1>1, <1>2, <1>4, <1>5, <2>1, <2>2, <2>3 DEF BaseInv, AdapterFollowsWorker
<1>7. SerialInv'
  <2> SUFFICES ASSUME ~crossed' PROVE StopsCover' /\ OneFeeder'
    BY DEF SerialInv
  <2>1. Alive = {} /\ cancelled = {} /\ ~Stopping /\ ~crossed
    BY <1>1, StartAlone
  <2>2. StopsCover'
    BY <1>1, <2>1 DEF StopsCover, Stopping
  <2>3. /\ row'[n].state = "active"
        /\ \A m \in Numbers \ {n} : row'[m] = row[m] /\ file'[m] = file[m]
    BY <1>1 DEF TypeOK, OpenRow
  <2>4. OneFeeder
    BY <2>1 DEF SerialInv
  <2>5. OneFeeder'
    BY <1>1, <1>4, <2>1, <2>3, <2>4 DEF OneFeeder
  <2> QED
    BY <2>2, <2>5
<1> QED
  BY <1>3, <1>6, <1>7

(* A start without a connector, which leaves the adapter as it was. *)
LEMMA StartUnfedKeeps == ASSUME Inv, StartUnfed PROVE Inv'
<1> USE DEF Inv
<1>1. PICK n \in Numbers :
        /\ Begin(n) /\ n = starts + 1 /\ starts' = n /\ wanted' = TRUE
        /\ session' = n /\ writer' = n /\ ~connector
        /\ row' = [row EXCEPT ![n] = OpenRow] /\ file' = [file EXCEPT ![n] = 0]
        /\ crossed' \in BOOLEAN
        /\ UNCHANGED <<connector, running, ws, task, feeder, cancelled, ended, stopAt, joined,
                       stats, aborted, strays>>
  BY DEF StartUnfed, Begin, adapterVars, feedVars, stopVars, TypeOK
<1>2. /\ n \in Nat /\ n \in 0..MaxStarts /\ starts \in Nat /\ file[n] = None
      /\ \A m \in Numbers : m > n => m > starts
  BY <1>1 DEF TypeOK, BaseInv, Numbers
<1>3. TypeOK'
  <2>1. 0 \in 0..MaxRecords
    BY <1>2
  <2>2. row' \in [Numbers -> [state : {"none", "active", "closed"}, of : Numbers \cup {None},
                              records : 0..MaxRecords]]
    BY <1>1, <2>1 DEF TypeOK, OpenRow
  <2> QED
    BY <1>1, <1>2, <2>1, <2>2 DEF TypeOK
<1>4. Alive' = Alive
  BY <1>1 DEF Alive
<1>5. Accounted'
  BY <1>1, Accounts DEF BaseInv
<1>6. BaseInv'
  <2>1. \A m \in Numbers : m > n => feeder'[m] = "none" /\ file'[m] = None
    BY <1>1, <1>2 DEF BaseInv, TypeOK
  <2>2. file'[n] # None
    BY <1>1 DEF TypeOK
  <2> QED
    BY <1>1, <1>2, <1>4, <1>5, <2>1, <2>2 DEF BaseInv, AdapterFollowsWorker
<1>7. SerialInv'
  <2> SUFFICES ASSUME ~crossed' PROVE StopsCover' /\ OneFeeder'
    BY DEF SerialInv
  <2>1. Alive = {} /\ cancelled = {} /\ ~Stopping /\ ~crossed
    BY <1>1, StartAlone
  <2>2. StopsCover'
    BY <1>1, <1>4, <2>1 DEF StopsCover, Stopping
  <2>3. /\ row'[n].state = "active"
        /\ \A m \in Numbers \ {n} : row'[m] = row[m] /\ file'[m] = file[m]
    BY <1>1 DEF TypeOK, OpenRow
  <2>4. OneFeeder
    BY <2>1 DEF SerialInv
  <2>5. OneFeeder'
    BY <1>1, <1>4, <2>1, <2>3, <2>4 DEF OneFeeder
  <2> QED
    BY <2>2, <2>5
<1> QED
  BY <1>3, <1>6, <1>7

LEMMA StartFailsKeeps == ASSUME Inv, StartFails PROVE Inv'
<1> USE DEF Inv
<1>1. PICK n \in Numbers :
        /\ Begin(n) /\ n = starts + 1 /\ starts' = n /\ wanted' = TRUE
        /\ \/ UNCHANGED <<session, row>>
           \/ session' = n /\ row' = [row EXCEPT ![n] = OpenRow]
        /\ crossed' \in BOOLEAN
        /\ UNCHANGED <<connector, writer, running, ws, task, feeder, cancelled, ended, stopAt,
                       joined, file, stats, aborted, strays>>
  BY DEF StartFails, Begin, adapterVars, feedVars, stopVars, TypeOK
<1>2. /\ n \in Nat /\ n \in 0..MaxStarts /\ starts \in Nat /\ file[n] = None
      /\ \A m \in Numbers : m > n => m > starts
      /\ \A m \in Numbers : m <= starts => m <= n
      /\ session \in Numbers \cup {None} /\ writer \in Numbers \cup {None}
  BY <1>1 DEF TypeOK, BaseInv, Numbers
<1>3. TypeOK'
  <2>1. row' \in [Numbers -> [state : {"none", "active", "closed"}, of : Numbers \cup {None},
                              records : 0..MaxRecords]]
    <3>1. OpenRow \in [state : {"none", "active", "closed"}, of : Numbers \cup {None},
                       records : 0..MaxRecords]
      BY DEF OpenRow
    <3> QED
      BY <1>1, <3>1 DEF TypeOK
  <2> QED
    BY <1>1, <1>2, <2>1 DEF TypeOK
<1>4. Alive' = Alive
  BY <1>1 DEF Alive
<1>5. Accounted'
  BY <1>1, Accounts DEF BaseInv
<1>6. BaseInv'
  BY <1>1, <1>2, <1>4, <1>5 DEF BaseInv, AdapterFollowsWorker
<1>7. SerialInv'
  <2> SUFFICES ASSUME ~crossed' PROVE StopsCover' /\ OneFeeder'
    BY DEF SerialInv
  <2>1. Alive = {} /\ cancelled = {} /\ ~Stopping /\ ~crossed
    BY <1>1, StartAlone
  <2>2. StopsCover'
    BY <1>1, <1>4, <2>1 DEF StopsCover, Stopping
  <2>3. \A m \in Numbers \ {n} : row'[m] = row[m]
    BY <1>1 DEF TypeOK
  <2>4. writer # starts'
    BY <1>1, <1>2 DEF BaseInv, Numbers
  <2>5. OneFeeder
    BY <2>1 DEF SerialInv
  <2>6. OneFeeder'
    BY <1>1, <1>2, <1>4, <2>1, <2>3, <2>4, <2>5 DEF OneFeeder
  <2> QED
    BY <2>2, <2>6
<1> QED
  BY <1>3, <1>6, <1>7

-----------------------------------------------------------------------------
(* A stop clears both flags or goes on with what it found cleared; what    *)
(* else it leaves alone.                                                   *)
StopFrame(s) ==
  /\ \/ wanted' = FALSE /\ running' = FALSE
     \/ stopAt[s] \in {"closing", "joining"} /\ UNCHANGED <<wanted, running>>
  /\ ws' \in {ws, None}
  /\ UNCHANGED <<connector, session, writer, feeder, starts, file, stats, aborted, crossed, strays>>

LEMMA StopFlags ==
  ASSUME Inv, NEW s \in Stops, StopFrame(s)
  PROVE  wanted' \in BOOLEAN /\ running' \in BOOLEAN /\ (running' => wanted')
<1>1. wanted \in BOOLEAN /\ running \in BOOLEAN /\ (running => wanted)
  BY DEF Inv, TypeOK, BaseInv, AdapterFollowsWorker
<1>2. \/ wanted' = FALSE /\ running' = FALSE
      \/ wanted' = wanted /\ running' = running
  BY DEF StopFrame
<1>3. CASE wanted' = FALSE /\ running' = FALSE
  BY <1>3
<1>4. CASE wanted' = wanted /\ running' = running
  <2>1. wanted' \in BOOLEAN /\ running' \in BOOLEAN
    BY <1>1, <1>4, Zenon
  <2>2. running' => wanted'
    BY <1>1, <1>4
  <2> QED
    BY <2>1, <2>2
<1> QED
  BY <1>2, <1>3, <1>4

LEMMA StopIsSerial ==
  ASSUME Inv, ~crossed, NEW s \in Stops, StopFrame(s)
  PROVE  wanted' = FALSE /\ StopsCover /\ OneFeeder
<1>1. StopsCover /\ OneFeeder
  BY DEF Inv, SerialInv
<1>2. CASE stopAt[s] \in {"closing", "joining"} /\ UNCHANGED <<wanted, running>>
  <2>1. Stopping
    BY <1>2 DEF Stopping
  <2> QED
    BY <1>1, <1>2, <2>1 DEF StopsCover, Inv, TypeOK
<1> QED
  BY <1>1, <1>2 DEF StopFrame

(* The end of a stop: no feeder is left, so the session that is closed is  *)
(* closed with the last record of its own file.                            *)
LEMMA FinishKeeps ==
  ASSUME Inv, NEW s \in Stops, StopFrame(s), Finish(s), UNCHANGED ended, ~crossed => Alive = {}
  PROVE  Inv'
<1> USE DEF Inv
<1>1. /\ task' = None /\ CloseSession
      /\ stopAt' = [stopAt EXCEPT ![s] = "done"]
      /\ UNCHANGED <<joined, cancelled, ended>>
  BY DEF Finish
<1>2. /\ wanted' \in BOOLEAN /\ running' \in BOOLEAN /\ (running' => wanted')
      /\ ws' \in {ws, None}
      /\ UNCHANGED <<connector, session, writer, feeder, starts, file, stats, aborted, crossed, strays>>
  BY StopFlags DEF StopFrame
<1>3. \/ row' = row
      \/ /\ session \in Numbers /\ writer \in Numbers /\ file[writer] \in 0..MaxRecords
         /\ row' = [row EXCEPT ![session] = ClosedRow(writer, file[writer])]
  BY <1>1 DEF CloseSession, TypeOK, BaseInv
<1>4. TypeOK'
  <2>1. row' \in [Numbers -> [state : {"none", "active", "closed"}, of : Numbers \cup {None},
                              records : 0..MaxRecords]]
    BY <1>3 DEF TypeOK, ClosedRow
  <2> QED
    BY <1>1, <1>2, <2>1 DEF TypeOK
<1>5. Alive' = Alive
  BY <1>2 DEF Alive
<1>6. Accounted'
  BY <1>2, Accounts DEF BaseInv
<1>7. BaseInv'
  BY <1>1, <1>2, <1>5, <1>6 DEF BaseInv, AdapterFollowsWorker
<1>8. SerialInv'
  <2> SUFFICES ASSUME ~crossed PROVE StopsCover' /\ OneFeeder'
    BY <1>2 DEF SerialInv
  <2>1. wanted' = FALSE /\ StopsCover /\ OneFeeder /\ Alive = {}
    BY StopIsSerial
  <2>2. StopsCover'
    BY <1>5, <2>1 DEF StopsCover
  <2>3. \A n \in Numbers : row'[n].state = "closed" /\ file[n] # None =>
                             row'[n].of = n /\ row'[n].records = file[n]
    <3>1. CASE row' = row
      BY <2>1, <3>1 DEF OneFeeder
    <3>2. CASE /\ session \in Numbers /\ writer \in Numbers /\ file[writer] \in 0..MaxRecords
               /\ row' = [row EXCEPT ![session] = ClosedRow(writer, file[writer])]
      <4>1. /\ row'[session].of = writer /\ row'[session].records = file[writer]
            /\ \A n \in Numbers \ {session} : row'[n] = row[n]
        BY <3>2 DEF TypeOK, ClosedRow
      <4>2. file[session] # None => writer = session
        BY <3>2 DEF BaseInv, Numbers
      <4> QED
        BY <2>1, <4>1, <4>2 DEF OneFeeder
    <3> QED
      BY <1>3, <3>1, <3>2
  <2>4. OneFeeder'
    BY <1>2, <1>5, <2>1, <2>3 DEF OneFeeder
  <2> QED
    BY <2>2, <2>4
<1> QED
  BY <1>4, <1>7, <1>8

(* A stop that finds the adapter's task alive cancels it and waits for it; *)
(* one that finds it ended or gone is at its end.                          *)
LEMMA JoinKeeps ==
  ASSUME Inv, NEW s \in Stops, StopFrame(s), Join(s), UNCHANGED ended
  PROVE  Inv'
<1> USE DEF Inv
<1>1. CASE task \notin Alive
  <2>1. ~crossed => Alive = {}
    BY <1>1 DEF SerialInv, OneFeeder
  <2>2. Finish(s)
    BY <1>1 DEF Join
  <2> QED
    BY <2>1, <2>2, FinishKeeps
<1>2. CASE task \in Alive
  <2>1. /\ cancelled' = cancelled \cup {task} /\ joined' = [joined EXCEPT ![s] = task]
        /\ stopAt' = [stopAt EXCEPT ![s] = "joining"]
        /\ UNCHANGED <<task, row, ended>>
    BY <1>2 DEF Join
  <2>2. /\ wanted' \in BOOLEAN /\ running' \in BOOLEAN /\ (running' => wanted')
        /\ ws' \in {ws, None}
        /\ UNCHANGED <<connector, session, writer, feeder, starts, file, stats, aborted, crossed,
                       strays>>
    BY StopFlags DEF StopFrame
  <2>3. task \in Numbers
    BY <1>2 DEF Alive
  <2>4. TypeOK'
    BY <2>1, <2>2, <2>3 DEF TypeOK
  <2>5. Alive' = Alive
    BY <2>2 DEF Alive
  <2>6. Accounted'
    BY <2>2, Accounts DEF BaseInv
  <2>7. BaseInv'
    BY <1>2, <2>1, <2>2, <2>5, <2>6 DEF BaseInv, AdapterFollowsWorker
  <2>8. SerialInv'
    <3> SUFFICES ASSUME ~crossed PROVE StopsCover' /\ OneFeeder'
      BY <2>2 DEF SerialInv
    <3>1. wanted' = FALSE /\ StopsCover /\ OneFeeder
      BY StopIsSerial
    <3>2. /\ stopAt'[s] = "joining" /\ joined'[s] = task
          /\ \A r \in Stops \ {s} : stopAt'[r] = stopAt[r] /\ joined'[r] = joined[r]
      BY <2>1 DEF TypeOK
    <3>3. Alive \subseteq {task}
      BY <3>1 DEF OneFeeder
    <3>4. StopsCover'
      BY <1>2, <2>5, <3>1, <3>2, <3>3 DEF StopsCover
    <3>5. OneFeeder'
      BY <2>1, <2>2, <2>5, <3>1 DEF OneFeeder
    <3> QED
      BY <3>4, <3>5
  <2> QED
    BY <2>4, <2>7, <2>8
<1> QED
  BY <1>1, <1>2

(* A stop, up to its first await or to its end. *)
LEMMA StopKeeps == ASSUME Inv, NEW s \in Stops, Stop(s) PROVE Inv'
<1> USE DEF Inv
<1>1. StopFrame(s) /\ ws' = ws
  BY DEF Stop, StopFrame, history
<1>2. CASE ws = None /\ Join(s) /\ UNCHANGED ended
  BY <1>1, <1>2, JoinKeeps
<1>3. CASE /\ ws # None
           /\ ended' = ended \cup {ws}
           /\ stopAt' = [stopAt EXCEPT ![s] = "closing"]
           /\ UNCHANGED <<task, joined, cancelled, row>>
  <2>1. /\ wanted' = FALSE /\ running' = FALSE
        /\ UNCHANGED <<connector, session, writer, ws, feeder, starts, file, stats, aborted,
                       crossed, strays>>
    BY DEF Stop, history
  <2>2. TypeOK'
    BY <1>3, <2>1 DEF TypeOK
  <2>3. Alive' = Alive
    BY <2>1 DEF Alive
  <2>4. Accounted'
    BY <2>1, Accounts DEF BaseInv
  <2>5. BaseInv'
    BY <1>3, <2>1, <2>3, <2>4 DEF BaseInv, AdapterFollowsWorker
  <2>6. SerialInv'
    <3> SUFFICES ASSUME ~crossed PROVE StopsCover' /\ OneFeeder'
      BY <2>1 DEF SerialInv
    <3>1. StopsCover /\ OneFeeder
      BY DEF SerialInv
    <3>2. stopAt'[s] = "closing" /\ \A r \in Stops \ {s} : stopAt'[r] = stopAt[r]
      BY <1>3 DEF TypeOK
    <3>3. StopsCover'
      BY <1>3, <2>1, <2>3, <3>1, <3>2 DEF StopsCover
    <3>4. OneFeeder'
      BY <1>3, <2>1, <2>3, <3>1 DEF OneFeeder
    <3> QED
      BY <3>3, <3>4
  <2> QED
    BY <2>2, <2>5, <2>6
<1> QED
  BY <1>2, <1>3 DEF Stop

LEMMA StopGoesOn == ASSUME Inv, NEW s \in Stops, StopCloses(s) \/ StopJoins(s) PROVE Inv'
<1> USE DEF Inv
<1>1. StopFrame(s) /\ UNCHANGED ended
  BY DEF StopCloses, StopJoins, StopFrame, workerVars, history
<1>2. CASE StopCloses(s)
  BY <1>1, <1>2, JoinKeeps DEF StopCloses
<1>3. CASE StopJoins(s)
  <2>1. stopAt[s] = "joining" /\ feeder[joined[s]] = "done" /\ Finish(s)
    BY <1>3 DEF StopJoins
  <2>2. joined[s] \notin Alive
    BY <2>1 DEF Alive
  <2>3. ~crossed => Alive = {}
    BY <2>1, <2>2 DEF SerialInv, StopsCover
  <2> QED
    BY <1>1, <2>1, <2>3, FinishKeeps
<1> QED
  BY <1>2, <1>3

-----------------------------------------------------------------------------
(* Every step of worker, adapter, feeders and stops keeps the invariant.   *)
LEMMA NextInv == Inv /\ [Next]_vars => Inv'
<1> SUFFICES ASSUME Inv, [Next]_vars PROVE Inv'
  OBVIOUS
<1>1. CASE Start
  BY <1>1, StartKeeps
<1>2. CASE StartFails \/ StartUnfed
  BY <1>2, StartFailsKeeps, StartUnfedKeeps
<1>3. ASSUME NEW s \in Stops, Stop(s) \/ StopCloses(s) \/ StopJoins(s) PROVE Inv'
  BY <1>3, StopKeeps, StopGoesOn
<1>4. ASSUME NEW t \in Numbers,
             \/ Connect(t) \/ Refused(t) \/ Breaks(t) \/ Wakes(t)
             \/ SeesEnd(t) \/ SeesStop(t) \/ Leaves(t)
      PROVE  Inv'
  BY <1>4, FeederMoves, MovesKeep DEF Inv
<1>5. ASSUME NEW t \in Numbers, Trade(t) \/ Quote(t) PROVE Inv'
  BY <1>5, TradeKeeps, QuoteKeeps
<1>6. ASSUME NEW t \in Numbers, Put(t) \/ Swallowed(t) \/ Cancelled(t) PROVE Inv'
  BY <1>6, PutKeeps, CancelledKeeps
<1>7. CASE UNCHANGED vars
  <2>1. UNCHANGED <<connector, wanted, session, writer, running, ws, task, feeder, cancelled,
                    ended, stopAt, joined, starts, file, row, stats, aborted, crossed, strays>>
    BY <1>7 DEF vars, workerVars, adapterVars, stopVars, dataVars, feedVars, history
  <2>2. Alive' = Alive
    BY <2>1 DEF Alive
  <2>3. Accounted'
    BY <2>1, Accounts DEF Inv, BaseInv
  <2>4. BaseInv'
    BY <2>1, <2>2, <2>3 DEF Inv, BaseInv, AdapterFollowsWorker
  <2>5. SerialInv'
    BY <2>1, <2>2 DEF Inv, SerialInv, StopsCover, Stopping, OneFeeder
  <2> QED
    BY <2>1, <2>4, <2>5 DEF Inv, TypeOK
<1> QED
  BY <1>1, <1>2, <1>3, <1>4, <1>5, <1>6, <1>7 DEF Next

(* The feed's state keeps its types and the invariant, whatever starts,    *)
(* stops, failures and lost cancellations do to each other.                *)
THEOREM Invariant == Spec => []Inv
BY InitInv, NextInv, PTL DEF Spec

THEOREM TypeCorrect == Spec => []TypeOK
<1>1. Inv => TypeOK
  BY DEF Inv
<1> QED
  BY <1>1, Invariant, PTL

(* Every message that reached the queue is persisted, lost, under way or   *)
(* cut off by a stop, and counted once (queue.py:43-71).                   *)
THEOREM AccountsHold == Spec => []Accounted
<1>1. Inv => Accounted
  BY DEF Inv, BaseInv
<1> QED
  BY <1>1, Invariant, PTL

(* Unless a start runs while a stop waits, one feeder at a time writes its *)
(* own session's file, and a closed session's final hash is the last       *)
(* record of its file (coinbase_connector.py:61-77, worker.py:68-102).     *)
THEOREM SerialFeedHolds == Spec => []SerialFeed
<1>1. Inv => SerialFeed
  BY DEF Inv, SerialInv, OneFeeder, SerialFeed
<1> QED
  BY <1>1, Invariant, PTL

(* The adapter runs only while the worker does, and a worker whose last    *)
(* start did not fail, at a venue that has a connector, has a feeder,      *)
(* unless a start crossed a stop.                                          *)
THEOREM FeedFollowsHolds == Spec => []FeedFollowsWorker
<1>1. Inv => FeedFollowsWorker
  BY DEF Inv, BaseInv, SerialInv, OneFeeder, FeedFollowsWorker, AdapterFollowsWorker, StartedIsFed
<1> QED
  BY <1>1, Invariant, PTL
=============================================================================
