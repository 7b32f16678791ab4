----------------------------- MODULE MarketFeed -----------------------------
(***************************************************************************)
(* MarketDataWorker, the Coinbase websocket adapter, the session rows, the *)
(* raw files and the bounded queue: what start, stop, the feed's task and  *)
(* the connection do to each other on one event loop.                      *)
(*                                                                         *)
(* A successful start opens a session and creates one task, so sessions,   *)
(* raw files and tasks (feeders) have the same numbers.  An action is what *)
(* a coroutine does from one await to the next.  A file is the number of   *)
(* its records.                                                            *)
(***************************************************************************)
EXTENDS Naturals, FiniteSets

CONSTANTS
  MaxStarts,   \* number of starts (a bound of the model)
  Stops,       \* calls of stop, each made once
  MaxQueue,    \* maxsize of the queue
  MaxRecords,  \* number of messages (a bound of the model)
  None         \* Python's None

ASSUME FeedAssumption ==
  /\ MaxStarts \in Nat /\ MaxQueue \in Nat /\ MaxRecords \in Nat
  /\ None \notin Nat

VARIABLES
  wanted,      \* MarketDataWorker._running
  session,     \* MarketDataWorker.session
  connector,   \* whether the configured venue has a connector
  writer,      \* the session whose file MarketDataWorker.raw_writer appends to
  running,     \* CoinbaseMarketDataAdapter._running
  ws,          \* ._ws: the feeder whose connection it is
  task,        \* ._task
  feeder,      \* feeder[t]: where the task stands
  cancelled,   \* feeders with a cancellation to be delivered
  ended,       \* feeders whose connection has been closed cleanly
  stopAt,      \* stopAt[s]: where the call stands
  joined,      \* joined[s]: the task it waits for
  starts,      \* number of starts so far
  file,        \* file[n]: records in the raw file of session n, or None
  row,         \* row[n]: market_sessions, is_active and final_hash
  stats,       \* QueueConservationStats; the queue's length is `queued'
  aborted,     \* history: messages whose put was cancelled
  crossed,     \* history: a start ran while a stop waited
  strays       \* history: feeders that wrote to another session's file

workerVars == <<connector, wanted, session, writer>>
adapterVars == <<running, ws, task>>
stopVars == <<stopAt, joined>>
dataVars == <<file, row, stats>>
feedVars == <<feeder, cancelled, ended>>
history == <<aborted, crossed, strays>>
vars == <<workerVars, adapterVars, stopVars, dataVars, feedVars, starts, history>>

Numbers == 1..MaxStarts

FeederStates == {"none", "connecting", "open", "put", "leaving", "sleep", "done"}
Alive == {t \in Numbers : feeder[t] \notin {"none", "done"}}

(* A row says whether the session is active, and which record of which     *)
(* file its final hash is.                                                 *)
NoRow == [state |-> "none", of |-> None, records |-> 0]
OpenRow == [state |-> "active", of |-> None, records |-> 0]
ClosedRow(n, k) == [state |-> "closed", of |-> n, records |-> k]

TypeOK ==
  /\ connector \in BOOLEAN
  /\ wanted \in BOOLEAN /\ running \in BOOLEAN /\ crossed \in BOOLEAN
  /\ {session, writer, ws, task} \subseteq Numbers \cup {None}
  /\ feeder \in [Numbers -> FeederStates]
  /\ cancelled \subseteq Numbers /\ ended \subseteq Numbers /\ strays \subseteq Numbers
  /\ stopAt \in [Stops -> {"idle", "closing", "joining", "done"}]
  /\ joined \in [Stops -> Numbers \cup {None}]
  /\ starts \in 0..MaxStarts
  /\ file \in [Numbers -> 0..MaxRecords \cup {None}]
  /\ row \in [Numbers -> [state : {"none", "active", "closed"}, of : Numbers \cup {None},
                          records : 0..MaxRecords]]
  /\ stats \in [received : 0..MaxRecords, persisted : 0..MaxRecords, lost : 0..MaxRecords,
                queued : 0..MaxQueue]
  /\ aborted \in 0..MaxRecords

Init ==
  /\ connector \in BOOLEAN /\ wanted = FALSE /\ session = None /\ writer = None
  /\ running = FALSE /\ ws = None /\ task = None
  /\ feeder = [t \in Numbers |-> "none"] /\ cancelled = {} /\ ended = {}
  /\ stopAt = [s \in Stops |-> "idle"] /\ joined = [s \in Stops |-> None]
  /\ starts = 0
  /\ file = [n \in Numbers |-> None] /\ row = [n \in Numbers |-> NoRow]
  /\ stats = [received |-> 0, persisted |-> 0, lost |-> 0, queued |-> 0]
  /\ aborted = 0 /\ crossed = FALSE /\ strays = {}

-----------------------------------------------------------------------------
(* start.  It runs without an await: the adapter never runs while the      *)
(* worker does not (AdapterFollowsWorker), so connect_market_data has      *)
(* nothing to disconnect first.                                            *)
Stopping == \E s \in Stops : stopAt[s] \in {"closing", "joining"}

Begin(n) ==
  /\ ~wanted /\ starts < MaxStarts /\ n = starts + 1
  /\ starts' = n /\ wanted' = TRUE
  /\ crossed' = (crossed \/ Stopping)

Start ==
  \E n \in Numbers :
    /\ Begin(n) /\ connector /\ ~running
    /\ session' = n /\ writer' = n
    /\ row' = [row EXCEPT ![n] = OpenRow] /\ file' = [file EXCEPT ![n] = 0]
    /\ running' = TRUE /\ task' = n
    /\ feeder' = [feeder EXCEPT ![n] = "connecting"]
    /\ UNCHANGED <<connector, ws, cancelled, ended, stopVars, stats, aborted, strays>>

(* Nobody is there to feed the session: that is logged, and the start      *)
(* returns as any other.                                                   *)
StartUnfed ==
  \E n \in Numbers :
    /\ Begin(n) /\ ~connector
    /\ session' = n /\ writer' = n
    /\ row' = [row EXCEPT ![n] = OpenRow] /\ file' = [file EXCEPT ![n] = 0]
    /\ UNCHANGED <<connector, adapterVars, feedVars, stopVars, stats, aborted, strays>>

(* The INSERT of the session fails, or the raw file cannot be opened: the  *)
(* worker counts as running, and nothing runs.                             *)
StartFails ==
  \E n \in Numbers :
    /\ Begin(n)
    /\ \/ UNCHANGED <<session, row>>
       \/ session' = n /\ row' = [row EXCEPT ![n] = OpenRow]
    /\ UNCHANGED <<connector, writer, adapterVars, feedVars, stopVars, file, stats, aborted, strays>>

-----------------------------------------------------------------------------
(* stop.  Without a connector nothing ever runs, and there is nothing to   *)
(* disconnect.                                                             *)

(* close_session with the current hash of the writer; the UPDATE may fail. *)
CloseSession ==
  \/ UNCHANGED row
  \/ /\ session # None /\ writer # None
     /\ row' = [row EXCEPT ![session] = ClosedRow(writer, file[writer])]

Finish(s) ==
  /\ task' = None
  /\ CloseSession
  /\ stopAt' = [stopAt EXCEPT ![s] = "done"]
  /\ UNCHANGED <<joined, cancelled>>

(* Slip: the task is waited for but not cancelled. *)
JoinWithoutCancel(s) ==
  \/ /\ task \in Alive
     /\ joined' = [joined EXCEPT ![s] = task]
     /\ stopAt' = [stopAt EXCEPT ![s] = "joining"]
     /\ UNCHANGED <<task, row, cancelled>>
  \/ task \notin Alive /\ Finish(s)

(* Slip: the task is not waited for. *)
JoinWithoutWaiting(s) ==
  /\ cancelled' = cancelled \cup ({task} \ {None})
  /\ task' = None /\ CloseSession
  /\ stopAt' = [stopAt EXCEPT ![s] = "done"]
  /\ UNCHANGED joined

(* Cancel the task and wait for it; a task that has ended is not waited    *)
(* for.                                                                    *)
Join(s) ==
  \/ /\ task \in Alive
     /\ cancelled' = cancelled \cup {task}
     /\ joined' = [joined EXCEPT ![s] = task]
     /\ stopAt' = [stopAt EXCEPT ![s] = "joining"]
     /\ UNCHANGED <<task, row>>
  \/ task \notin Alive /\ Finish(s)

(* Slip: only the worker's flag is cleared at once, the adapter's after    *)
(* the connection was closed.                                              *)
StopWorkerFirst(s) ==
  /\ stopAt[s] = "idle"
  /\ wanted' = FALSE
  /\ \/ /\ ws # None
        /\ ended' = ended \cup {ws}
        /\ stopAt' = [stopAt EXCEPT ![s] = "closing"]
        /\ UNCHANGED <<running, task, joined, cancelled, row>>
     \/ ws = None /\ running' = FALSE /\ Join(s) /\ UNCHANGED ended
  /\ UNCHANGED <<connector, session, writer, ws, feeder, starts, file, stats, history>>

Stop(s) ==
  /\ stopAt[s] = "idle"
  /\ wanted' = FALSE /\ running' = FALSE
  /\ \/ /\ ws # None
        /\ ended' = ended \cup {ws}
        /\ stopAt' = [stopAt EXCEPT ![s] = "closing"]
        /\ UNCHANGED <<task, joined, cancelled, row>>
     \/ ws = None /\ Join(s) /\ UNCHANGED ended
  /\ UNCHANGED <<connector, session, writer, ws, feeder, starts, file, stats, history>>

(* ws.close() has returned. *)
StopCloses(s) ==
  /\ stopAt[s] = "closing"
  /\ ws' = None
  /\ Join(s)
  /\ UNCHANGED <<workerVars, running, feeder, ended, starts, file, stats, history>>

StopJoins(s) ==
  /\ stopAt[s] = "joining" /\ feeder[joined[s]] = "done"
  /\ Finish(s)
  /\ UNCHANGED <<workerVars, running, ws, feeder, ended, starts, file, stats, history>>

-----------------------------------------------------------------------------
(* The websocket task.                                                     *)

(* Slip: a connection that was left is not opened again. *)
LoopOnce(t) == feeder' = [feeder EXCEPT ![t] = "done"]

(* `while self._running', after a connection was left. *)
Loop(t) == feeder' = [feeder EXCEPT ![t] = IF running THEN "connecting" ELSE "done"]

Connect(t) ==
  /\ feeder[t] = "connecting" /\ t \notin cancelled
  /\ ws' = t /\ ended' = ended \ {t}
  /\ feeder' = [feeder EXCEPT ![t] = "open"]
  /\ UNCHANGED <<workerVars, running, task, cancelled, stopVars, dataVars, starts, history>>

(* There is no connection, or it breaks. *)
Fails(t, at) ==
  /\ feeder[t] = at /\ t \notin cancelled
  /\ feeder' = [feeder EXCEPT ![t] = IF running THEN "sleep" ELSE "done"]
  /\ UNCHANGED <<workerVars, adapterVars, cancelled, ended, stopVars, dataVars, starts, history>>

Refused(t) == Fails(t, "connecting")
Breaks(t) == Fails(t, "open")

Wakes(t) ==
  /\ feeder[t] = "sleep" /\ t \notin cancelled
  /\ Loop(t)
  /\ UNCHANGED <<workerVars, adapterVars, cancelled, ended, stopVars, dataVars, starts, history>>

(* The connection was closed cleanly, and the loop over it just ends. *)
SeesEnd(t) ==
  /\ feeder[t] = "open" /\ t \in ended /\ t \notin cancelled
  /\ Loop(t)
  /\ UNCHANGED <<workerVars, adapterVars, cancelled, ended, stopVars, dataVars, starts, history>>

(* A message after the adapter was stopped: the loop is left, which closes *)
(* the connection.                                                         *)
SeesStop(t) ==
  /\ feeder[t] = "open" /\ t \notin cancelled /\ ~running
  /\ feeder' = [feeder EXCEPT ![t] = "leaving"]
  /\ UNCHANGED <<workerVars, adapterVars, cancelled, ended, stopVars, dataVars, starts, history>>

Leaves(t) ==
  /\ feeder[t] = "leaving" /\ t \notin cancelled
  /\ Loop(t)
  /\ UNCHANGED <<workerVars, adapterVars, cancelled, ended, stopVars, dataVars, starts, history>>

(* append_raw_message, on whatever writer the worker has now. *)
Append(t) ==
  /\ feeder[t] = "open" /\ t \notin cancelled /\ running /\ file[writer] < MaxRecords
  /\ file' = [file EXCEPT ![writer] = @ + 1]
  /\ strays' = IF writer = t THEN strays ELSE strays \cup {t}

(* on_incoming_trade up to the queue. *)
Trade(t) ==
  /\ Append(t) /\ stats.received < MaxRecords
  /\ stats' = [stats EXCEPT !.received = @ + 1]
  /\ feeder' = [feeder EXCEPT ![t] = "put"]
  /\ UNCHANGED <<workerVars, adapterVars, cancelled, ended, stopVars, row, starts, aborted, crossed>>

(* on_incoming_ticker and on_incoming_orderbook. *)
Quote(t) ==
  /\ Append(t)
  /\ UNCHANGED <<workerVars, adapterVars, feedVars, stopVars, row, stats, starts, aborted, crossed>>

(* Slip: a message that found no place is not counted. *)
PutDropping(t) ==
  /\ feeder[t] = "put" /\ t \notin cancelled
  /\ \/ /\ stats.queued < MaxQueue
        /\ stats' = [stats EXCEPT !.queued = @ + 1, !.persisted = @ + 1]
     \/ stats.queued = MaxQueue /\ UNCHANGED stats
  /\ feeder' = [feeder EXCEPT ![t] = "open"]
  /\ UNCHANGED <<workerVars, adapterVars, cancelled, ended, stopVars, file, row, starts, history>>

(* Slip: the queue has no limit. *)
PutUnbounded(t) ==
  /\ feeder[t] = "put" /\ t \notin cancelled
  /\ stats' = [stats EXCEPT !.queued = @ + 1, !.persisted = @ + 1]
  /\ feeder' = [feeder EXCEPT ![t] = "open"]
  /\ UNCHANGED <<workerVars, adapterVars, cancelled, ended, stopVars, file, row, starts, history>>

(* The rest of put and of the handler.  Nothing ever takes from the queue. *)
Put(t) ==
  /\ feeder[t] = "put" /\ t \notin cancelled
  /\ \/ /\ stats.queued < MaxQueue
        /\ stats' = [stats EXCEPT !.queued = @ + 1, !.persisted = @ + 1]
     \/ stats.queued = MaxQueue /\ stats' = [stats EXCEPT !.lost = @ + 1]
  /\ feeder' = [feeder EXCEPT ![t] = "open"]
  /\ UNCHANGED <<workerVars, adapterVars, cancelled, ended, stopVars, file, row, starts, history>>

(* The cancellation is delivered; a put that was under way may have left   *)
(* its item in the queue.                                                  *)
Cancelled(t) ==
  /\ t \in cancelled /\ t \in Alive
  /\ feeder' = [feeder EXCEPT ![t] = "done"] /\ cancelled' = cancelled \ {t}
  /\ IF feeder[t] = "put"
     THEN /\ aborted' = aborted + 1
          /\ \/ UNCHANGED stats
             \/ stats.queued < MaxQueue /\ stats' = [stats EXCEPT !.queued = @ + 1]
     ELSE UNCHANGED <<aborted, stats>>
  /\ UNCHANGED <<workerVars, adapterVars, ended, stopVars, file, row, starts, crossed, strays>>

(* Python 3.11: a cancellation that meets a finished wait_for is lost, and *)
(* the handler goes on.                                                    *)
Swallowed(t) ==
  /\ t \in cancelled /\ feeder[t] = "put" /\ stats.queued < MaxQueue
  /\ stats' = [stats EXCEPT !.queued = @ + 1, !.persisted = @ + 1]
  /\ feeder' = [feeder EXCEPT ![t] = "open"] /\ cancelled' = cancelled \ {t}
  /\ UNCHANGED <<workerVars, adapterVars, ended, stopVars, file, row, starts, history>>

Next ==
  \/ Start
  \/ StartUnfed
  \/ StartFails
  \/ \E s \in Stops : Stop(s) \/ StopCloses(s) \/ StopJoins(s)
  \/ \E t \in Numbers :
        \/ Connect(t) \/ Refused(t) \/ Breaks(t) \/ Wakes(t) \/ SeesEnd(t) \/ SeesStop(t) \/ Leaves(t)
        \/ Trade(t) \/ Quote(t) \/ Put(t) \/ Cancelled(t) \/ Swallowed(t)

Spec == Init /\ [][Next]_vars

(* The loop delivers cancellations and resumes what is ready; every wait   *)
(* of these coroutines but the one for a message has a time limit (10      *)
(* seconds to connect, 10 to close, 2 for the queue).                      *)
FairSpec ==
  /\ Spec
  /\ \A s \in Stops : WF_vars(StopCloses(s)) /\ WF_vars(StopJoins(s))
  /\ \A t \in Numbers :
       /\ WF_vars(Connect(t) \/ Refused(t)) /\ WF_vars(Wakes(t)) /\ WF_vars(SeesEnd(t))
       /\ WF_vars(Leaves(t)) /\ WF_vars(Put(t)) /\ WF_vars(Cancelled(t) \/ Swallowed(t))

-----------------------------------------------------------------------------
(* The adapter never runs while the worker does not, so a start never      *)
(* meets a connection that was not given up.                               *)
AdapterFollowsWorker == running => wanted

(* Every message that reached the queue is counted once: persisted, lost,  *)
(* in a put, or in a put that a stop cancelled.                            *)
Accounted ==
  stats.received = stats.persisted + stats.lost + aborted
                   + Cardinality({t \in Numbers : feeder[t] = "put"})

(* Unless a start runs while a stop waits, there is one feeder at a time,  *)
(* it is the adapter's task and writes its own session's file, and a       *)
(* closed session's final hash is the last record of its file.             *)
SerialFeed ==
  ~crossed =>
    /\ \A t \in Alive : task = t /\ session = t /\ writer = t
    /\ strays = {}
    /\ \A n \in Numbers : row[n].state = "closed" /\ file[n] # None =>
                            row[n].of = n /\ row[n].records = file[n]

(* Unless a start crosses a stop, a worker that runs since a start that    *)
(* did not fail has a feeder, whatever the connection did; provided its    *)
(* venue has a connector.                                                  *)
StartedIsFed ==
  connector /\ ~crossed /\ wanted /\ ~Stopping /\ session = starts /\ writer = starts => Alive # {}

(* Both: worker, adapter and task agree on whether there is a feed. *)
FeedFollowsWorker == AdapterFollowsWorker /\ StartedIsFed

(* A disconnect comes to an end, unless a start crosses it. *)
StopEnds ==
  \A s \in Stops : stopAt[s] \in {"closing", "joining"} ~> stopAt[s] = "done" \/ crossed

=============================================================================
