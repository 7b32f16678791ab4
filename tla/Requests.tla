------------------------------ MODULE Requests ------------------------------
(***************************************************************************)
(* Calls that run in the thread pool beside each other: the `def'          *)
(* endpoints of apps/backend/main.py and, for the operations no endpoint   *)
(* calls, a script.  A call stands at a statement and has local variables; *)
(* between two statements any other thread may run.                        *)
(***************************************************************************)
EXTENDS Naturals

CONSTANTS
  Threads,
  MaxCalls,    \* number of calls (a bound of the model)
  MaxFaults,   \* number of failed statements and deaths (a bound of the model)
  None,        \* Python's None
  Absent,      \* what a file is before it is created
  Torn         \* what it holds between its truncation and its write

ASSUME CallsAssumption ==
  /\ MaxCalls \in Nat /\ MaxFaults \in Nat
  /\ {None, Absent, Torn} \cap (Threads \cup Nat) = {}
  /\ Absent # Torn /\ None # Torn

VARIABLES
  call,        \* call[t]: the call thread t runs
  made,        \* number of calls begun
  faults,      \* number of failed statements and deaths of the process
  overlapped,  \* history: parts of the platform that two calls used at once
  cut          \* history: parts a call left in the middle of its writes, and
               \* "token_read" once a read of the token file has failed

requestVars == <<call, made, faults, overlapped, cut>>

(* The parts whose state a call reads or writes. *)
Uses ==
  [store    |-> {"vault"},      remove |-> {"vault"},      status  |-> {"vault"},
   token    |-> {"token"},
   consult  |-> {"strategies"}, freeze |-> {"strategies"},
   register |-> {"datasets"},   seal   |-> {"datasets"},
   research |-> {"strategies", "datasets"},
   certify  |-> {"vault", "strategies", "datasets", "reports"}]

NoLocals == [x \in {} |-> None]
Idle == [op |-> None, arg |-> None, at |-> "idle", local |-> NoLocals]
Busy == {t \in Threads : call[t] # Idle}

Runs(t, op) == call[t].op = op
At(t, label) == call[t].at = label
Local(t, name) == call[t].local[name]

CallsBegin ==
  /\ call = [t \in Threads |-> Idle]
  /\ made = 0 /\ faults = 0 /\ overlapped = {} /\ cut = {}

(* A call of `op' begins at its first statement.  Calls that share no part *)
(* do not notice each other, and are made one after another.               *)
Begin(t, op, arg, label) ==
  /\ call[t] = Idle /\ made < MaxCalls
  /\ \A u \in Busy : Uses[op] \cap Uses[call[u].op] # {}
  /\ call' = [call EXCEPT ![t] = [op |-> op, arg |-> arg, at |-> label, local |-> NoLocals]]
  /\ made' = made + 1
  /\ overlapped' = overlapped \cup (Uses[op] \cap UNION {Uses[call[u].op] : u \in Busy})
  /\ UNCHANGED <<faults, cut>>

(* On to the statement at `label'. *)
Goto(t, label) ==
  /\ call' = [call EXCEPT ![t].at = label]
  /\ UNCHANGED <<made, faults, overlapped, cut>>

(* The local variables with those that `values' names set. *)
Updated(local, values) ==
  [name \in DOMAIN values \cup DOMAIN local |->
     IF name \in DOMAIN values THEN values[name] ELSE local[name]]

(* On to `label', and those local variables are set. *)
Assign(t, values, label) ==
  /\ call' = [call EXCEPT ![t] = [op |-> @.op, arg |-> @.arg, at |-> label,
                                  local |-> Updated(@.local, values)]]
  /\ UNCHANGED <<made, faults, overlapped, cut>>

(* On to a function of its own, whose local variables are `values'. *)
Enter(t, values, label) ==
  /\ call' = [call EXCEPT ![t] = [op |-> @.op, arg |-> @.arg, at |-> label, local |-> values]]
  /\ UNCHANGED <<made, faults, overlapped, cut>>

(* The call returns, or raises with nothing left half done. *)
Return(t) ==
  /\ call' = [call EXCEPT ![t] = Idle]
  /\ UNCHANGED <<made, faults, overlapped, cut>>

Fault == faults < MaxFaults /\ faults' = faults + 1

(* A statement fails in the middle of what the call writes to `part', and  *)
(* the call raises.                                                        *)
Break(t, part) ==
  /\ Fault /\ cut' = cut \cup {part}
  /\ call' = [call EXCEPT ![t] = Idle]
  /\ UNCHANGED <<made, overlapped>>

(* The same, but the exception is swallowed and the call goes on. *)
Spoil(t, part, label) ==
  /\ Fault /\ cut' = cut \cup {part}
  /\ call' = [call EXCEPT ![t].at = label]
  /\ UNCHANGED <<made, overlapped>>

(* The process dies and its calls with it; half[t] is the parts call t was *)
(* in the middle of writing.                                               *)
CallsDie(half) ==
  /\ Fault /\ cut' = cut \cup UNION {half[t] : t \in Busy}
  /\ call' = [t \in Threads |-> Idle]
  /\ UNCHANGED <<made, overlapped>>

(* Used by one call at a time, and by none that was left half done. *)
Undisturbed(part) == part \notin overlapped \cup cut
Quiet(part) == \A t \in Busy : part \notin Uses[call[t].op]
=============================================================================
