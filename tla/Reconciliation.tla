--------------------------- MODULE Reconciliation ---------------------------
(***************************************************************************)
(* PaperReconciliationEngine.reconcile_venue, called for several venues at *)
(* once, beside the orders, the ledger and the gate it blocks.             *)
(*                                                                         *)
(* A call awaits the venue's balances.  No adapter has a position listing: *)
(* each returns [] without suspending, so from the answer on the call runs *)
(* without interruption (`loop').  All venues are compared with the one    *)
(* local ledger and set the one flag of ExecutionSafetyGate.  A venue      *)
(* lists what it likes: Alpaca `equity' and `buying_power' beside USD,     *)
(* Coinbase an account per currency.  What paper_balances has no row for   *)
(* counts as zero.  Amounts that differ do so by more than the tolerance.  *)
(***************************************************************************)
EXTENDS Integers

CONSTANTS
  Calls,       \* reconcile calls, each made once
  Venues,      \* registered connectors
  Strangers,   \* names without a connector
  Assets,      \* the keys the venues list
  Kept,        \* those with a row in paper_balances
  MaxUnits,    \* largest balance (a bound of the model)
  NoCall       \* the event loop is free

ASSUME CallsAssumption ==
  NoCall \notin Calls /\ MaxUnits \in Nat /\ Venues \cap Strangers = {} /\ Kept \subseteq Assets

VARIABLES
  loop,        \* the call that holds the event loop, or NoCall
  pc,          \* pc[c]: where the call stands
  venue,       \* venue[c]: the venue it asks
  answer,      \* answer[c]: what the adapter will return to the await
  found,       \* found[c]: the assets in `discrepancies'
  status,      \* status[c]: status_str
  said,        \* said[c]: blocked_new_orders of the report
  blocked,     \* ExecutionSafetyGate._reconciliation_blocked
  ledger,      \* paper_balances
  held,        \* held[v]: the account at the venue
  order,       \* order[v]: an order is on its way to the venue
  verdict,     \* history: verdict[v]: v's last status in this process
  differed,    \* history: differed[c]: the assets that differed during the call
  compared     \* history: compared[c]: the call had a listing to compare

callVars == <<loop, pc, venue, answer, found, status, said>>
bookVars == <<ledger, held, order>>
historyVars == <<verdict, compared>>
vars == <<callVars, blocked, bookVars, historyVars, differed>>

Account == [Assets -> 0..MaxUnits]

(* An await raises (the signing of the request), returns the empty         *)
(* dictionary or the account as it was when the venue looked it up.        *)
Answer ==
  [kind : {"pending", "raised", "empty"}] \cup [kind : {"listing"}, account : Account]

Pending == [kind |-> "pending"]
Listing(a) == [kind |-> "listing", account |-> a]

TypeOK ==
  /\ loop \in Calls \cup {NoCall}
  /\ pc \in [Calls -> {"idle", "balances", "record", "done", "raised"}]
  /\ venue \in [Calls -> Venues \cup Strangers \cup {NoCall}]
  /\ answer \in [Calls -> Answer]
  /\ found \in [Calls -> SUBSET Assets]
  /\ status \in [Calls -> {"none", "CONNECTOR_NOT_FOUND", "UNKNOWN",
                           "DISCREPANCY_DETECTED", "BALANCED"}]
  /\ said \in [Calls -> BOOLEAN]
  /\ blocked \in BOOLEAN
  /\ ledger \in [Kept -> 0..MaxUnits] /\ held \in [Venues -> Account]
  /\ order \in [Venues -> BOOLEAN]
  /\ verdict \in [Venues -> {"none", "UNKNOWN", "DISCREPANCY_DETECTED", "BALANCED"}]
  /\ differed \in [Calls -> SUBSET Assets] /\ compared \in [Calls -> BOOLEAN]

Init ==
  /\ loop = NoCall
  /\ pc = [c \in Calls |-> "idle"]
  /\ venue = [c \in Calls |-> NoCall]
  /\ answer = [c \in Calls |-> Pending]
  /\ found = [c \in Calls |-> {}]
  /\ status = [c \in Calls |-> "none"]
  /\ said = [c \in Calls |-> FALSE]
  /\ blocked = FALSE
  /\ ledger = [a \in Kept |-> MaxUnits]
  /\ held = [v \in Venues |-> [a \in Assets |-> IF a \in Kept THEN MaxUnits ELSE 0]]
  /\ order = [v \in Venues |-> FALSE]
  /\ verdict = [v \in Venues |-> "none"]
  /\ differed = [c \in Calls |-> {}] /\ compared = [c \in Calls |-> FALSE]

-----------------------------------------------------------------------------
(* The call.                                                               *)

StartUnknown(c, name) ==
  /\ loop = NoCall /\ pc[c] = "idle"
  /\ venue' = [venue EXCEPT ![c] = name]
  /\ status' = [status EXCEPT ![c] = "CONNECTOR_NOT_FOUND"]
  /\ blocked' = TRUE
  /\ said' = [said EXCEPT ![c] = TRUE]
  /\ pc' = [pc EXCEPT ![c] = "done"]
  /\ UNCHANGED <<loop, answer, found, bookVars, historyVars>>

Start(c, v) ==
  /\ loop = NoCall /\ pc[c] = "idle"
  /\ venue' = [venue EXCEPT ![c] = v]
  /\ pc' = [pc EXCEPT ![c] = "balances"]
  /\ UNCHANGED <<loop, answer, found, status, said, blocked, bookVars, historyVars>>

(* The venue looks the account up, or does not: the adapters of Coinbase   *)
(* and Alpaca turn every failure of the request, and missing credentials,  *)
(* into an empty dictionary.                                               *)
VenueAnswers(c) ==
  /\ pc[c] = "balances" /\ answer[c] = Pending
  /\ \E a \in {[kind |-> "raised"], [kind |-> "empty"], Listing(held[venue[c]])} :
       answer' = [answer EXCEPT ![c] = a]
  /\ UNCHANGED <<loop, pc, venue, found, status, said, blocked, bookVars, historyVars>>

Verdict(failed, off) ==
  IF failed THEN "UNKNOWN" ELSE IF off # {} THEN "DISCREPANCY_DETECTED" ELSE "BALANCED"

(* Slip: a verdict that the report's type does not know. *)
ConcludeFailed(c, failed, off) ==
  LET s == IF failed THEN "FAILED" ELSE Verdict(failed, off) IN
  /\ found' = [found EXCEPT ![c] = off]
  /\ status' = [status EXCEPT ![c] = s]
  /\ verdict' = [verdict EXCEPT ![venue[c]] = s]
  /\ blocked' = (s # "BALANCED")
  /\ pc' = [pc EXCEPT ![c] = "record"]
  /\ loop' = c

(* Slip: another await between the verdict and the report. *)
ConcludeAndYield(c, failed, off) ==
  LET s == Verdict(failed, off) IN
  /\ found' = [found EXCEPT ![c] = off]
  /\ status' = [status EXCEPT ![c] = s]
  /\ verdict' = [verdict EXCEPT ![venue[c]] = s]
  /\ blocked' = (s # "BALANCED")
  /\ pc' = [pc EXCEPT ![c] = "record"]
  /\ UNCHANGED loop

(* The verdict and the flag; the loop is kept until the report is returned. *)
Conclude(c, failed, off) ==
  LET s == Verdict(failed, off) IN
  /\ found' = [found EXCEPT ![c] = off]
  /\ status' = [status EXCEPT ![c] = s]
  /\ verdict' = [verdict EXCEPT ![venue[c]] = s]
  /\ blocked' = (s # "BALANCED")
  /\ pc' = [pc EXCEPT ![c] = "record"]
  /\ loop' = c

Resumes(c) == loop = NoCall /\ pc[c] = "balances" /\ answer[c] # Pending

(* local_balances.get(asset, 0.0) *)
Local(a) == IF a \in Kept THEN ledger[a] ELSE 0

(* Slip: an empty listing is compared too, as an account without money. *)
OffOrMissing(a) ==
  {x \in Assets : (IF a.kind = "listing" THEN a.account[x] ELSE 0) # Local(x)}

(* Only what the venue lists is compared, but all of it. *)
Off(a) == IF a.kind = "listing" THEN {x \in Assets : a.account[x] # Local(x)} ELSE {}

(* Slip: an await that raised is tried again. *)
CompareRetrying(c) ==
  /\ Resumes(c)
  /\ IF answer[c].kind = "raised"
       THEN UNCHANGED <<loop, pc, found, status, blocked, verdict>>
       ELSE Conclude(c, FALSE, Off(answer[c]))
  /\ answer' = [answer EXCEPT ![c] = Pending]
  /\ compared' = [compared EXCEPT ![c] = answer[c].kind = "listing"]
  /\ UNCHANGED <<venue, said, bookVars>>

(* The SELECTs of paper_balances and paper_positions may raise as well.  A *)
(* discrepancy found before the second one does is not forgotten, but the  *)
(* verdict is UNKNOWN.                                                     *)
Compare(c) ==
  /\ Resumes(c)
  /\ \/ answer[c].kind # "raised" /\ Conclude(c, FALSE, Off(answer[c]))
     \/ answer[c].kind # "raised" /\ Conclude(c, TRUE, Off(answer[c]))
     \/ Conclude(c, TRUE, {})
  /\ answer' = [answer EXCEPT ![c] = Pending]
  /\ compared' = [compared EXCEPT ![c] = answer[c].kind = "listing"]
  /\ UNCHANGED <<venue, said, bookVars>>

(* The risk_events row; if it fails no report is returned.  The report     *)
(* reads the flag again.                                                   *)
Record(c) ==
  /\ pc[c] = "record"
  /\ \/ pc' = [pc EXCEPT ![c] = "done"] /\ said' = [said EXCEPT ![c] = blocked]
     \/ pc' = [pc EXCEPT ![c] = "raised"] /\ UNCHANGED said
  /\ loop' = NoCall
  /\ UNCHANGED <<venue, answer, found, status, blocked, bookVars, historyVars>>

Step(c) == VenueAnswers(c) \/ Compare(c) \/ Record(c)

-----------------------------------------------------------------------------
(* What goes on beside it.                                                 *)

(* An order passes the gate, and its request leaves before anything else   *)
(* runs (module PaperExecution).                                           *)
Send(v) ==
  /\ loop = NoCall /\ ~blocked /\ ~order[v]
  /\ order' = [order EXCEPT ![v] = TRUE]
  /\ UNCHANGED <<callVars, blocked, ledger, held, historyVars>>

(* The venue refuses or executes it, whatever the gate says by now.  The   *)
(* ledger does not hear of it: no sandbox answer carries a fill.           *)
VenueExecutes(v) ==
  /\ order[v] /\ order' = [order EXCEPT ![v] = FALSE]
  /\ \E a \in Account : held' = [held EXCEPT ![v] = a]
  /\ UNCHANGED <<callVars, blocked, ledger, historyVars>>

(* The account is funded or debited at the venue, or its equity moves with *)
(* the market.                                                             *)
Drift(v) ==
  /\ \E a \in Assets : \E n \in 0..MaxUnits : held' = [held EXCEPT ![v][a] = n]
  /\ UNCHANGED <<callVars, blocked, ledger, order, historyVars>>

(* A fill is booked: apply_fill updates a row of paper_balances. *)
Book ==
  /\ loop = NoCall
  /\ \E a \in Kept : \E n \in 0..MaxUnits : ledger' = [ledger EXCEPT ![a] = n]
  /\ UNCHANGED <<callVars, blocked, held, order, historyVars>>

(* A restart: calls under way are gone, and so is the flag.                *)
Restart ==
  /\ loop' = NoCall
  /\ pc' = [c \in Calls |-> IF pc[c] \in {"balances", "record"} THEN "raised" ELSE pc[c]]
  /\ blocked' = FALSE /\ verdict' = [v \in Venues |-> "none"]
  /\ UNCHANGED <<venue, answer, found, status, said, bookVars, compared>>

Act ==
  \/ \E c \in Calls :
        \/ Step(c)
        \/ \E v \in Venues : Start(c, v)
        \/ \E n \in Strangers : StartUnknown(c, n)
  \/ \E v \in Venues : Send(v) \/ VenueExecutes(v) \/ Drift(v)
  \/ Book
  \/ Restart

(* An asset whose balances differ, or that the venue has some of and the   *)
(* ledger no row for.                                                      *)
Differing(v) == {a \in Assets : held[v][a] # Local(a)}

(* History: a call remembers what differed at any time since it started.   *)
Watch ==
  differed' = [c \in Calls |->
                 differed[c] \cup IF pc'[c] = "balances" THEN Differing(venue[c])' ELSE {}]

Next == Act /\ Watch

Spec == Init /\ [][Next]_vars

(* The loop resumes what is ready, and aiohttp's total timeout of 5        *)
(* seconds answers for a silent venue.                                     *)
FairSpec == Spec /\ \A c \in Calls : WF_vars(Step(c) /\ Watch)

-----------------------------------------------------------------------------
(* A report never contradicts the gate: although the flag is read a second *)
(* time, after a write to the database and with other calls under way,     *)
(* `blocked_new_orders' is what the report's own status asks for.          *)
ReportMatchesStatus ==
  \A c \in Calls : pc[c] = "done" => (said[c] <=> status[c] # "BALANCED")

(* A discrepancy is never the work of the engine's own await, during which *)
(* venue and ledger move: an asset that the report names did differ while  *)
(* the call was under way, be it only by a fill that was being booked.  An *)
(* asset the ledger has no row for counts as zero there, so it differs as  *)
(* soon as the venue has any: of such a discrepancy, which is none about   *)
(* money, no more is claimed than that the venue had some.                 *)
DiscrepancyHasCause ==
  \A c \in Calls : found[c] \subseteq differed[c]

(* Every reconciliation that was started comes to an end. *)
ReconciliationEnds == \A c \in Calls : pc[c] = "balances" ~> pc[c] # "balances"

-----------------------------------------------------------------------------
(* Claims of the repository that the code does not keep. *)

(* reconciliation.py: never BALANCED when the comparison was not performed *)
(* (that is, when the venue listed nothing to compare).                    *)
BalancedIsCompared ==
  \A c \in Calls : status[c] = "BALANCED" => compared[c]

(* reconciliation.py: if the state of a venue cannot be retrieved, it is   *)
(* UNKNOWN and new orders are blocked; so none leaves for a venue whose    *)
(* last reconciliation said UNKNOWN.                                       *)
UnknownBlocksVenue ==
  [][\A v \in Venues : ~order[v] /\ order'[v] => verdict[v] # "UNKNOWN"]_vars
=============================================================================
