------------------------ MODULE ReconciliationProofs ------------------------
(***************************************************************************)
(* Proofs about Reconciliation, for any number of calls, venues and        *)
(* assets, kept in the ledger or not.                                      *)
(***************************************************************************)
EXTENDS Reconciliation, TLAPS

USE CallsAssumption

PCs      == {"idle", "balances", "record", "done", "raised"}
Statuses == {"none", "CONNECTOR_NOT_FOUND", "UNKNOWN", "DISCREPANCY_DETECTED", "BALANCED"}
Verdicts == {"none", "UNKNOWN", "DISCREPANCY_DETECTED", "BALANCED"}

(* The types of what a call decides by ... *)
ShapeInv ==
  /\ loop \in Calls \cup {NoCall}
  /\ pc \in [Calls -> PCs]
  /\ venue \in [Calls -> Venues \cup Strangers \cup {NoCall}]
  /\ found \in [Calls -> SUBSET Assets]
  /\ status \in [Calls -> Statuses]
  /\ said \in [Calls -> BOOLEAN]
  /\ blocked \in BOOLEAN

(* ... and of what it compares and remembers; it asks a registered venue.  *)
BooksInv ==
  /\ \A c \in Calls : pc[c] = "balances" => venue[c] \in Venues
  /\ answer \in [Calls -> Answer]
  /\ ledger \in [Kept -> 0..MaxUnits] /\ held \in [Venues -> Account]
  /\ order \in [Venues -> BOOLEAN]
  /\ verdict \in [Venues -> Verdicts]
  /\ differed \in [Calls -> SUBSET Assets] /\ compared \in [Calls -> BOOLEAN]

(* Exactly the call between verdict and report holds the loop, the flag is *)
(* what its verdict asked for, and a report repeats its own status.        *)
FlagInv ==
  /\ \A c \in Calls : loop = c <=> pc[c] = "record"
  /\ \A c \in Calls : pc[c] = "record" => (blocked <=> status[c] # "BALANCED")
  /\ ReportMatchesStatus

(* While a call has not seen an asset differ, venue and ledger agree on it *)
(* and so does the listing it waits for; what it reports, it has seen.     *)
SeenInv ==
  \A c \in Calls :
    /\ pc[c] = "idle" => answer[c] = Pending
    /\ pc[c] = "balances" =>
         \A a \in Assets \ differed[c] :
           /\ held[venue[c]][a] = Local(a)
           /\ answer[c].kind = "listing" => answer[c].account[a] = Local(a)
    /\ found[c] \subseteq differed[c]

-----------------------------------------------------------------------------
(* Types.                                                                  *)

(* The platform starts with well-formed, unblocked state. *)
LEMMA InitTypes == Init => ShapeInv /\ BooksInv
<1> SUFFICES ASSUME Init PROVE ShapeInv /\ BooksInv
  OBVIOUS
<1>1. ShapeInv
  BY DEF Init, ShapeInv, PCs, Statuses
<1>2. held \in [Venues -> Account]
  BY DEF Init, Account
<1>3. answer \in [Calls -> Answer]
  BY DEF Init, Answer, Pending
<1> QED
  BY <1>1, <1>2, <1>3 DEF Init, BooksInv, Verdicts

(* What a verdict writes. *)
LEMMA ConcludeTypes ==
  ASSUME ShapeInv, BooksInv, NEW c \in Calls, pc[c] = "balances",
         NEW failed \in BOOLEAN, NEW off \in SUBSET Assets, Conclude(c, failed, off)
  PROVE  /\ loop' \in Calls \cup {NoCall} /\ pc' \in [Calls -> PCs]
         /\ found' \in [Calls -> SUBSET Assets] /\ status' \in [Calls -> Statuses]
         /\ blocked' \in BOOLEAN /\ verdict' \in [Venues -> Verdicts]
         /\ \A d \in Calls : pc'[d] = "balances" => pc[d] = "balances"
<1>1. Verdict(failed, off) \in Statuses /\ Verdict(failed, off) \in Verdicts
  BY DEF Verdict, Statuses, Verdicts
<1> QED
  BY <1>1 DEF Conclude, ShapeInv, BooksInv, PCs

(* The comparison ends in a verdict. *)
LEMMA CompareConcludes ==
  ASSUME NEW c \in Calls, Compare(c)
  PROVE  \E failed \in BOOLEAN : \E off \in {Off(answer[c]), {}} : Conclude(c, failed, off)
BY Zenon DEF Compare

LEMMA OffType == \A a : Off(a) \in SUBSET Assets
BY DEF Off

(* A step of a call keeps the types. *)
LEMMA StepTypes ==
  ASSUME ShapeInv, BooksInv, NEW c \in Calls, Step(c),
         differed' \in [Calls -> SUBSET Assets]
  PROVE  ShapeInv' /\ BooksInv'
<1> USE DEF bookVars, historyVars
<1>1. CASE VenueAnswers(c)
  <2>1. held[venue[c]] \in Account
    BY <1>1 DEF VenueAnswers, BooksInv
  <2>2. {[kind |-> "raised"], [kind |-> "empty"], Listing(held[venue[c]])} \subseteq Answer
    BY <2>1 DEF Answer, Listing
  <2>3. answer' \in [Calls -> Answer]
    BY <1>1, <2>2 DEF VenueAnswers, BooksInv
  <2> QED
    BY <1>1, <2>3 DEF VenueAnswers, ShapeInv, BooksInv
<1>2. CASE Compare(c)
  <2>1. PICK failed \in BOOLEAN, off \in SUBSET Assets : Conclude(c, failed, off)
    BY <1>2, CompareConcludes, OffType
  <2>2. pc[c] = "balances" /\ UNCHANGED <<venue, said, ledger, held, order>>
    BY <1>2 DEF Compare, Resumes
  <2>3. answer' \in [Calls -> Answer]
    BY <1>2 DEF Compare, BooksInv, Answer, Pending
  <2>4. compared' \in [Calls -> BOOLEAN]
    <3>1. PICK b \in BOOLEAN : compared' = [compared EXCEPT ![c] = b]
      BY <1>2, Zenon DEF Compare
    <3> QED
      BY <3>1 DEF BooksInv
  <2> QED
    BY <2>1, <2>2, <2>3, <2>4, ConcludeTypes DEF ShapeInv, BooksInv
<1>3. CASE Record(c)
  BY <1>3 DEF Record, ShapeInv, BooksInv, PCs
<1> QED
  BY <1>1, <1>2, <1>3 DEF Step

(* Every step does. *)
LEMMA NextTypes == ShapeInv /\ BooksInv /\ [Next]_vars => ShapeInv' /\ BooksInv'
<1> SUFFICES ASSUME ShapeInv, BooksInv, [Next]_vars PROVE ShapeInv' /\ BooksInv'
  OBVIOUS
<1>0. differed' \in [Calls -> SUBSET Assets]
  <2>1. CASE Watch
    <3>1. \A c \in Calls : Differing(venue[c])' \subseteq Assets
      BY DEF Differing
    <3>2. \A c \in Calls :
            differed[c] \cup (IF pc'[c] = "balances" THEN Differing(venue[c])' ELSE {})
              \in SUBSET Assets
      BY <3>1 DEF BooksInv
    <3> QED
      BY <2>1, <3>2 DEF Watch
  <2>2. CASE UNCHANGED vars
    BY <2>2 DEF vars, BooksInv
  <2> QED
    BY <2>1, <2>2 DEF Next
<1>1. ASSUME NEW c \in Calls, Step(c) PROVE ShapeInv' /\ BooksInv'
  BY <1>0, <1>1, StepTypes
<1> USE DEF callVars, bookVars, historyVars
<1>2. ASSUME NEW c \in Calls, NEW v \in Venues, Start(c, v) PROVE ShapeInv' /\ BooksInv'
  BY <1>0, <1>2 DEF Start, ShapeInv, BooksInv, PCs
<1>3. ASSUME NEW c \in Calls, NEW n \in Strangers, StartUnknown(c, n)
      PROVE  ShapeInv' /\ BooksInv'
  BY <1>0, <1>3 DEF StartUnknown, ShapeInv, BooksInv, PCs, Statuses
<1>4. ASSUME NEW v \in Venues, Send(v) \/ VenueExecutes(v) PROVE ShapeInv' /\ BooksInv'
  <2>1. CASE Send(v)
    BY <1>0, <2>1 DEF Send, ShapeInv, BooksInv
  <2>2. CASE VenueExecutes(v)
    <3>1. PICK a \in Account : held' = [held EXCEPT ![v] = a]
      BY <2>2 DEF VenueExecutes
    <3>2. held' \in [Venues -> Account]
      BY <3>1 DEF BooksInv
    <3>3. order' \in [Venues -> BOOLEAN]
      BY <2>2 DEF VenueExecutes, BooksInv
    <3> QED
      BY <1>0, <2>2, <3>2, <3>3 DEF VenueExecutes, ShapeInv, BooksInv
  <2> QED
    BY <1>4, <2>1, <2>2
<1>5. ASSUME NEW v \in Venues, Drift(v) PROVE ShapeInv' /\ BooksInv'
  <2>1. held' \in [Venues -> Account]
    <3>1. PICK a \in Assets, n \in 0..MaxUnits : held' = [held EXCEPT ![v][a] = n]
      BY <1>5 DEF Drift
    <3>2. [held[v] EXCEPT ![a] = n] \in Account
      BY DEF BooksInv, Account
    <3> QED
      BY <3>1, <3>2 DEF BooksInv
  <2> QED
    BY <1>0, <1>5, <2>1 DEF Drift, ShapeInv, BooksInv
<1>6. CASE Book
  BY <1>0, <1>6 DEF Book, ShapeInv, BooksInv
<1>7. CASE Restart
  BY <1>0, <1>7 DEF Restart, ShapeInv, BooksInv, PCs, Verdicts
<1>8. CASE UNCHANGED vars
  BY <1>8 DEF vars, ShapeInv, BooksInv
<1> QED
  BY <1>1, <1>2, <1>3, <1>4, <1>5, <1>6, <1>7, <1>8 DEF Next, Act

(* Every variable keeps its type, for any number of calls and venues. *)
THEOREM TypeCorrect == Spec => []TypeOK
<1>1. ShapeInv /\ BooksInv => TypeOK
  BY DEF ShapeInv, BooksInv, TypeOK, PCs, Statuses, Verdicts
<1> QED
  BY <1>1, InitTypes, NextTypes, PTL DEF Spec

-----------------------------------------------------------------------------
(* Verdict, flag and report.                                               *)

(* A step of a call keeps them in agreement: the call that set the flag is *)
(* alone until it has reported.                                            *)
LEMMA StepFlag ==
  ASSUME ShapeInv, FlagInv, NEW c \in Calls, Step(c) PROVE FlagInv'
<1> USE DEF ShapeInv, FlagInv, ReportMatchesStatus, bookVars, historyVars
<1>1. CASE VenueAnswers(c)
  BY <1>1 DEF VenueAnswers
<1>2. CASE Compare(c)
  <2>1. PICK failed, off : Conclude(c, failed, off)
    BY <1>2, CompareConcludes
  <2>2. loop = NoCall /\ pc[c] = "balances" /\ UNCHANGED said
    BY <1>2 DEF Compare, Resumes
  <2> QED
    BY <2>1, <2>2 DEF Conclude
<1>3. CASE Record(c)
  BY <1>3 DEF Record
<1> QED
  BY <1>1, <1>2, <1>3 DEF Step

(* Every step does. *)
LEMMA NextFlag == ShapeInv /\ FlagInv /\ [Next]_vars => FlagInv'
<1> SUFFICES ASSUME ShapeInv, FlagInv, [Next]_vars PROVE FlagInv'
  OBVIOUS
<1>1. ASSUME NEW c \in Calls, Step(c) PROVE FlagInv'
  BY <1>1, StepFlag
<1> USE DEF ShapeInv, FlagInv, ReportMatchesStatus, callVars, bookVars, historyVars
<1>2. ASSUME NEW c \in Calls, NEW v \in Venues, Start(c, v) PROVE FlagInv'
  BY <1>2 DEF Start
<1>3. ASSUME NEW c \in Calls, NEW n \in Strangers, StartUnknown(c, n) PROVE FlagInv'
  BY <1>3 DEF StartUnknown
<1>4. ASSUME NEW v \in Venues, Send(v) \/ VenueExecutes(v) \/ Drift(v) PROVE FlagInv'
  BY <1>4 DEF Send, VenueExecutes, Drift
<1>5. CASE Book
  BY <1>5 DEF Book
<1>6. CASE Restart
  BY <1>6 DEF Restart
<1>7. CASE UNCHANGED vars
  BY <1>7 DEF vars
<1> QED
  BY <1>1, <1>2, <1>3, <1>4, <1>5, <1>6, <1>7 DEF Next, Act

-----------------------------------------------------------------------------
(* What a call has seen.                                                   *)

(* A step changes the ledger or the venues' accounts, never both. *)
LEMMA OneSideMoves == [Next]_vars => UNCHANGED ledger \/ UNCHANGED held
BY DEF Next, Act, Step, VenueAnswers, Compare, Record, Start, StartUnknown, Send,
       VenueExecutes, Book, Drift, Restart, callVars, bookVars, historyVars, vars

(* What a step does to the answer and the findings of a call.              *)
Moves(c) ==
  /\ pc'[c] = "balances" /\ pc[c] = "balances" => venue'[c] = venue[c]
  /\ pc'[c] = "balances" =>
       \/ answer'[c] = answer[c] /\ pc[c] = "balances"
       \/ answer'[c].kind # "listing"
       \/ /\ pc[c] = "balances" /\ answer'[c] = Listing(held[venue[c]])
          /\ UNCHANGED <<held, ledger>>
  /\ pc'[c] = "idle" => pc[c] = "idle" /\ answer'[c] = answer[c]
  /\ \/ found'[c] = found[c]
     \/ pc[c] = "balances" /\ found'[c] \subseteq Off(answer[c])

LEMMA CallMoves ==
  ASSUME ShapeInv, BooksInv, SeenInv, [Next]_vars, NEW c \in Calls
  PROVE  Moves(c)
<1> USE DEF ShapeInv, callVars, bookVars, historyVars
<1>0. DOMAIN answer = Calls
  BY DEF BooksInv
<1>1. ASSUME NEW d \in Calls, VenueAnswers(d) PROVE Moves(c)
  <2>1. CASE d = c
    <3>1. PICK a \in {[kind |-> "raised"], [kind |-> "empty"], Listing(held[venue[c]])} :
            answer' = [answer EXCEPT ![c] = a]
      BY <1>1, <2>1 DEF VenueAnswers
    <3>2. answer'[c] = a
      BY <1>0, <3>1
    <3>3. a.kind # "listing" \/ a = Listing(held[venue[c]])
      OBVIOUS
    <3> QED
      BY <1>1, <2>1, <3>2, <3>3 DEF VenueAnswers, Moves
  <2>2. CASE d # c
    BY <1>1, <2>2, <1>0 DEF VenueAnswers, Moves
  <2> QED
    BY <2>1, <2>2
<1>2. ASSUME NEW d \in Calls, Compare(d) PROVE Moves(c)
  <2>1. PICK failed \in BOOLEAN, off \in {Off(answer[d]), {}} : Conclude(d, failed, off)
    BY <1>2, CompareConcludes
  <2>2. off \subseteq Off(answer[d])
    OBVIOUS
  <2>3. pc[d] = "balances" /\ UNCHANGED venue /\ answer' = [answer EXCEPT ![d] = Pending]
    BY <1>2 DEF Compare, Resumes
  <2>4. pc' = [pc EXCEPT ![d] = "record"] /\ found' = [found EXCEPT ![d] = off]
    BY <2>1 DEF Conclude
  <2>5. CASE d = c
    BY <2>2, <2>3, <2>4, <2>5 DEF Moves
  <2>6. CASE d # c
    BY <1>0, <2>3, <2>4, <2>6 DEF Moves
  <2> QED
    BY <2>5, <2>6
<1>3. ASSUME NEW d \in Calls, Record(d) PROVE Moves(c)
  BY <1>3 DEF Record, Moves
<1>4. ASSUME NEW d \in Calls, NEW v \in Venues, Start(d, v) PROVE Moves(c)
  <2>1. pc'[c] = "balances" /\ pc[c] # "balances" => answer'[c].kind # "listing"
    <3>1. pc'[c] = "balances" /\ pc[c] # "balances" => pc[c] = "idle" /\ answer'[c] = answer[c]
      BY <1>4 DEF Start
    <3> QED
      BY <3>1 DEF SeenInv, Pending
  <2> QED
    BY <1>4, <2>1 DEF Start, Moves
<1>5. ASSUME NEW d \in Calls, NEW n \in Strangers, StartUnknown(d, n) PROVE Moves(c)
  BY <1>5 DEF StartUnknown, Moves
<1>6. ASSUME NEW v \in Venues, Send(v) \/ VenueExecutes(v) \/ Drift(v) PROVE Moves(c)
  BY <1>6 DEF Send, VenueExecutes, Drift, Moves
<1>7. CASE Book
  BY <1>7 DEF Book, Moves
<1>8. CASE Restart
  BY <1>8 DEF Restart, Moves
<1>9. CASE UNCHANGED vars
  BY <1>9 DEF vars, Moves
<1> QED
  BY <1>1, <1>2, <1>3, <1>4, <1>5, <1>6, <1>7, <1>8, <1>9 DEF Next, Act, Step

(* A call that has not seen an asset differ has nothing against it. *)
LEMMA NextSeen == ShapeInv /\ BooksInv /\ SeenInv /\ [Next]_vars => SeenInv'
<1> SUFFICES ASSUME ShapeInv, BooksInv, SeenInv, [Next]_vars, NEW c \in Calls
             PROVE  /\ pc'[c] = "idle" => answer'[c] = Pending
                    /\ pc'[c] = "balances" =>
                         \A a \in Assets \ differed'[c] :
                           /\ held'[venue'[c]][a] = Local(a)'
                           /\ answer'[c].kind = "listing" => answer'[c].account[a] = Local(a)'
                    /\ found'[c] \subseteq differed'[c]
  BY DEF SeenInv, Pending
<1>0. Moves(c)
  BY CallMoves
<1>1. differed[c] \subseteq differed'[c]
  BY DEF Next, Watch, vars
<1>2. pc'[c] = "idle" => answer'[c] = Pending
  BY <1>0 DEF SeenInv, Moves
<1>3. pc'[c] = "balances" => \A a \in Assets \ differed'[c] : held'[venue'[c]][a] = Local(a)'
  <2>1. CASE Watch
    BY <2>1 DEF Watch, Differing
  <2>2. CASE UNCHANGED vars
    BY <2>2 DEF vars, callVars, bookVars, SeenInv, Local
  <2> QED
    BY <2>1, <2>2 DEF Next
<1>4. found'[c] \subseteq differed'[c]
  <2>1. pc[c] = "balances" => Off(answer[c]) \subseteq differed[c]
    BY DEF SeenInv, Off
  <2> QED
    BY <1>0, <1>1, <2>1 DEF SeenInv, Moves
<1>5. ASSUME pc'[c] = "balances", NEW a \in Assets \ differed'[c], answer'[c].kind = "listing"
      PROVE  answer'[c].account[a] = Local(a)'
  <2>0. a \in Assets \ differed[c]
    BY <1>1
  <2>1. CASE answer'[c] = answer[c] /\ pc[c] = "balances"
    <3>1. /\ held[venue[c]][a] = Local(a) /\ answer[c].account[a] = Local(a)
          /\ venue'[c] = venue[c]
      BY <2>0, <2>1, <1>0, <1>5 DEF SeenInv, Moves
    <3>2. Local(a)' = Local(a)
      <4>1. CASE UNCHANGED ledger
        BY <4>1 DEF Local
      <4>2. CASE UNCHANGED held
        BY <1>3, <1>5, <3>1, <4>2
      <4> QED
        BY <4>1, <4>2, OneSideMoves
    <3> QED
      BY <2>1, <3>1, <3>2
  <2>2. CASE /\ pc[c] = "balances" /\ answer'[c] = Listing(held[venue[c]])
             /\ UNCHANGED <<held, ledger>>
    BY <2>0, <2>2 DEF SeenInv, Listing, Local
  <2> QED
    BY <2>1, <2>2, <1>0, <1>5 DEF Moves
<1> QED
  BY <1>2, <1>3, <1>4, <1>5

-----------------------------------------------------------------------------
(* What every run of the platform keeps. *)
LEMMA AllHold == Spec => [](ShapeInv /\ BooksInv /\ FlagInv /\ SeenInv)
<1>1. Init => FlagInv /\ SeenInv
  BY DEF Init, FlagInv, ReportMatchesStatus, SeenInv
<1> QED
  BY <1>1, InitTypes, NextTypes, NextFlag, NextSeen, PTL DEF Spec

(* However many calls are under way, a report says of the gate what its    *)
(* own verdict asked for (reconciliation.py:136-169).                      *)
THEOREM ReportHolds == Spec => []ReportMatchesStatus
<1>1. FlagInv => ReportMatchesStatus
  BY DEF FlagInv
<1> QED
  BY <1>1, AllHold, PTL

(* Whatever the venues list and the ledger keeps, a call reports an asset  *)
(* only if it differed, or the venue had some that the ledger has no row   *)
(* for, while the call was under way (reconciliation.py:72-93).            *)
THEOREM DiscrepancyHolds == Spec => []DiscrepancyHasCause
<1>1. SeenInv => DiscrepancyHasCause
  BY DEF SeenInv, DiscrepancyHasCause
<1> QED
  BY <1>1, AllHold, PTL
=============================================================================
