----------------------------- MODULE AuditChain -----------------------------
(***************************************************************************)
(* AuditEngine: the hash-chained table audit_events, its two in-memory     *)
(* counters, and the verification of the table.                            *)
(*                                                                         *)
(* The process writes one row after another; an INSERT may fail after the  *)
(* counter was raised, and the process may die and start again.  Outside   *)
(* it, somebody edits or deletes rows.                                     *)
(***************************************************************************)
EXTENDS HashChain

CONSTANTS
  Events,      \* contents logged while the platform runs
  Startup,     \* the content of APPLICATION_STARTUP
  MaxSequence, \* number of sequence numbers given out (a bound of the model)
  MaxEdits     \* number of edits and deletions (a bound of the model)

ASSUME EventsAssumption == Startup \notin Events /\ MaxSequence \in Nat /\ MaxEdits \in Nat

VARIABLES
  up,          \* the process runs
  sequence,    \* AuditEngine._sequence
  lastHash,    \* AuditEngine._last_hash
  table,       \* audit_events, in the order of sequence_num
  written,     \* history: every row as it was inserted
  failed,      \* history: an INSERT has failed
  edits,       \* history: how often a row was edited or deleted from outside
  missing      \* history: numbers whose row was deleted and not written again

auditVars == <<up, sequence, lastHash, table, written, failed, edits, missing>>

Contents == Events \cup {Startup}
-----------------------------------------------------------------------------
AuditTypeOK ==
  /\ up \in BOOLEAN /\ failed \in BOOLEAN /\ edits \in 0..MaxEdits
  /\ sequence \in 0..MaxSequence
  /\ missing \subseteq 1..MaxSequence
  /\ \A i \in 1..Len(table) :
       /\ DOMAIN table[i] = {"num", "prev", "content", "hash"}
       /\ table[i].num \in 1..MaxSequence
       /\ table[i].content \in Contents
  /\ up => \A i \in 1..Len(table) : table[i].num <= sequence

AuditInit ==
  /\ up = FALSE /\ sequence = 0 /\ lastHash = Genesis /\ table = <<>>
  /\ written = {} /\ failed = FALSE /\ edits = 0 /\ missing = {}

(* log_event with the counter at n and the last hash at h. *)
Insert(n, h, c) ==
  /\ n < MaxSequence
  /\ sequence' = n + 1
  /\ table' = Append(table, Row(n + 1, h, c))
  /\ lastHash' = Hash(h, c)
  /\ written' = written \cup {Row(n + 1, h, c)}
  /\ missing' = missing \ {n + 1}

LogEvent(c) ==
  /\ up /\ Insert(sequence, lastHash, c)
  /\ UNCHANGED <<up, failed, edits>>

(* Slip: the hash advances although the row was not written. *)
LogEventFailsAhead ==
  /\ up /\ sequence < MaxSequence
  /\ sequence' = sequence + 1 /\ failed' = TRUE
  /\ \E c \in Events : lastHash' = Hash(lastHash, c)
  /\ UNCHANGED <<up, table, written, edits, missing>>

(* The INSERT raises; the number is used up, the hash is not.  The gate    *)
(* logs the exception and goes on.                                         *)
LogEventFails ==
  /\ up /\ sequence < MaxSequence
  /\ sequence' = sequence + 1 /\ failed' = TRUE
  /\ UNCHANGED <<up, lastHash, table, written, edits, missing>>

(* Slip: the rows are counted. *)
LastNumberByCount == Len(table)

(* Slip: the number is taken from before the last row. *)
LastNumberOffByOne == IF Len(table) < 2 THEN 0 ELSE Last(table).num - 1

(* _init_state. *)
LastNumber == IF table = <<>> THEN 0 ELSE Last(table).num

(* startup_event: _init_state and the first event; if that fails the       *)
(* process does not come up, and nothing is left of the attempt.           *)
Start ==
  /\ ~up /\ up' = TRUE
  /\ Insert(LastNumber, HeadHash(table), Startup)
  /\ UNCHANGED <<failed, edits>>

Stop ==
  /\ up /\ up' = FALSE
  /\ UNCHANGED <<sequence, lastHash, table, written, failed, edits, missing>>

-----------------------------------------------------------------------------
(* From outside.                                                           *)

(* A row's content is changed, and its hash is not. *)
Edit(i, c) ==
  /\ edits < MaxEdits /\ c # table[i].content
  /\ table' = [table EXCEPT ![i].content = c]
  /\ edits' = edits + 1
  /\ UNCHANGED <<up, sequence, lastHash, written, failed, missing>>

Delete(i) ==
  /\ edits < MaxEdits
  /\ table' = RemoveAt(table, i)
  /\ missing' = missing \cup {table[i].num}
  /\ edits' = edits + 1
  /\ UNCHANGED <<up, sequence, lastHash, written, failed>>

AuditNext ==
  \/ \E c \in Events : LogEvent(c)
  \/ LogEventFails
  \/ Start
  \/ Stop
  \/ \E i \in 1..Len(table) : Delete(i) \/ \E c \in Contents : Edit(i, c)

-----------------------------------------------------------------------------
(* Whatever fails and restarts, the rows the process writes are one chain  *)
(* with rising numbers: each names the hash of the row before it.          *)
LinksUnbroken ==
  edits = 0 => \A i \in 1..Len(table) :
               /\ table[i].prev = Before(table, i)
               /\ table[i].hash = Hash(table[i].prev, table[i].content)
               /\ i > 1 => table[i - 1].num < table[i].num

(* A chain that does not verify was edits, or lost an event: a restart    *)
(* alone never breaks it.                                                  *)
BreakHasCause == ~Verifies(table) => edits > 0 \/ failed

(* Both: what there is of a chain, as long as nobody but the process wrote.*)
ChainUnbroken == LinksUnbroken /\ BreakHasCause

(* An edit is seen as long as the edited row is there: in a table that     *)
(* verifies, every row is exactly as it was written, restarts and later    *)
(* rows notwithstanding.                                                   *)
EditIsSeen == Verifies(table) => \A i \in 1..Len(table) : table[i] \in written

(* A deleted row is missed as long as a later row is there. *)
HoleIsSeen ==
  (\E m \in missing, i \in 1..Len(table) : table[i].num > m) => ~Verifies(table)

(* Both: what the verification of the table tells. *)
TamperingIsSeen == EditIsSeen /\ HoleIsSeen

(* A start from a table that verifies leaves one that verifies. *)
StartExtendsChain == [][~up /\ up' /\ Verifies(table) => Verifies(table')]_auditVars
=============================================================================
