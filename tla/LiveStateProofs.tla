-------------------------- MODULE LiveStateProofs ---------------------------
(***************************************************************************)
(* Proofs about LiveState, for any sets and bounds: the audit table, the   *)
(* raw message file, the portfolio and the order flow.  No step writes to  *)
(* two of them, so each has an invariant of its own.                       *)
(***************************************************************************)
EXTENDS LiveState, SumTheorems, SequenceTheorems

-----------------------------------------------------------------------------
(* The audit table.                                                        *)

(* The table is a sequence of rows whose numbers rise. *)
TableInv ==
  /\ \E S : table \in Seq(S)
  /\ \A i \in 1..Len(table) :
       table[i].num \in 1..MaxSequence /\ table[i].content \in Contents
  /\ \A i, j \in 1..Len(table) : i < j => table[i].num < table[j].num

(* The counters are at or past the last row; edits are counted. *)
CounterInv ==
  /\ up \in BOOLEAN /\ failed \in BOOLEAN /\ edits \in 0..MaxEdits
  /\ sequence \in 0..MaxSequence
  /\ up => \A i \in 1..Len(table) : table[i].num <= sequence

(* Every row is one that was written, but for its content. *)
OriginInv ==
  /\ \A w \in written : w = Row(w.num, w.prev, w.content)
  /\ \A i \in 1..Len(table) : \E w \in written :
       table[i] = [num |-> w.num, prev |-> w.prev, content |-> table[i].content, hash |-> w.hash]

(* A number is missing only while no row has it. *)
MissingInv ==
  /\ missing \subseteq 1..MaxSequence
  /\ \A m \in missing : \A i \in 1..Len(table) : table[i].num # m

(* Untouched, the rows are one chain, and the process holds its end. *)
ChainInv ==
  edits = 0 =>
    /\ \A i \in 1..Len(table) :
         /\ table[i].prev = Before(table, i)
         /\ table[i].hash = Hash(table[i].prev, table[i].content)
    /\ up => lastHash = HeadHash(table)

(* Untouched and without failures, the numbers are the positions. *)
NumberInv ==
  edits = 0 /\ ~failed =>
    /\ \A i \in 1..Len(table) : table[i].num = i
    /\ up => sequence = Len(table)

AuditInv == TableInv /\ CounterInv /\ OriginInv /\ MissingInv /\ ChainInv /\ NumberInv

-----------------------------------------------------------------------------
(* A row is added at the end and the rest stays. *)
LEMMA Appended ==
  ASSUME NEW S, NEW t \in Seq(S), NEW r
  PROVE  /\ Append(t, r) \in Seq(S \cup {r})
         /\ Len(t) \in Nat /\ Len(Append(t, r)) = Len(t) + 1
         /\ \A i \in 1..Len(t) : Append(t, r)[i] = t[i]
         /\ Append(t, r)[Len(t) + 1] = r
<1>1. t \in Seq(S \cup {r})
  BY SeqDef
<1> QED
  BY <1>1, AppendProperties, LenProperties

(* A row is taken out and the later ones move up. *)
LEMMA Removed ==
  ASSUME NEW S, NEW t \in Seq(S), NEW i \in 1..Len(t)
  PROVE  /\ RemoveAt(t, i) \in Seq(S)
         /\ Len(t) \in Nat /\ Len(RemoveAt(t, i)) = Len(t) - 1
         /\ \A j \in 1..(Len(t) - 1) : RemoveAt(t, i)[j] = t[IF j < i THEN j ELSE j + 1]
<1>1. Len(t) \in Nat
  BY LenProperties
<1>2. /\ SubSeq(t, 1, i - 1) \in Seq(S) /\ Len(SubSeq(t, 1, i - 1)) = i - 1
      /\ \A j \in 1..(i - 1) : SubSeq(t, 1, i - 1)[j] = t[j]
  BY <1>1
<1>3. /\ SubSeq(t, i + 1, Len(t)) \in Seq(S) /\ Len(SubSeq(t, i + 1, Len(t))) = Len(t) - i
      /\ \A j \in 1..(Len(t) - i) : SubSeq(t, i + 1, Len(t))[j] = t[i + j]
  BY <1>1
<1> DEFINE a == SubSeq(t, 1, i - 1)
           b == SubSeq(t, i + 1, Len(t))
<1>4. /\ a \o b \in Seq(S) /\ Len(a \o b) = Len(a) + Len(b)
      /\ \A j \in 1..(Len(a) + Len(b)) :
           (a \o b)[j] = IF j <= Len(a) THEN a[j] ELSE b[j - Len(a)]
  BY <1>2, <1>3, ConcatProperties
<1>5. RemoveAt(t, i) = a \o b
  BY DEF RemoveAt
<1>6. Len(a) = i - 1 /\ Len(b) = Len(t) - i /\ i \in Nat /\ i >= 1 /\ i <= Len(t)
  BY <1>1, <1>2, <1>3
<1> HIDE DEF a, b
<1>7. ASSUME NEW j \in 1..(Len(t) - 1) PROVE (a \o b)[j] = t[IF j < i THEN j ELSE j + 1]
  <2>1. (a \o b)[j] = IF j <= Len(a) THEN a[j] ELSE b[j - Len(a)]
    BY <1>1, <1>4, <1>6
  <2>2. CASE j < i
    BY <2>1, <2>2, <1>1, <1>2, <1>6 DEF a
  <2>3. CASE ~(j < i)
    BY <2>1, <2>3, <1>1, <1>3, <1>6 DEF b
  <2> QED
    BY <2>2, <2>3
<1>8. Len(a \o b) = Len(t) - 1
  BY <1>1, <1>4, <1>6
<1>9. a \o b \in Seq(S)
  BY <1>4
<1> HIDE DEF a, b
<1> QED
  BY <1>1, <1>5, <1>7, <1>8, <1>9, Zenon

-----------------------------------------------------------------------------
(* The table starts empty. *)
LEMMA InitAudit == AuditInit => AuditInv
<1> SUFFICES ASSUME AuditInit PROVE AuditInv
  OBVIOUS
<1>1. table = <<>> /\ Len(table) = 0 /\ table \in Seq({}) /\ 1..Len(table) = {}
  BY EmptySeq DEF AuditInit
<1>2. HeadHash(table) = Genesis
  BY <1>1 DEF HeadHash, Before
<1>3. TableInv
  BY <1>1 DEF TableInv
<1>4. CounterInv
  <2>1. up = FALSE /\ failed = FALSE
    BY DEF AuditInit
  <2>2. edits \in 0..MaxEdits /\ sequence \in 0..MaxSequence
    BY EventsAssumption DEF AuditInit
  <2> QED
    BY <2>1, <2>2, Zenon DEF CounterInv
<1>5. OriginInv /\ MissingInv
  BY <1>1 DEF AuditInit, OriginInv, MissingInv
<1>6. ChainInv /\ NumberInv
  BY <1>1, <1>2 DEF AuditInit, ChainInv, NumberInv
<1> QED
  BY <1>3, <1>4, <1>5, <1>6 DEF AuditInv

(* Appending the row for the number after n to the hash h, where n is at   *)
(* or past every number in the table.                                      *)
LEMMA InsertKeeps ==
  ASSUME AuditInv, NEW n \in 0..MaxSequence, NEW h, NEW c \in Contents, Insert(n, h, c),
         \A i \in 1..Len(table) : table[i].num <= n,
         edits = 0 => h = HeadHash(table),
         edits = 0 /\ ~failed => n = Len(table),
         up' = TRUE, UNCHANGED <<failed, edits>>
  PROVE  AuditInv'
<1> DEFINE r == Row(n + 1, h, c)
           k == Len(table)
<1>1. PICK S : table \in Seq(S)
  BY DEF AuditInv, TableInv
<1>2. /\ table' = Append(table, r) /\ table' \in Seq(S \cup {r})
      /\ k \in Nat /\ Len(table') = k + 1
      /\ \A i \in 1..k : table'[i] = table[i]
      /\ table'[k + 1] = r
  BY <1>1, Appended DEF Insert
<1>3. r.num = n + 1 /\ r.prev = h /\ r.content = c /\ r.hash = Hash(h, c)
  BY DEF Row
<1>4. /\ n + 1 \in 1..MaxSequence /\ sequence' = n + 1 /\ lastHash' = Hash(h, c)
      /\ written' = written \cup {r} /\ missing' = missing \ {n + 1}
  BY EventsAssumption DEF Insert
<1> HIDE DEF r
<1>5. ASSUME NEW i \in 1..(k + 1)
      PROVE  \/ i \in 1..k /\ table'[i] = table[i]
             \/ i = k + 1 /\ table'[i] = r
  BY <1>2
<1>6. TableInv'
  <2>1. \E T : table' \in Seq(T)
    BY <1>2
  <2>2. \A i \in 1..(k + 1) : table'[i].num \in 1..MaxSequence /\ table'[i].content \in Contents
    BY <1>3, <1>4, <1>5 DEF AuditInv, TableInv
  <2>3. \A i, j \in 1..(k + 1) : i < j => table'[i].num < table'[j].num
    BY <1>2, <1>3, <1>5 DEF AuditInv, TableInv
  <2> QED
    BY <2>1, <2>2, <2>3, <1>2 DEF TableInv
<1>7. CounterInv'
  BY <1>2, <1>3, <1>4, <1>5 DEF AuditInv, TableInv, CounterInv
<1>8. OriginInv'
  <2>1. r = Row(r.num, r.prev, r.content)
    BY DEF r, Row
  <2>2. r = [num |-> r.num, prev |-> r.prev, content |-> r.content, hash |-> r.hash]
    BY DEF r, Row
  <2>3. \A w \in written' : w = Row(w.num, w.prev, w.content)
    BY <2>1, <1>4 DEF AuditInv, OriginInv
  <2>4. ASSUME NEW i \in 1..k
        PROVE  \E w \in written' :
                 table'[i] = [num |-> w.num, prev |-> w.prev, content |-> table'[i].content,
                              hash |-> w.hash]
    <3>1. table'[i] = table[i] /\ written \subseteq written'
      BY <1>2, <1>4
    <3> QED
      BY <3>1 DEF AuditInv, OriginInv
  <2>5. r \in written' /\ table'[k + 1] = r
    BY <1>2, <1>4
  <2>6. ASSUME NEW i \in 1..(k + 1)
        PROVE  \E w \in written' :
                 table'[i] = [num |-> w.num, prev |-> w.prev, content |-> table'[i].content,
                              hash |-> w.hash]
    <3>1. CASE i \in 1..k
      BY <2>4, <3>1
    <3>2. CASE i = k + 1
      BY <2>2, <2>5, <3>2
    <3> QED
      BY <1>5, <3>1, <3>2
  <2>7. Len(table') = k + 1
    BY <1>2
  <2> QED
    BY <2>3, <2>6, <2>7 DEF OriginInv
<1>9. MissingInv'
  BY <1>2, <1>3, <1>4, <1>5 DEF AuditInv, MissingInv
<1>10. \A i \in 1..(k + 1) : Before(table', i) = Before(table, i)
  BY <1>2 DEF Before
<1>11. ChainInv'
  <2> SUFFICES ASSUME edits = 0 PROVE ChainInv'
    BY DEF ChainInv
  <2>1. h = Before(table, k + 1)
    BY DEF HeadHash
  <2>2. Before(table', Len(table') + 1) = r.hash
    BY <1>2 DEF Before
  <2> QED
    BY <2>1, <2>2, <1>2, <1>3, <1>4, <1>5, <1>10 DEF AuditInv, ChainInv, HeadHash
<1>12. NumberInv'
  BY <1>2, <1>3, <1>4, <1>5 DEF AuditInv, NumberInv
<1> QED
  BY <1>6, <1>7, <1>8, <1>9, <1>11, <1>12 DEF AuditInv

(* An edit leaves every number and hash. *)
LEMMA EditKeeps ==
  ASSUME AuditInv, NEW i \in 1..Len(table), NEW c \in Contents, Edit(i, c) PROVE AuditInv'
<1>1. PICK S : table \in Seq(S)
  BY DEF AuditInv, TableInv
<1> DEFINE r == [table[i] EXCEPT !.content = c]
<1>2. table' = [table EXCEPT ![i] = r]
  BY DEF Edit
<1>3. /\ table' \in Seq(S \cup {r}) /\ Len(table') = Len(table) /\ Len(table) \in Nat
      /\ \A j \in 1..Len(table) : table'[j] = IF j = i THEN r ELSE table[j]
  <2>1. table \in Seq(S \cup {r})
    BY <1>1, SeqDef
  <2> QED
    BY <2>1, <1>2, ExceptSeq, LenProperties
<1>4. PICK w \in written :
        table[i] = [num |-> w.num, prev |-> w.prev, content |-> table[i].content, hash |-> w.hash]
  BY DEF AuditInv, OriginInv
<1>5. r = [num |-> w.num, prev |-> w.prev, content |-> c, hash |-> w.hash]
  BY <1>4
<1>6. r.num = table[i].num /\ r.content = c /\ r.prev = table[i].prev /\ r.hash = table[i].hash
  BY <1>4, <1>5
<1> HIDE DEF r
<1>7. edits' = edits + 1 /\ edits < MaxEdits
      /\ UNCHANGED <<up, sequence, lastHash, written, failed, missing>>
  BY DEF Edit
<1>8. edits' # 0 /\ edits' \in 0..MaxEdits
  BY <1>7, EventsAssumption DEF AuditInv, CounterInv
<1>9. TableInv'
  BY <1>3, <1>6 DEF AuditInv, TableInv
<1>10. OriginInv'
  <2>1. \A v \in written' : v = Row(v.num, v.prev, v.content)
    BY <1>7 DEF AuditInv, OriginInv
  <2>2. ASSUME NEW j \in 1..Len(table)
        PROVE  \E v \in written' :
                 table'[j] = [num |-> v.num, prev |-> v.prev, content |-> table'[j].content,
                              hash |-> v.hash]
    <3>1. CASE j = i
      BY <1>3, <1>5, <1>6, <1>7, <3>1
    <3>2. CASE j # i
      BY <1>3, <1>7, <3>2 DEF AuditInv, OriginInv
    <3> QED
      BY <3>1, <3>2
  <2> QED
    BY <1>3, <2>1, <2>2 DEF OriginInv
<1>11. CounterInv' /\ MissingInv'
  BY <1>3, <1>6, <1>7, <1>8 DEF AuditInv, CounterInv, MissingInv
<1> QED
  BY <1>8, <1>9, <1>10, <1>11 DEF AuditInv, ChainInv, NumberInv

(* A deletion leaves the order of the numbers. *)
LEMMA DeleteKeeps == ASSUME AuditInv, NEW i \in 1..Len(table), Delete(i) PROVE AuditInv'
<1>1. PICK S : table \in Seq(S)
  BY DEF AuditInv, TableInv
<1> DEFINE k == Len(table) - 1
           p(j) == IF j < i THEN j ELSE j + 1
<1>2. /\ table' \in Seq(S) /\ Len(table) \in Nat /\ Len(table') = k
      /\ \A j \in 1..k : table'[j] = table[p(j)]
  BY <1>1, Removed DEF Delete
<1>3. \A j \in 1..k : p(j) \in 1..Len(table) /\ p(j) # i
  BY <1>2
<1>4. \A j, l \in 1..k : j < l => p(j) < p(l)
  BY <1>2
<1>5. /\ edits' = edits + 1 /\ edits < MaxEdits /\ missing' = missing \cup {table[i].num}
      /\ UNCHANGED <<up, sequence, lastHash, written, failed>>
  BY DEF Delete
<1>6. edits' # 0 /\ edits' \in 0..MaxEdits
  BY <1>5, EventsAssumption DEF AuditInv, CounterInv
<1> HIDE DEF p
<1>7. TableInv'
  BY <1>2, <1>3, <1>4 DEF AuditInv, TableInv
<1>8. OriginInv'
  BY <1>2, <1>3, <1>5 DEF AuditInv, OriginInv
<1>9. MissingInv'
  <2>1. \A j \in 1..Len(table) : j # i => table[j].num # table[i].num
    BY <1>2 DEF AuditInv, TableInv
  <2> QED
    BY <2>1, <1>2, <1>3, <1>5 DEF AuditInv, MissingInv, TableInv
<1>10. CounterInv'
  BY <1>2, <1>3, <1>5, <1>6 DEF AuditInv, CounterInv
<1> QED
  BY <1>6, <1>7, <1>8, <1>9, <1>10 DEF AuditInv, ChainInv, NumberInv

(* Every step keeps the invariant. *)
LEMMA AuditSteps == AuditInv /\ [AuditNext]_auditVars => AuditInv'
<1> SUFFICES ASSUME AuditInv, [AuditNext]_auditVars PROVE AuditInv'
  OBVIOUS
<1>1. ASSUME NEW c \in Events, LogEvent(c) PROVE AuditInv'
  <2>1. /\ Insert(sequence, lastHash, c) /\ up' = TRUE /\ UNCHANGED <<failed, edits>>
        /\ c \in Contents /\ up
    BY <1>1 DEF LogEvent, Contents, AuditInv, CounterInv
  <2> QED
    BY <2>1, InsertKeeps DEF AuditInv, CounterInv, ChainInv, NumberInv
<1>2. CASE Start
  <2>1. /\ Insert(LastNumber, HeadHash(table), Startup) /\ up' = TRUE
        /\ UNCHANGED <<failed, edits>> /\ Startup \in Contents
    BY <1>2 DEF Start, Contents
  <2>2. PICK S : table \in Seq(S)
    BY DEF AuditInv, TableInv
  <2>3. Len(table) \in Nat /\ (table = <<>> <=> Len(table) = 0)
    BY <2>2, EmptySeq, LenProperties
  <2>4. /\ LastNumber \in 0..MaxSequence
        /\ \A i \in 1..Len(table) : table[i].num <= LastNumber
    BY <2>3, EventsAssumption DEF LastNumber, Last, AuditInv, TableInv
  <2>5. edits = 0 /\ ~failed => LastNumber = Len(table)
    BY <2>3 DEF LastNumber, Last, AuditInv, NumberInv
  <2> QED
    BY <2>1, <2>4, <2>5, InsertKeeps
<1>3. CASE LogEventFails
  <2>1. /\ sequence < MaxSequence /\ sequence' = sequence + 1 /\ failed' = TRUE /\ up
        /\ UNCHANGED <<up, lastHash, table, written, edits, missing>>
    BY <1>3 DEF LogEventFails
  <2>2. CounterInv'
    <3>1. sequence' \in 0..MaxSequence /\ \A i \in 1..Len(table) : table[i].num <= sequence'
      BY <2>1, EventsAssumption DEF AuditInv, TableInv, CounterInv
    <3>2. edits' \in 0..MaxEdits /\ up' \in BOOLEAN /\ failed' \in BOOLEAN
      BY <2>1 DEF AuditInv, CounterInv
    <3> QED
      BY <2>1, <3>1, <3>2 DEF CounterInv
  <2>3. TableInv' /\ OriginInv' /\ MissingInv'
    BY <2>1 DEF AuditInv, TableInv, OriginInv, MissingInv
  <2>4. ChainInv' /\ NumberInv'
    BY <2>1 DEF AuditInv, ChainInv, NumberInv, Before, HeadHash
  <2> QED
    BY <2>2, <2>3, <2>4 DEF AuditInv
<1>4. CASE Stop
  BY <1>4 DEF Stop, AuditInv, TableInv, CounterInv, OriginInv, MissingInv, ChainInv, NumberInv, Before
<1>5. CASE UNCHANGED auditVars
  BY <1>5 DEF auditVars, AuditInv, TableInv, CounterInv, OriginInv, MissingInv, ChainInv, NumberInv,
              Before, HeadHash
<1> QED
  BY <1>1, <1>2, <1>3, <1>4, <1>5, EditKeeps, DeleteKeeps DEF AuditNext

LEMMA AuditPart == Spec => AuditInit /\ [][AuditNext]_auditVars
<1>1. Init => AuditInit
  BY DEF Init
<1>2. [Next]_vars => [AuditNext]_auditVars
  BY DEF Next, vars
<1> QED
  BY <1>1, <1>2, PTL DEF Spec

LEMMA AuditAlways == Spec => []AuditInv
<1>1. AuditInit => AuditInv
  BY InitAudit
<1>2. AuditInv /\ [AuditNext]_auditVars => AuditInv'
  BY AuditSteps
<1> QED
  BY <1>1, <1>2, AuditPart, PTL

-----------------------------------------------------------------------------
LEMMA AuditTyped == Spec => []AuditTypeOK
<1>1. AuditInv => AuditTypeOK
  <2> SUFFICES ASSUME AuditInv PROVE AuditTypeOK
    OBVIOUS
  <2>1. ASSUME NEW i \in 1..Len(table) PROVE DOMAIN table[i] = {"num", "prev", "content", "hash"}
    <3>1. PICK w \in written :
            table[i] = [num |-> w.num, prev |-> w.prev, content |-> table[i].content, hash |-> w.hash]
      BY DEF AuditInv, OriginInv
    <3>2. \A n, q, c, h : DOMAIN [num |-> n, prev |-> q, content |-> c, hash |-> h]
                           = {"num", "prev", "content", "hash"}
      OBVIOUS
    <3> QED
      BY <3>1, <3>2
  <2> QED
    BY <2>1 DEF AuditInv, TableInv, CounterInv, MissingInv, AuditTypeOK
<1> QED
  BY <1>1, AuditAlways, PTL

(* Untouched from outside, the rows are one chain, whatever failed and     *)
(* however often the platform restarted (audit_engine.py:67-136).          *)
THEOREM LinksHold == Spec => []LinksUnbroken
<1>1. AuditInv => LinksUnbroken
  <2> SUFFICES ASSUME AuditInv, edits = 0, NEW i \in 1..Len(table), i > 1
               PROVE  table[i - 1].num < table[i].num
    BY DEF AuditInv, ChainInv, LinksUnbroken
  <2>1. i - 1 \in 1..Len(table) /\ i - 1 < i
    OBVIOUS
  <2> QED
    BY <2>1 DEF AuditInv, TableInv
<1> QED
  BY <1>1, AuditAlways, PTL

(* Without an edit or a lost event the chain verifies                      *)
(* (audit_engine.py:194-228).                                              *)
THEOREM BreakHolds == Spec => []BreakHasCause
<1>1. AuditInv => BreakHasCause
  <2> SUFFICES ASSUME AuditInv, edits = 0, ~failed, NEW i \in 1..Len(table) PROVE Holds(table, i)
    BY DEF BreakHasCause, Verifies, AuditInv, CounterInv
  <2> QED
    BY DEF AuditInv, ChainInv, NumberInv, Holds
<1> QED
  BY <1>1, AuditAlways, PTL

(* Both together, as the runs check it (audit_engine.py:67-136, 194-228).  *)
THEOREM ChainHolds == Spec => []ChainUnbroken
BY LinksHold, BreakHolds, PTL DEF ChainUnbroken

(* In a table that verifies, every row is as it was written                *)
(* (audit_engine.py:209-226).                                              *)
THEOREM EditHolds == Spec => []EditIsSeen
<1>1. AuditInv => EditIsSeen
  <2> SUFFICES ASSUME AuditInv, Verifies(table), NEW i \in 1..Len(table) PROVE table[i] \in written
    BY DEF EditIsSeen
  <2>1. PICK w \in written :
          table[i] = [num |-> w.num, prev |-> w.prev, content |-> table[i].content, hash |-> w.hash]
    BY DEF AuditInv, OriginInv
  <2>2. w = Row(w.num, w.prev, w.content)
    BY DEF AuditInv, OriginInv
  <2>3. table[i].hash = Hash(table[i].prev, table[i].content)
    BY DEF Verifies, Holds
  <2>4. w.hash = Hash(w.prev, w.content) /\ w.hash = Hash(w.prev, table[i].content)
    BY <2>1, <2>2, <2>3 DEF Row
  <2>5. w.content = table[i].content
    BY <2>4 DEF Hash
  <2>6. w = [num |-> w.num, prev |-> w.prev, content |-> w.content, hash |-> w.hash]
    BY <2>2, <2>4 DEF Row
  <2> QED
    BY <2>1, <2>5, <2>6
<1> QED
  BY <1>1, AuditAlways, PTL

(* A deleted row is missed while a later one is there                      *)
(* (audit_engine.py:203).                                                  *)
THEOREM HoleHolds == Spec => []HoleIsSeen
<1>1. AuditInv => HoleIsSeen
  <2> SUFFICES ASSUME AuditInv, NEW m \in missing, NEW i \in 1..Len(table), table[i].num > m,
                      Verifies(table)
               PROVE  FALSE
    BY DEF HoleIsSeen
  <2>1. table[i].num = i /\ m \in Nat /\ m >= 1
    BY DEF Verifies, Holds, AuditInv, MissingInv
  <2>2. m \in 1..Len(table)
    BY <2>1
  <2>3. table[m].num = m
    BY <2>2 DEF Verifies, Holds
  <2> QED
    BY <2>2, <2>3 DEF AuditInv, MissingInv
<1> QED
  BY <1>1, AuditAlways, PTL

(* Both together, as the runs check it (audit_engine.py:194-228).          *)
THEOREM TamperingHolds == Spec => []TamperingIsSeen
BY EditHolds, HoleHolds, PTL DEF TamperingIsSeen

(* A start from a table that verifies leaves one that verifies             *)
(* (main.py:90-97, audit_engine.py:67-74).                                 *)
THEOREM StartHolds == Spec => StartExtendsChain
<1> DEFINE Extends == ~up /\ up' /\ Verifies(table) => Verifies(table')
<1>1. AuditInv /\ [AuditNext]_auditVars => [Extends]_auditVars
  <2> SUFFICES ASSUME AuditInv, AuditNext, ~up, up', Verifies(table) PROVE Verifies(table')
    BY DEF Extends
  <2>1. Start
    BY DEF AuditNext, LogEvent, LogEventFails, Stop, Edit, Delete
  <2> DEFINE r == Row(LastNumber + 1, HeadHash(table), Startup)
             k == Len(table)
  <2>2. PICK S : table \in Seq(S)
    BY DEF AuditInv, TableInv
  <2>3. /\ k \in Nat /\ Len(table') = k + 1 /\ table'[k + 1] = r
        /\ \A i \in 1..k : table'[i] = table[i]
    BY <2>1, <2>2, Appended DEF Start, Insert
  <2>4. LastNumber = k
    <3>1. table = <<>> <=> k = 0
      BY <2>2, <2>3, EmptySeq
    <3> QED
      BY <3>1, <2>3 DEF LastNumber, Last, Verifies, Holds
  <2>5. \A i \in 1..(k + 1) : Before(table', i) = Before(table, i)
    BY <2>3 DEF Before
  <2>6. r.num = k + 1 /\ r.prev = Before(table, k + 1) /\ r.hash = Hash(Before(table, k + 1), r.content)
    BY <2>4 DEF Row, HeadHash
  <2> HIDE DEF r
  <2>7. ASSUME NEW i \in 1..(k + 1) PROVE Holds(table', i)
    <3>1. CASE i \in 1..k
      BY <3>1, <2>3, <2>5 DEF Verifies, Holds
    <3>2. CASE i = k + 1
      BY <3>2, <2>3, <2>5, <2>6 DEF Holds
    <3> QED
      BY <3>1, <3>2, <2>3
  <2> QED
    BY <2>3, <2>7 DEF Verifies
<1>2. Spec => [][Extends]_auditVars
  BY <1>1, AuditPart, AuditAlways, PTL
<1> QED
  BY <1>2 DEF StartExtendsChain, Extends

-----------------------------------------------------------------------------
(* The lines of a raw message file.                                        *)

LineFold == INSTANCE FoldTheorems WITH Op <- Split

Bytes(R) == R \X {"head", "tail", "newline"}
NoLines == [whole |-> <<>>, open |-> <<>>]
Splits(R) == [whole : Seq(Seq(Bytes(R)) \ {<<>>}), open : Seq(Bytes(R))]

LEMMA SplitUpIs ==
  ASSUME NEW t
  PROVE  SplitUp(t) = LineFold!Folded(NoLines, t)
BY Zenon DEF SplitUp, NoLines, LineFold!Folded, FoldLeft, LineFold!FoldLeft, MapThenFoldSet,
       LineFold!MapThenFoldSet, Max, LineFold!Max

LEMMA SplitNone == SplitUp(<<>>) = NoLines
BY SplitUpIs, LineFold!FoldOfNone

LEMMA SplitMore ==
  ASSUME NEW R, NEW t \in Seq(Bytes(R)), NEW c \in Bytes(R)
  PROVE  SplitUp(Append(t, c)) = Split(SplitUp(t), c)
<1> DEFINE B == Bytes(R)
<1> HIDE DEF B
<1>1. t \in Seq(B) /\ c \in B
  BY DEF B
<1>2. LineFold!Folded(NoLines, Append(t, c)) = Split(LineFold!Folded(NoLines, t), c)
  BY <1>1, LineFold!FoldOfMore
<1> QED
  BY <1>2, SplitUpIs

LEMMA SplitStaysIn ==
  ASSUME NEW R, NEW x \in Splits(R), NEW c \in Bytes(R)
  PROVE  Split(x, c) \in Splits(R)
<1>1. x.whole \in Seq(Seq(Bytes(R)) \ {<<>>}) /\ x.open \in Seq(Bytes(R))
  BY DEF Splits
<1>2. Append(x.open, c) \in Seq(Bytes(R)) /\ <<>> \in Seq(Bytes(R))
  BY <1>1
<1>3. x.open # <<>> => Append(x.whole, x.open) \in Seq(Seq(Bytes(R)) \ {<<>>})
  BY <1>1
<1> HIDE DEF Bytes
<1> QED
  BY <1>1, <1>2, <1>3 DEF Split, Splits

LEMMA SplitIn ==
  ASSUME NEW R, NEW t \in Seq(Bytes(R))
  PROVE  SplitUp(t) \in Splits(R)
<1> DEFINE B == Bytes(R)
           V == Splits(R)
<1>1. \A x \in V, c \in B : Split(x, c) \in V
  BY SplitStaysIn
<1>2. NoLines \in V
  BY DEF NoLines, Splits
<1>3. t \in Seq(B)
  OBVIOUS
<1> HIDE DEF B, V
<1>4. LineFold!Folded(NoLines, t) \in V
  BY <1>1, <1>2, <1>3, LineFold!FoldStaysIn
<1> QED
  BY <1>4, SplitUpIs DEF V

(* A line that is whole stays as it is.                                    *)
Extends(s, t) == Len(t) <= Len(s) /\ \A i \in 1..Len(t) : s[i] = t[i]

LEMMA SplitExtends ==
  ASSUME NEW R, NEW t \in Seq(Bytes(R)), NEW u \in Seq(Bytes(R))
  PROVE  Extends(SplitUp(t \o u).whole, SplitUp(t).whole)
<1> DEFINE B == Bytes(R)
           W == SplitUp(t).whole
           V == {x \in Splits(R) : Extends(x.whole, W)}
<1>1. SplitUp(t) \in Splits(R) /\ W \in Seq(Seq(B) \ {<<>>})
  BY SplitIn DEF Splits
<1>2. SplitUp(t) \in V
  BY <1>1 DEF Extends
<1>3. ASSUME NEW x \in V, NEW c \in B PROVE Split(x, c) \in V
  <2>1. Split(x, c) \in Splits(R)
    BY SplitStaysIn
  <2>2. x.whole \in Seq(Seq(B) \ {<<>>}) /\ x.open \in Seq(B) /\ Extends(x.whole, W)
    BY DEF Splits
  <2>3. Split(x, c).whole = x.whole \/ (x.open # <<>> /\ Split(x, c).whole = Append(x.whole, x.open))
    BY DEF Split, Splits
  <2>4. x.open # <<>> => Extends(Append(x.whole, x.open), W)
    BY <1>1, <2>2 DEF Extends
  <2> QED
    BY <2>1, <2>2, <2>3, <2>4
<1>4. LineFold!Folded(NoLines, t \o u) = LineFold!Folded(SplitUp(t), u)
  <2>1. t \in Seq(B) /\ u \in Seq(B)
    OBVIOUS
  <2> HIDE DEF B
  <2>2. LineFold!Folded(NoLines, t \o u) = LineFold!Folded(LineFold!Folded(NoLines, t), u)
    BY <2>1, LineFold!FoldOfConcat
  <2> QED
    BY <2>2, SplitUpIs
<1>5. LineFold!Folded(SplitUp(t), u) \in V
  <2>1. u \in Seq(B) /\ \A x \in V, c \in B : Split(x, c) \in V
    BY <1>3
  <2> HIDE DEF B, V
  <2> QED
    BY <1>2, <2>1, LineFold!FoldStaysIn
<1> QED
  BY <1>4, <1>5, SplitUpIs

LEMMA LinesIn ==
  ASSUME NEW R, NEW t \in Seq(Bytes(R))
  PROVE  Lines(t) \in Seq(Seq(Bytes(R)) \ {<<>>})
<1>1. SplitUp(t).whole \in Seq(Seq(Bytes(R)) \ {<<>>}) /\ SplitUp(t).open \in Seq(Bytes(R))
  BY SplitIn DEF Splits
<1> HIDE DEF Bytes
<1> QED
  BY <1>1 DEF Lines

LEMMA ParsedIn ==
  ASSUME NEW R, NEW line \in Seq(Bytes(R)), line # <<>>
  PROVE  Parsed(line) \in R \cup {Malformed}
<1>1. Head(line) \in Bytes(R)
  <2> HIDE DEF Bytes
  <2> QED
    OBVIOUS
<1>2. Head(line)[1] \in R
  BY <1>1 DEF Bytes
<1> QED
  BY <1>2 DEF Parsed

LEMMA RecordsIn ==
  ASSUME NEW R, NEW t \in Seq(Bytes(R))
  PROVE  /\ Records(t) \in Seq(R \cup {Malformed}) /\ Len(Records(t)) = Len(Lines(t))
         /\ Readable(t) => Records(t) \in Seq(R)
<1>1. /\ Lines(t) \in Seq(Seq(Bytes(R)) \ {<<>>})
      /\ \A i \in 1..Len(Lines(t)) : Lines(t)[i] \in Seq(Bytes(R)) /\ Lines(t)[i] # <<>>
  <2>1. Lines(t) \in Seq(Seq(Bytes(R)) \ {<<>>})
    BY LinesIn
  <2> HIDE DEF Bytes
  <2> QED
    BY <2>1
<1>2. \A i \in 1..Len(Lines(t)) : Parsed(Lines(t)[i]) \in R \cup {Malformed}
  BY <1>1, ParsedIn
<1>3. Records(t) \in Seq(R \cup {Malformed}) /\ Len(Records(t)) = Len(Lines(t))
  BY <1>1, <1>2 DEF Records
<1>4. ASSUME Readable(t) PROVE Records(t) \in Seq(R)
  <2>1. \A i \in 1..Len(Records(t)) : Records(t)[i] # Malformed
    BY <1>3, <1>4 DEF Readable, Range
  <2> QED
    BY <1>3, <2>1
<1> QED
  BY <1>3, <1>4

-----------------------------------------------------------------------------
(* The bytes of one record.                                                *)

LEMMA ThreeParts ==
  ASSUME NEW a, NEW b, NEW c
  PROVE  /\ SubSeq(<<a, b, c>>, 1, 0) = <<>> /\ SubSeq(<<a, b, c>>, 1, 1) = <<a>>
         /\ SubSeq(<<a, b, c>>, 1, 2) = <<a, b>> /\ SubSeq(<<a, b, c>>, 1, 3) = <<a, b, c>>
<1> DEFINE S == {a, b, c}
           s == <<a, b, c>>
<1>1. s \in Seq(S) /\ Len(s) = 3 /\ s[1] = a /\ s[2] = b /\ s[3] = c
  OBVIOUS
<1> HIDE DEF s
<1>2. ASSUME NEW k \in 0..3
      PROVE  /\ SubSeq(s, 1, k) \in Seq(S) /\ Len(SubSeq(s, 1, k)) = k
             /\ \A i \in 1..k : SubSeq(s, 1, k)[i] = s[i]
  BY <1>1
<1>3. SubSeq(s, 1, 0) = <<>>
  BY <1>2
<1>4. SubSeq(s, 1, 1) = <<a>>
  <2>1. <<a>> \in Seq(S) /\ Len(<<a>>) = 1 /\ <<a>>[1] = a
    OBVIOUS
  <2>2. SubSeq(s, 1, 1) \in Seq(S) /\ Len(SubSeq(s, 1, 1)) = 1 /\ SubSeq(s, 1, 1)[1] = a
    BY <1>1, <1>2
  <2>3. \A x, y \in Seq(S) : Len(x) = 1 /\ Len(y) = 1 /\ x[1] = y[1] => x = y
    OBVIOUS
  <2> QED
    BY ONLY <2>1, <2>2, <2>3
<1>5. SubSeq(s, 1, 2) = <<a, b>>
  <2>1. <<a, b>> \in Seq(S) /\ Len(<<a, b>>) = 2 /\ <<a, b>>[1] = a /\ <<a, b>>[2] = b
    OBVIOUS
  <2>2. /\ SubSeq(s, 1, 2) \in Seq(S) /\ Len(SubSeq(s, 1, 2)) = 2
        /\ SubSeq(s, 1, 2)[1] = a /\ SubSeq(s, 1, 2)[2] = b
    BY <1>1, <1>2
  <2>3. \A x, y \in Seq(S) : Len(x) = 2 /\ Len(y) = 2 /\ x[1] = y[1] /\ x[2] = y[2] => x = y
    OBVIOUS
  <2> QED
    BY ONLY <2>1, <2>2, <2>3
<1>6. SubSeq(s, 1, 3) = s
  <2>1. SubSeq(s, 1, 3) \in Seq(S) /\ Len(SubSeq(s, 1, 3)) = 3
        /\ \A i \in 1..3 : SubSeq(s, 1, 3)[i] = s[i]
    BY <1>2
  <2> QED
    BY <1>1, <2>1
<1> QED
  BY <1>3, <1>4, <1>5, <1>6 DEF s

LEMMA WholeLine ==
  ASSUME NEW r
  PROVE  /\ Front(Line(r)) = <<<<r, "head">>, <<r, "tail">>>> /\ Len(Front(Line(r))) = 2
         /\ Parsed(<<<<r, "head">>, <<r, "tail">>>>) = r
<1>1. Front(Line(r)) = <<<<r, "head">>, <<r, "tail">>>>
  <2> DEFINE a == <<r, "head">>
             b == <<r, "tail">>
             c == <<r, "newline">>
  <2>1. Line(r) = <<a, b, c>>
    BY DEF Line
  <2> HIDE DEF a, b, c
  <2>2. Front(<<a, b, c>>) = <<a, b>>
    <3>1. Len(<<a, b, c>>) - 1 = 2
      OBVIOUS
    <3> QED
      BY <3>1, ThreeParts DEF Front
  <2> QED
    BY <2>1, <2>2 DEF a, b
<1> QED
  BY <1>1 DEF Parsed

LEMMA BrokenLine ==
  ASSUME NEW line, Len(line) # 2
  PROVE  Parsed(line) = Malformed
<1>1. \A r : Len(Front(Line(r))) = 2
  BY WholeLine
<1>2. \A r : line # Front(Line(r))
  BY <1>1
<1> QED
  BY <1>2 DEF Parsed

Headed(t, r) == Append(t, <<r, "head">>)
Tailed(t, r) == Append(Headed(t, r), <<r, "tail">>)
Ended(t, r) == Append(Tailed(t, r), <<r, "newline">>)

LineAfter(t, r, B) ==
  /\ Headed(t, r) \in Seq(B) /\ Tailed(t, r) \in Seq(B) /\ Ended(t, r) \in Seq(B)
  /\ t \o SubSeq(Line(r), 1, 0) = t /\ t \o SubSeq(Line(r), 1, 1) = Headed(t, r)
  /\ t \o SubSeq(Line(r), 1, 2) = Tailed(t, r) /\ t \o SubSeq(Line(r), 1, 3) = Ended(t, r)
  /\ t \o Line(r) = Ended(t, r)

LEMMA LineInBytes ==
  ASSUME NEW R, NEW r \in R, NEW t \in Seq(Bytes(R))
  PROVE  /\ Line(r) \in Seq(Bytes(R)) /\ Len(Line(r)) = 3
         /\ LineAfter(t, r, Bytes(R))
<1> DEFINE a == <<r, "head">>
           b == <<r, "tail">>
           c == <<r, "newline">>
           B == Bytes(R)
<1>1. a \in B /\ b \in B /\ c \in B
  BY DEF Bytes
<1>2. Line(r) = <<a, b, c>>
  BY DEF Line
<1> HIDE DEF a, b, c, B
<1>3. t \in Seq(B)
  BY DEF B
<1>4. <<a, b, c>> \in Seq(B) /\ Len(<<a, b, c>>) = 3
  BY <1>1
<1>5. /\ SubSeq(<<a, b, c>>, 1, 0) = <<>> /\ SubSeq(<<a, b, c>>, 1, 1) = <<a>>
      /\ SubSeq(<<a, b, c>>, 1, 2) = <<a, b>> /\ SubSeq(<<a, b, c>>, 1, 3) = <<a, b, c>>
  BY ThreeParts
<1>6. t \o <<>> = t /\ t \o <<a>> = Append(t, a)
  BY <1>1, <1>3
<1>7. Append(t, a) \in Seq(B) /\ Append(Append(t, a), b) \in Seq(B)
      /\ Append(Append(Append(t, a), b), c) \in Seq(B)
  BY <1>1, <1>3
<1>8. t \o <<a, b>> = Append(Append(t, a), b)
  BY <1>1, <1>3
<1>9. t \o <<a, b, c>> = Append(Append(Append(t, a), b), c)
  BY <1>1, <1>3
<1> QED
  BY <1>2, <1>4, <1>5, <1>6, <1>7, <1>8, <1>9 DEF a, b, c, B, Headed, Tailed, Ended, LineAfter

LEMMA SplitLine ==
  ASSUME NEW R, NEW r \in R, NEW t \in Seq(Bytes(R))
  PROVE  /\ SplitUp(t \o SubSeq(Line(r), 1, 0)) = SplitUp(t)
         /\ SplitUp(t \o SubSeq(Line(r), 1, 1)).whole = SplitUp(t).whole
         /\ SplitUp(t \o SubSeq(Line(r), 1, 1)).open = Headed(SplitUp(t).open, r)
         /\ SplitUp(t \o SubSeq(Line(r), 1, 2)).whole = SplitUp(t).whole
         /\ SplitUp(t \o SubSeq(Line(r), 1, 2)).open = Tailed(SplitUp(t).open, r)
         /\ SplitUp(t \o SubSeq(Line(r), 1, 3)) = SplitUp(t \o Line(r))
         /\ SplitUp(t \o Line(r)).whole = Append(SplitUp(t).whole, Tailed(SplitUp(t).open, r))
         /\ SplitUp(t \o Line(r)).open = <<>>
<1> DEFINE t1 == Headed(t, r)
           t2 == Tailed(t, r)
           t3 == Ended(t, r)
           W == SplitUp(t).whole
           O == SplitUp(t).open
           O1 == Append(O, <<r, "head">>)
           O2 == Append(O1, <<r, "tail">>)
<1>1. /\ t1 \in Seq(Bytes(R)) /\ t2 \in Seq(Bytes(R)) /\ t3 \in Seq(Bytes(R))
      /\ t \o SubSeq(Line(r), 1, 0) = t /\ t \o SubSeq(Line(r), 1, 1) = t1
      /\ t \o SubSeq(Line(r), 1, 2) = t2 /\ t \o SubSeq(Line(r), 1, 3) = t3
      /\ t \o Line(r) = t3
  <2>1. LineAfter(t, r, Bytes(R))
    BY LineInBytes
  <2> QED
    BY <2>1 DEF LineAfter
<1>2. <<r, "head">> \in Bytes(R) /\ <<r, "tail">> \in Bytes(R) /\ <<r, "newline">> \in Bytes(R)
  BY DEF Bytes
<1> HIDE DEF t1, t2, t3
<1>3. /\ SplitUp(t1) = Split(SplitUp(t), <<r, "head">>)
      /\ SplitUp(t2) = Split(SplitUp(t1), <<r, "tail">>)
      /\ SplitUp(t3) = Split(SplitUp(t2), <<r, "newline">>)
  BY <1>1, <1>2, SplitMore DEF t1, t2, t3, Headed, Tailed, Ended
<1>4. SplitUp(t) \in Splits(R) /\ SplitUp(t1) \in Splits(R) /\ SplitUp(t2) \in Splits(R)
  BY <1>1, SplitIn
<1>5. SplitUp(t1).whole = W /\ SplitUp(t1).open = O1
  BY <1>3, <1>4 DEF Split, Splits
<1>6. SplitUp(t2).whole = W /\ SplitUp(t2).open = O2
  BY <1>3, <1>4, <1>5 DEF Split, Splits
<1>7. O2 # <<>>
  <2> DEFINE B == Bytes(R)
  <2>1. O \in Seq(B) /\ <<r, "head">> \in B /\ <<r, "tail">> \in B
    BY <1>2, <1>4 DEF Splits
  <2>2. \A x \in Seq(B), a, b \in B : Append(Append(x, a), b) # <<>>
    <3> HIDE DEF B
    <3> QED
      OBVIOUS
  <2> QED
    BY ONLY <2>1, <2>2 DEF O2, O1
<1>8. SplitUp(t3) = [whole |-> Append(W, O2), open |-> <<>>]
  <2> HIDE DEF W, O, O1, O2
  <2> QED
    BY <1>3, <1>6, <1>7 DEF Split
<1> HIDE DEF W, O, O1, O2
<1>9. SplitUp(t3).whole = Append(W, O2) /\ SplitUp(t3).open = <<>>
  BY <1>8
<1>10. /\ SplitUp(t \o SubSeq(Line(r), 1, 0)) = SplitUp(t)
       /\ SplitUp(t \o SubSeq(Line(r), 1, 1)) = SplitUp(t1)
       /\ SplitUp(t \o SubSeq(Line(r), 1, 2)) = SplitUp(t2)
       /\ SplitUp(t \o SubSeq(Line(r), 1, 3)) = SplitUp(t3)
       /\ SplitUp(t \o Line(r)) = SplitUp(t3)
  BY <1>1
<1> QED
  BY Zenon, <1>5, <1>6, <1>9, <1>10 DEF W, O, O1, O2, Headed, Tailed

-----------------------------------------------------------------------------
(* What the raw message file keeps.                                        *)

Edited(rows) == {[h EXCEPT !.content = m] : h \in rows, m \in Messages}
Parses(lines) == [i \in 1..Len(lines) |-> Parsed(lines[i])]

(* Every record is a row of the chain; the file holds bytes of such rows,  *)
(* whose contents somebody may have changed.                               *)
FileInv ==
  /\ \A h \in handed : /\ h = Row(h.num, h.prev, h.content)
                       /\ h.num \in 1..MaxMessages /\ h.content \in Messages
  /\ text \in Seq(Bytes(Edited(handed))) /\ pending \in Seq(Bytes(Edited(handed)))

WriterInv ==
  /\ writer = NoWriter \/ writer.num \in 0..MaxMessages
  /\ writer = [num |-> writer.num, hash |-> writer.hash]
  /\ writer = NoWriter => pending = <<>>

HistoryInv ==
  /\ returned \subseteq handed /\ rawFailed \in BOOLEAN /\ torn \in BOOLEAN
  /\ accidents \in 0..MaxAccidents /\ changes \in 0..MaxChanges

(* Untouched and with no failed append: the file is unreadable, or it is a *)
(* chain whose end the writer holds, or its last line lacks the newline,   *)
(* so that the next record will make it unreadable.                        *)
Unreadable(lines) == Malformed \in Range(Parses(lines.whole))
TornOpen(lines) == lines.open # <<>> /\ Parsed(lines.open) = Malformed
Chained(lines) == lines.open = <<>> /\ Verifies(Parses(lines.whole))
EndsOpen(lines) ==
  Len(lines.open) = 2 /\ Verifies(Parses(Append(lines.whole, lines.open)))

ChainedInv ==
  changes = 0 /\ ~rawFailed =>
    /\ pending = <<>>
    /\ \/ Unreadable(SplitUp(text))
       \/ TornOpen(SplitUp(text)) /\ writer = NoWriter
       \/ /\ Chained(SplitUp(text))
          /\ writer # NoWriter =>
               /\ writer.num = Len(SplitUp(text).whole)
               /\ writer.hash = HeadHash(Parses(SplitUp(text).whole))
       \/ EndsOpen(SplitUp(text))

(* What returned is in a whole line, and with what the handle still holds  *)
(* the file ends with a newline.                                           *)
KeptInv ==
  changes = 0 /\ ~torn =>
    /\ SplitUp(text \o pending).open = <<>>
    /\ returned \subseteq Range(Parses(SplitUp(text).whole))

RawInv == FileInv /\ WriterInv /\ HistoryInv /\ ChainedInv /\ KeptInv

-----------------------------------------------------------------------------
LEMMA ParsesMore ==
  ASSUME NEW S, NEW lines \in Seq(S), NEW line \in S
  PROVE  /\ Parses(Append(lines, line)) = Append(Parses(lines), Parsed(line))
         /\ Len(Parses(lines)) = Len(lines)
         /\ Range(Parses(Append(lines, line))) = Range(Parses(lines)) \cup {Parsed(line)}
<1> DEFINE V == {Parsed(x) : x \in S}
           k == Len(lines)
<1>1. /\ Parses(lines) \in Seq(V) /\ Len(Parses(lines)) = k /\ k \in Nat
      /\ \A i \in 1..k : Parses(lines)[i] = Parsed(lines[i])
  BY DEF Parses
<1>2. /\ Append(lines, line) \in Seq(S) /\ Len(Append(lines, line)) = k + 1
      /\ \A i \in 1..(k + 1) : Append(lines, line)[i] = IF i <= k THEN lines[i] ELSE line
  OBVIOUS
<1>3. /\ Parses(Append(lines, line)) \in Seq(V) /\ Len(Parses(Append(lines, line))) = k + 1
      /\ \A i \in 1..(k + 1) :
           Parses(Append(lines, line))[i] = IF i <= k THEN Parsed(lines[i]) ELSE Parsed(line)
  <2>1. \A i \in 1..(k + 1) : Append(lines, line)[i] \in S
    BY <1>1, <1>2
  <2> QED
    BY <1>1, <1>2, <2>1 DEF Parses
<1>4. /\ Append(Parses(lines), Parsed(line)) \in Seq(V)
      /\ Len(Append(Parses(lines), Parsed(line))) = k + 1
      /\ \A i \in 1..(k + 1) :
           Append(Parses(lines), Parsed(line))[i] = IF i <= k THEN Parsed(lines[i]) ELSE Parsed(line)
  <2>1. Parsed(line) \in V
    OBVIOUS
  <2> HIDE DEF V
  <2> QED
    BY <1>1, <2>1
<1>5. Parses(Append(lines, line)) = Append(Parses(lines), Parsed(line))
  <2> HIDE DEF V, k
  <2> QED
    BY ONLY <1>1, <1>3, <1>4
<1>6. Range(Append(Parses(lines), Parsed(line))) = Range(Parses(lines)) \cup {Parsed(line)}
  <2> DEFINE p == Parses(lines)
             q == Append(Parses(lines), Parsed(line))
  <2>1. /\ DOMAIN p = 1..k /\ DOMAIN q = 1..(k + 1) /\ q[k + 1] = Parsed(line)
        /\ \A i \in 1..k : q[i] = p[i]
    BY <1>1
  <2> HIDE DEF p, q
  <2>2. \A x \in Range(q) : x \in Range(p) \/ x = Parsed(line)
    BY <1>1, <2>1 DEF Range
  <2>3. \A x \in Range(p) : x \in Range(q)
    BY <1>1, <2>1 DEF Range
  <2>4. Parsed(line) \in Range(q)
    BY <1>1, <2>1 DEF Range
  <2> QED
    BY <2>2, <2>3, <2>4 DEF p, q
<1> QED
  BY <1>1, <1>5, <1>6

(* More bytes, and the whole lines say at least the same.                  *)
LEMMA ParsesExtend ==
  ASSUME NEW R, NEW t \in Seq(Bytes(R)), NEW u \in Seq(Bytes(R))
  PROVE  Range(Parses(SplitUp(t).whole)) \subseteq Range(Parses(SplitUp(t \o u).whole))
<1> DEFINE B == Bytes(R)
           W == SplitUp(t).whole
           X == SplitUp(t \o u).whole
<1>1. W \in Seq(Seq(B) \ {<<>>}) /\ X \in Seq(Seq(B) \ {<<>>}) /\ Extends(X, W)
  <2>1. t \o u \in Seq(B)
    <3>1. t \in Seq(B) /\ u \in Seq(B)
      OBVIOUS
    <3> HIDE DEF B
    <3> QED
      BY <3>1
  <2>2. SplitUp(t) \in Splits(R) /\ SplitUp(t \o u) \in Splits(R)
    BY <2>1, SplitIn
  <2> QED
    BY <2>2, SplitExtends DEF Splits
<1> HIDE DEF B, W, X
<1> SUFFICES ASSUME NEW i \in 1..Len(W) PROVE Parsed(W[i]) \in Range(Parses(X))
  BY DEF W, X, Range, Parses
<1>2. Len(W) \in Nat /\ Len(X) \in Nat /\ i \in 1..Len(X) /\ X[i] = W[i]
  BY <1>1 DEF Extends
<1> QED
  BY <1>2 DEF Range, Parses

(* The records of a file, by whether its last line has its newline.        *)
LEMMA RecordsAre ==
  ASSUME NEW t
  PROVE  Records(t) = IF SplitUp(t).open = <<>> THEN Parses(SplitUp(t).whole)
                      ELSE Parses(Append(SplitUp(t).whole, SplitUp(t).open))
BY Zenon DEF Records, Lines, Parses

-----------------------------------------------------------------------------
(* One record more.                                                        *)

OpenAfter(o, r, B) ==
  /\ Headed(o, r) \in Seq(B) \ {<<>>} /\ Len(Headed(o, r)) = Len(o) + 1
  /\ Tailed(o, r) \in Seq(B) \ {<<>>} /\ Len(Tailed(o, r)) = Len(o) + 2

LEMMA OpenLine ==
  ASSUME NEW R, NEW r \in R, NEW o \in Seq(Bytes(R))
  PROVE  OpenAfter(o, r, Bytes(R)) /\ Parsed(Tailed(<<>>, r)) = r
<1> DEFINE B == Bytes(R)
           a == <<r, "head">>
           b == <<r, "tail">>
<1>1. a \in B /\ b \in B /\ o \in Seq(B)
  BY DEF Bytes
<1>2. Headed(o, r) = Append(o, a) /\ Tailed(o, r) = Append(Append(o, a), b)
      /\ Tailed(<<>>, r) = Append(Append(<<>>, a), b)
  BY DEF Headed, Tailed
<1>3. Parsed(<<a, b>>) = r
  BY WholeLine
<1> HIDE DEF B, a, b
<1>4. Append(Append(<<>>, a), b) = <<a, b>>
  <2> DEFINE x == Append(Append(<<>>, a), b)
             y == <<a, b>>
  <2>1. x \in Seq({a, b}) /\ Len(x) = 2 /\ x[1] = a /\ x[2] = b
    <3>1. /\ Append(<<>>, a) \in Seq({a, b}) /\ Len(Append(<<>>, a)) = 1 /\ Append(<<>>, a)[1] = a
      OBVIOUS
    <3> QED
      BY <3>1
  <2>2. y \in Seq({a, b}) /\ Len(y) = 2 /\ y[1] = a /\ y[2] = b
    OBVIOUS
  <2> HIDE DEF x, y
  <2>3. x = y
    BY <2>1, <2>2
  <2> QED
    BY <2>3 DEF x, y
<1>5. /\ Headed(o, r) \in Seq(B) /\ Headed(o, r) # <<>> /\ Len(Headed(o, r)) = Len(o) + 1
      /\ Tailed(o, r) \in Seq(B) /\ Tailed(o, r) # <<>> /\ Len(Tailed(o, r)) = Len(o) + 2
  BY <1>1, <1>2
<1>6. OpenAfter(o, r, B)
  BY <1>5 DEF OpenAfter
<1> QED
  BY <1>2, <1>3, <1>4, <1>6 DEF B

LEMMA VerifiesMore ==
  ASSUME NEW S, NEW p \in Seq(S), Verifies(p), NEW r \in S,
         r.num = Len(p) + 1, r.prev = HeadHash(p), r.hash = Hash(r.prev, r.content)
  PROVE  Verifies(Append(p, r)) /\ HeadHash(Append(p, r)) = r.hash
<1> DEFINE q == Append(p, r)
           k == Len(p)
<1>1. /\ q \in Seq(S) /\ Len(q) = k + 1 /\ k \in Nat /\ q[k + 1] = r
      /\ \A i \in 1..k : q[i] = p[i]
  OBVIOUS
<1> HIDE DEF q
<1>2. \A i \in 1..(k + 1) : Before(q, i) = Before(p, i)
  BY <1>1 DEF Before
<1>3. ASSUME NEW i \in 1..(k + 1) PROVE Holds(q, i)
  <2>1. CASE i \in 1..k
    BY <1>1, <1>2, <2>1 DEF Verifies, Holds
  <2>2. CASE i = k + 1
    BY <1>1, <1>2, <2>2 DEF HeadHash, Holds
  <2> QED
    BY <1>1, <2>1, <2>2
<1>4. HeadHash(q) = r.hash
  BY <1>1 DEF HeadHash, Before
<1> QED
  BY <1>1, <1>3, <1>4 DEF Verifies, q

LEMMA SplitsOf ==
  ASSUME NEW R, NEW t \in Seq(Bytes(R))
  PROVE  /\ SplitUp(t).whole \in Seq(Seq(Bytes(R)) \ {<<>>}) /\ SplitUp(t).open \in Seq(Bytes(R))
         /\ SplitUp(t).open = <<>> \/ SplitUp(t).open \in Seq(Bytes(R)) \ {<<>>}
BY SplitIn DEF Splits

Follows(r, lines) ==
  /\ r.num = Len(lines.whole) + 1 /\ r.prev = HeadHash(Parses(lines.whole))
  /\ r.hash = Hash(r.prev, r.content)

LEMMA LineAfterChain ==
  ASSUME NEW R, NEW r \in R, NEW t \in Seq(Bytes(R)), Chained(SplitUp(t)), Follows(r, SplitUp(t))
  PROVE  /\ Chained(SplitUp(t \o Line(r)))
         /\ r.num = Len(SplitUp(t \o Line(r)).whole)
         /\ r.hash = HeadHash(Parses(SplitUp(t \o Line(r)).whole))
         /\ TornOpen(SplitUp(t \o SubSeq(Line(r), 1, 1)))
         /\ EndsOpen(SplitUp(t \o SubSeq(Line(r), 1, 2)))
<1> DEFINE W == SplitUp(t).whole
           L == Tailed(<<>>, r)
           B == Bytes(R)
<1>1. W \in Seq(Seq(B) \ {<<>>}) /\ SplitUp(t).open = <<>> /\ Verifies(Parses(W)) /\ <<>> \in Seq(B)
  BY SplitsOf DEF Chained
<1>2. /\ SplitUp(t \o Line(r)).whole = Append(W, L) /\ SplitUp(t \o Line(r)).open = <<>>
      /\ SplitUp(t \o SubSeq(Line(r), 1, 2)).whole = W /\ SplitUp(t \o SubSeq(Line(r), 1, 2)).open = L
      /\ SplitUp(t \o SubSeq(Line(r), 1, 1)).open = Headed(<<>>, r)
  BY <1>1, SplitLine
<1>3. /\ Headed(<<>>, r) # <<>> /\ Len(Headed(<<>>, r)) = 1 /\ L \in Seq(B) \ {<<>>} /\ Len(L) = 2
      /\ Parsed(L) = r
  <2> DEFINE e == <<>>
  <2>1. e \in Seq(Bytes(R)) /\ Len(e) = 0
    BY <1>1
  <2> HIDE DEF e
  <2>2. /\ Headed(e, r) \in Seq(Bytes(R)) \ {<<>>} /\ Len(Headed(e, r)) = Len(e) + 1
        /\ Tailed(e, r) \in Seq(Bytes(R)) \ {<<>>} /\ Len(Tailed(e, r)) = Len(e) + 2
        /\ Parsed(Tailed(<<>>, r)) = r
    <3>1. OpenAfter(e, r, Bytes(R)) /\ Parsed(Tailed(<<>>, r)) = r
      BY <2>1, OpenLine
    <3> QED
      BY <3>1 DEF OpenAfter
  <2>3. Headed(e, r) # <<>> /\ Len(Headed(e, r)) = 1 /\ Len(Tailed(e, r)) = 2
    BY <2>1, <2>2
  <2> QED
    BY <2>2, <2>3 DEF e
<1>4. TornOpen(SplitUp(t \o SubSeq(Line(r), 1, 1)))
  <2>1. Parsed(Headed(<<>>, r)) = Malformed
    BY <1>3, BrokenLine
  <2> QED
    BY <1>2, <1>3, <2>1 DEF TornOpen
<1> HIDE DEF B, W, L
<1>5. Parses(Append(W, L)) = Append(Parses(W), r) /\ Len(Parses(W)) = Len(W)
  BY <1>1, <1>3, ParsesMore
<1>6. Verifies(Append(Parses(W), r)) /\ HeadHash(Append(Parses(W), r)) = r.hash
  <2> DEFINE S == {Parsed(x) : x \in Seq(B)} \cup {r}
  <2>1. Parses(W) \in Seq(S)
    BY <1>1 DEF Parses
  <2>2. r \in S
    OBVIOUS
  <2>3. r.num = Len(Parses(W)) + 1 /\ r.prev = HeadHash(Parses(W)) /\ r.hash = Hash(r.prev, r.content)
    BY <1>5 DEF Follows, W
  <2> HIDE DEF S
  <2> QED
    BY <1>1, <2>1, <2>2, <2>3, VerifiesMore
<1>7. Len(Append(W, L)) = Len(W) + 1
  BY <1>1, <1>3
<1>8. Chained(SplitUp(t \o Line(r))) /\ EndsOpen(SplitUp(t \o SubSeq(Line(r), 1, 2)))
  BY <1>2, <1>3, <1>5, <1>6 DEF Chained, EndsOpen
<1>9. r.num = Len(W) + 1
  BY DEF Follows, W
<1> QED
  BY <1>2, <1>4, <1>5, <1>6, <1>7, <1>8, <1>9

LEMMA LineAfterOpen ==
  ASSUME NEW R, NEW r \in R, NEW t \in Seq(Bytes(R)), EndsOpen(SplitUp(t))
  PROVE  /\ Unreadable(SplitUp(t \o Line(r)))
         /\ TornOpen(SplitUp(t \o SubSeq(Line(r), 1, 1)))
         /\ TornOpen(SplitUp(t \o SubSeq(Line(r), 1, 2)))
<1> DEFINE W == SplitUp(t).whole
           O == SplitUp(t).open
           B == Bytes(R)
<1>1. W \in Seq(Seq(B) \ {<<>>}) /\ O \in Seq(B) /\ Len(O) = 2
  BY SplitsOf DEF EndsOpen
<1>2. /\ SplitUp(t \o Line(r)).whole = Append(W, Tailed(O, r))
      /\ SplitUp(t \o SubSeq(Line(r), 1, 1)).open = Headed(O, r)
      /\ SplitUp(t \o SubSeq(Line(r), 1, 2)).open = Tailed(O, r)
  BY <1>1, SplitLine
<1>3. /\ Headed(O, r) \in Seq(B) \ {<<>>} /\ Len(Headed(O, r)) = 3
      /\ Tailed(O, r) \in Seq(B) \ {<<>>} /\ Len(Tailed(O, r)) = 4
  <2>1. O \in Seq(Bytes(R)) /\ Len(O) = 2 /\ r \in R
    BY <1>1
  <2> HIDE DEF O
  <2>2. /\ Headed(O, r) \in Seq(Bytes(R)) \ {<<>>} /\ Len(Headed(O, r)) = Len(O) + 1
        /\ Tailed(O, r) \in Seq(Bytes(R)) \ {<<>>} /\ Len(Tailed(O, r)) = Len(O) + 2
    <3>1. OpenAfter(O, r, Bytes(R))
      BY <2>1, OpenLine
    <3> QED
      BY <3>1 DEF OpenAfter
  <2> QED
    BY <2>1, <2>2
<1>4. Parsed(Headed(O, r)) = Malformed /\ Parsed(Tailed(O, r)) = Malformed
  <2> HIDE DEF B, W, O
  <2>1. Len(Headed(O, r)) # 2 /\ Len(Tailed(O, r)) # 2
    BY <1>3
  <2> QED
    BY <2>1, BrokenLine
<1> HIDE DEF B, W, O
<1>5. Range(Parses(Append(W, Tailed(O, r)))) = Range(Parses(W)) \cup {Parsed(Tailed(O, r))}
  <2> DEFINE L == Tailed(O, r)
             S == Seq(B) \ {<<>>}
  <2>1. W \in Seq(S) /\ L \in S
    BY <1>1, <1>3
  <2> HIDE DEF L, S
  <2>2. Range(Parses(Append(W, L))) = Range(Parses(W)) \cup {Parsed(L)}
    BY <2>1, ParsesMore
  <2> QED
    BY <2>2 DEF L
<1>6. Headed(O, r) # <<>> /\ Tailed(O, r) # <<>>
  BY <1>3
<1> QED
  BY <1>2, <1>4, <1>5, <1>6 DEF Unreadable, TornOpen

LEMMA StaysUnreadable ==
  ASSUME NEW R, NEW t \in Seq(Bytes(R)), NEW u \in Seq(Bytes(R)), Unreadable(SplitUp(t))
  PROVE  Unreadable(SplitUp(t \o u))
BY ParsesExtend DEF Unreadable

(* What the handle holds goes out with the next record.                    *)
LEMMA LineIsKept ==
  ASSUME NEW R, NEW r \in R, NEW t \in Seq(Bytes(R)), SplitUp(t).open = <<>>
  PROVE  /\ SplitUp(t \o Line(r)).open = <<>>
         /\ Range(Parses(SplitUp(t \o Line(r)).whole)) = Range(Parses(SplitUp(t).whole)) \cup {r}
<1> DEFINE W == SplitUp(t).whole
           L == Tailed(<<>>, r)
           B == Bytes(R)
<1>1. W \in Seq(Seq(B) \ {<<>>}) /\ <<>> \in Seq(B)
  BY SplitsOf
<1>2. SplitUp(t \o Line(r)).whole = Append(W, L) /\ SplitUp(t \o Line(r)).open = <<>>
  BY SplitLine
<1>3. L \in Seq(B) \ {<<>>} /\ Parsed(L) = r
  BY <1>1, OpenLine DEF OpenAfter
<1> DEFINE S == Seq(B) \ {<<>>}
<1> HIDE DEF B, W, L
<1>4. Range(Parses(Append(W, L))) = Range(Parses(W)) \cup {r}
  <2>1. W \in Seq(S) /\ L \in S
    BY <1>1, <1>3
  <2> HIDE DEF S
  <2>2. Range(Parses(Append(W, L))) = Range(Parses(W)) \cup {Parsed(L)}
    BY ONLY <2>1, ParsesMore
  <2> QED
    BY <1>3, <2>2
<1> QED
  BY <1>2, <1>4 DEF W

-----------------------------------------------------------------------------
(* The steps.                                                              *)

LEMMA BytesGrow ==
  ASSUME NEW rows, NEW more, rows \subseteq more, NEW t \in Seq(Bytes(Edited(rows)))
  PROVE  t \in Seq(Bytes(Edited(more)))
<1>1. Bytes(Edited(rows)) \subseteq Bytes(Edited(more))
  BY DEF Bytes, Edited
<1> QED
  BY <1>1

LEMMA InitRaw == RawInit => RawInv
<1> SUFFICES ASSUME RawInit PROVE RawInv
  OBVIOUS
<1>1. /\ text = <<>> /\ pending = <<>> /\ writer = NoWriter /\ handed = {} /\ returned = {}
      /\ rawFailed = FALSE /\ torn = FALSE /\ accidents = 0 /\ changes = 0
  BY DEF RawInit
<1>2. <<>> \in Seq(Bytes(Edited({}))) /\ <<>> \o <<>> = <<>>
  OBVIOUS
<1>3. SplitUp(<<>>).whole = <<>> /\ SplitUp(<<>>).open = <<>>
  BY SplitNone DEF NoLines
<1>4. Parses(<<>>) = <<>> /\ Verifies(<<>>)
  BY DEF Parses, Verifies
<1>5. FileInv
  BY <1>1, <1>2 DEF FileInv
<1>6. WriterInv /\ HistoryInv
  <2>1. NoWriter = [num |-> NoWriter.num, hash |-> NoWriter.hash]
    BY DEF NoWriter
  <2>2. WriterInv
    BY <1>1, <2>1 DEF WriterInv
  <2>3. accidents \in 0..MaxAccidents /\ changes \in 0..MaxChanges
    BY <1>1, RawAssumption
  <2>4. rawFailed \in BOOLEAN /\ torn \in BOOLEAN /\ returned \subseteq handed
    BY <1>1
  <2> QED
    BY <2>2, <2>3, <2>4, Zenon DEF HistoryInv
<1>7. ChainedInv
  BY <1>1, <1>3, <1>4 DEF ChainedInv, Chained
<1>8. KeptInv
  BY <1>1, <1>2, <1>3 DEF KeptInv
<1> QED
  BY <1>5, <1>6, <1>7, <1>8 DEF RawInv

LEMMA RecordsEdited ==
  ASSUME RawInv, Readable(text)
  PROVE  /\ Records(text) \in Seq(Edited(handed))
         /\ \A i \in 1..Len(Records(text)) : Records(text)[i].num \in 1..MaxMessages
<1>1. text \in Seq(Bytes(Edited(handed)))
  BY DEF RawInv, FileInv
<1>2. Records(text) \in Seq(Edited(handed))
  BY <1>1, RecordsIn
<1>3. \A x \in Edited(handed) : x.num \in 1..MaxMessages
  <2> SUFFICES ASSUME NEW x \in Edited(handed) PROVE x.num \in 1..MaxMessages
    OBVIOUS
  <2>1. PICK h \in handed, m \in Messages : x = [h EXCEPT !.content = m]
    BY DEF Edited
  <2>2. h = Row(h.num, h.prev, h.content) /\ h.num \in 1..MaxMessages
    BY DEF RawInv, FileInv
  <2> QED
    BY <2>1, <2>2 DEF Row
<1> QED
  BY <1>2, <1>3

LEMMA ReadableIs ==
  ASSUME NEW R, NEW t \in Seq(Bytes(R)), Readable(t)
  PROVE  ~Unreadable(SplitUp(t)) /\ ~TornOpen(SplitUp(t))
<1>1. SplitUp(t).open = <<>> => Records(t) = Parses(SplitUp(t).whole)
  BY RecordsAre
<1>2. SplitUp(t).open # <<>> => Records(t) = Parses(Append(SplitUp(t).whole, SplitUp(t).open))
  BY RecordsAre
<1>3. SplitUp(t).open # <<>> =>
        Range(Parses(Append(SplitUp(t).whole, SplitUp(t).open)))
          = Range(Parses(SplitUp(t).whole)) \cup {Parsed(SplitUp(t).open)}
  <2> DEFINE W == SplitUp(t).whole
             O == SplitUp(t).open
             S == Seq(Bytes(R)) \ {<<>>}
  <2>1. W \in Seq(S) /\ (O # <<>> => O \in S)
    BY SplitsOf
  <2> HIDE DEF W, O, S
  <2>2. O \in S => Range(Parses(Append(W, O))) = Range(Parses(W)) \cup {Parsed(O)}
    BY <2>1, ParsesMore
  <2> QED
    BY <2>1, <2>2 DEF W, O
<1> QED
  BY <1>1, <1>2, <1>3 DEF Readable, Unreadable, TornOpen

LEMMA ResumeKeeps == ASSUME RawInv, Resume PROVE RawInv'
<1> DEFINE W == SplitUp(text).whole
<1>1. /\ writer = NoWriter /\ Readable(text)
      /\ UNCHANGED <<text, pending, handed, returned, rawFailed, torn, accidents, changes>>
  BY DEF Resume
<1>2. /\ writer' = [num |-> writer'.num, hash |-> writer'.hash]
      /\ writer'.num = IF Records(text) = <<>> THEN 0 ELSE Last(Records(text)).num
      /\ writer'.hash = HeadHash(Records(text))
  BY DEF Resume
<1>3. pending = <<>> /\ text \in Seq(Bytes(Edited(handed)))
  BY <1>1 DEF RawInv, WriterInv, FileInv
<1>4. Records(text) \in Seq(Edited(handed))
      /\ \A i \in 1..Len(Records(text)) : Records(text)[i].num \in 1..MaxMessages
  BY <1>1, RecordsEdited
<1>5. Records(text) # <<>> => Len(Records(text)) \in 1..Len(Records(text))
  BY <1>4
<1>6. FileInv' /\ HistoryInv' /\ KeptInv'
  BY <1>1 DEF RawInv, FileInv, HistoryInv, KeptInv
<1>7. WriterInv'
  <2>1. writer'.num \in 0..MaxMessages
    BY <1>2, <1>4, <1>5, RawAssumption DEF Last
  <2> QED
    BY <1>1, <1>2, <1>3, <2>1 DEF WriterInv
<1>8. ASSUME changes = 0, ~rawFailed
      PROVE  \/ EndsOpen(SplitUp(text))
             \/ Chained(SplitUp(text)) /\ writer'.num = Len(W) /\ writer'.hash = HeadHash(Parses(W))
  <2>1. ~Unreadable(SplitUp(text)) /\ ~TornOpen(SplitUp(text))
    BY <1>1, <1>3, ReadableIs
  <2>2. EndsOpen(SplitUp(text)) \/ Chained(SplitUp(text))
    BY <1>8, <2>1 DEF RawInv, ChainedInv
  <2>3. ASSUME Chained(SplitUp(text))
        PROVE  writer'.num = Len(W) /\ writer'.hash = HeadHash(Parses(W))
    <3>1. Records(text) = Parses(W) /\ Verifies(Parses(W))
      BY <2>3, RecordsAre DEF Chained
    <3>2. Len(Records(text)) = Len(W)
      <4>1. Lines(text) = W
        BY <2>3 DEF Lines, Chained
      <4> QED
        BY <1>3, <4>1, RecordsIn
    <3>3. Records(text) # <<>> => Last(Records(text)).num = Len(Records(text))
      BY <1>5, <3>1 DEF Verifies, Holds, Last
    <3>4. Records(text) = <<>> => Len(Records(text)) = 0
      OBVIOUS
    <3> QED
      BY <1>2, <3>1, <3>2, <3>3, <3>4
  <2> QED
    BY <2>2, <2>3
<1>9. ChainedInv'
  BY <1>1, <1>3, <1>8 DEF ChainedInv
<1> QED
  BY <1>6, <1>7, <1>9 DEF RawInv

(* The record that the writer makes of a message.                          *)
LEMMA NewRecord ==
  ASSUME RawInv, Room, NEW m \in Messages, NEW r, r = NextRecord(m)
  PROVE  /\ r = Row(r.num, r.prev, r.content) /\ r.num \in 1..MaxMessages /\ r.content \in Messages
         /\ r.hash = Hash(r.prev, r.content) /\ r.num = writer.num + 1 /\ r.prev = writer.hash
         /\ r \in Edited(handed \cup {r})
         /\ text \in Seq(Bytes(Edited(handed \cup {r})))
         /\ pending \in Seq(Bytes(Edited(handed \cup {r})))
<1>1. /\ r.num = writer.num + 1 /\ r.prev = writer.hash /\ r.content = m
      /\ r.hash = Hash(r.prev, r.content) /\ r = Row(r.num, r.prev, r.content)
  BY DEF NextRecord, Row
<1>2. writer.num \in 0..MaxMessages /\ writer.num < MaxMessages
  BY DEF RawInv, WriterInv, Room
<1>3. r.num \in 1..MaxMessages
  BY <1>1, <1>2, RawAssumption
<1>4. r \in Edited(handed \cup {r})
  <2>1. r = [r EXCEPT !.content = m]
    BY <1>1 DEF Row
  <2> QED
    BY <2>1 DEF Edited
<1>5. text \in Seq(Bytes(Edited(handed))) /\ pending \in Seq(Bytes(Edited(handed)))
  BY DEF RawInv, FileInv
<1>6. text \in Seq(Bytes(Edited(handed \cup {r}))) /\ pending \in Seq(Bytes(Edited(handed \cup {r})))
  BY <1>5, BytesGrow
<1> QED
  BY <1>1, <1>3, <1>4, <1>6

LEMMA AppendKeeps == ASSUME RawInv, NEW m \in Messages, AppendMessage(m) PROVE RawInv'
<1> DEFINE r == NextRecord(m)
           R == Edited(handed \cup {r})
           T == text \o pending
<1>1. /\ writer # NoWriter /\ Room /\ text' = T \o Line(r) /\ pending' = <<>>
      /\ writer' = [num |-> r.num, hash |-> r.hash]
      /\ handed' = handed \cup {r} /\ returned' = returned \cup {r}
      /\ UNCHANGED <<rawFailed, torn, accidents, changes>>
  BY DEF AppendMessage, Room
<1>2. /\ r = Row(r.num, r.prev, r.content) /\ r.num \in 1..MaxMessages /\ r.content \in Messages
      /\ r.hash = Hash(r.prev, r.content) /\ r.num = writer.num + 1 /\ r.prev = writer.hash
      /\ r \in R /\ text \in Seq(Bytes(R)) /\ pending \in Seq(Bytes(R))
  <2> HIDE DEF r
  <2>1. r = NextRecord(m)
    BY DEF r
  <2> QED
    BY <1>1, <2>1, NewRecord
<1> HIDE DEF r, R
<1>3. T \in Seq(Bytes(R)) /\ Line(r) \in Seq(Bytes(R)) /\ T \o Line(r) \in Seq(Bytes(R))
      /\ <<>> \in Seq(Bytes(R))
  <2>1. T \in Seq(Bytes(R))
    BY <1>2
  <2>2. Line(r) \in Seq(Bytes(R))
    BY <1>2, LineInBytes
  <2> QED
    BY <2>1, <2>2
<1>4. FileInv'
  BY <1>1, <1>2, <1>3 DEF RawInv, FileInv, R
<1>5. WriterInv' /\ HistoryInv'
  <2>1. r.num \in 0..MaxMessages
    BY <1>2
  <2>2. writer'.num = r.num /\ writer'.hash = r.hash
    BY <1>1
  <2>3. writer' = [num |-> writer'.num, hash |-> writer'.hash]
    BY <1>1
  <2> QED
    BY <1>1, <2>1, <2>2, <2>3 DEF RawInv, WriterInv, HistoryInv
<1> HIDE DEF T
<1>6. ASSUME changes = 0, ~rawFailed PROVE ChainedInv'
  <2>1. pending = <<>> /\ T = text
    <3>1. pending = <<>>
      BY <1>6 DEF RawInv, ChainedInv
    <3> QED
      BY <1>2, <3>1 DEF T
  <2>2. CASE Unreadable(SplitUp(text))
    BY <1>1, <1>2, <1>3, <2>1, <2>2, StaysUnreadable DEF ChainedInv
  <2>3. CASE EndsOpen(SplitUp(text))
    BY <1>1, <1>2, <1>3, <2>1, <2>3, LineAfterOpen DEF ChainedInv
  <2>4. CASE Chained(SplitUp(text)) /\ writer.num = Len(SplitUp(text).whole)
             /\ writer.hash = HeadHash(Parses(SplitUp(text).whole))
    <3>1. Follows(r, SplitUp(text))
      BY <1>2, <2>4 DEF Follows
    <3>2. /\ Chained(SplitUp(text \o Line(r))) /\ r.num = Len(SplitUp(text \o Line(r)).whole)
          /\ r.hash = HeadHash(Parses(SplitUp(text \o Line(r)).whole))
      BY <1>2, <2>4, <3>1, LineAfterChain
    <3>3. writer'.num = r.num /\ writer'.hash = r.hash
      BY <1>1
    <3> QED
      BY <1>1, <2>1, <3>2, <3>3 DEF ChainedInv
  <2> QED
    BY <1>1, <1>6, <2>2, <2>3, <2>4 DEF RawInv, ChainedInv
<1>7. ASSUME changes = 0, ~torn PROVE KeptInv'
  <2>1. SplitUp(T).open = <<>> /\ returned \subseteq Range(Parses(SplitUp(text).whole))
    BY <1>7 DEF RawInv, KeptInv, T
  <2>2. Range(Parses(SplitUp(text).whole)) \subseteq Range(Parses(SplitUp(T).whole))
    BY <1>2, ParsesExtend DEF T
  <2>3. SplitUp(T \o Line(r)).open = <<>>
        /\ Range(Parses(SplitUp(T \o Line(r)).whole)) = Range(Parses(SplitUp(T).whole)) \cup {r}
    BY <1>2, <1>3, <2>1, LineIsKept
  <2>4. text' \o pending' = text'
    BY <1>1, <1>3
  <2> QED
    BY <1>1, <2>1, <2>2, <2>3, <2>4 DEF KeptInv
<1> QED
  BY <1>1, <1>4, <1>5, <1>6, <1>7 DEF RawInv, ChainedInv, KeptInv

(* A sequence of bytes, cut in two.                                        *)
LEMMA CutInTwo ==
  ASSUME NEW S, NEW s \in Seq(S), NEW k \in 0..Len(s)
  PROVE  /\ SubSeq(s, 1, k) \in Seq(S) /\ SubSeq(s, k + 1, Len(s)) \in Seq(S)
         /\ SubSeq(s, 1, k) \o SubSeq(s, k + 1, Len(s)) = s
         /\ SubSeq(s, 1, Len(s)) = s
<1> DEFINE n == Len(s)
           a == SubSeq(s, 1, k)
           b == SubSeq(s, k + 1, n)
<1>1. /\ n \in Nat /\ k \in Nat /\ k <= n
      /\ a \in Seq(S) /\ Len(a) = k /\ \A i \in 1..k : a[i] = s[i]
      /\ b \in Seq(S) /\ Len(b) = n - k /\ \A i \in 1..(n - k) : b[i] = s[k + i]
  OBVIOUS
<1>2. SubSeq(s, 1, n) = s
  BY SubSeqFull
<1> HIDE DEF a, b
<1> HIDE DEF n
<1>3. /\ a \o b \in Seq(S) /\ Len(a \o b) = Len(a) + Len(b)
      /\ \A i \in 1..(Len(a) + Len(b)) : (a \o b)[i] = IF i <= Len(a) THEN a[i] ELSE b[i - Len(a)]
  BY ONLY <1>1, ConcatProperties
<1>4. Len(a \o b) = n /\ \A i \in 1..n : (a \o b)[i] = s[i]
  <2>1. Len(a) + Len(b) = n
    BY <1>1
  <2>2. ASSUME NEW i \in 1..n PROVE (a \o b)[i] = s[i]
    <3>1. (a \o b)[i] = IF i <= k THEN a[i] ELSE b[i - k]
      BY <1>1, <1>3, <2>1
    <3>2. CASE i <= k
      BY <1>1, <3>1, <3>2
    <3>3. CASE i > k
      <4>1. i - k \in 1..(n - k) /\ k + (i - k) = i /\ ~(i <= k)
        BY <1>1, <3>3
      <4> QED
        BY <1>1, <3>1, <4>1
    <3> QED
      BY <1>1, <3>2, <3>3
  <2> QED
    BY <1>3, <2>1, <2>2
<1>5. a \o b = s
  <2> DEFINE t == a \o b
  <2>1. t \in Seq(S) /\ s \in Seq(S) /\ Len(t) = Len(s) /\ \A i \in 1..Len(s) : t[i] = s[i]
    BY <1>3, <1>4 DEF n
  <2> HIDE DEF t
  <2>2. t = s
    BY ONLY <2>1
  <2> QED
    BY <2>2 DEF t
<1> QED
  BY <1>1, <1>2, <1>5 DEF a, b, n

LEMMA AppendFailsKeeps == ASSUME RawInv, NEW m \in Messages, AppendFails(m) PROVE RawInv'
<1> DEFINE r == NextRecord(m)
           R == Edited(handed \cup {r})
           T == text \o pending
           bytes == pending \o Line(r)
<1>1. /\ writer # NoWriter /\ Room
      /\ writer' = [writer EXCEPT !.num = r.num]
      /\ handed' = handed \cup {r} /\ rawFailed' = TRUE
      /\ accidents < MaxAccidents /\ accidents' = accidents + 1
      /\ UNCHANGED <<returned, torn, changes>>
  BY DEF AppendFails, Room, Accident
<1>2. PICK k \in 0..(Len(bytes) - 1) :
        text' = text \o SubSeq(bytes, 1, k) /\ pending' = SubSeq(bytes, k + 1, Len(bytes))
  BY DEF AppendFails
<1>3. /\ r = Row(r.num, r.prev, r.content) /\ r.num \in 1..MaxMessages /\ r.content \in Messages
      /\ r \in R /\ text \in Seq(Bytes(R)) /\ pending \in Seq(Bytes(R))
  <2> HIDE DEF r
  <2>1. r = NextRecord(m)
    BY DEF r
  <2> QED
    BY <1>1, <2>1, NewRecord
<1> HIDE DEF r, R
<1>4. bytes \in Seq(Bytes(R)) /\ Line(r) \in Seq(Bytes(R)) /\ T \in Seq(Bytes(R))
  <2>1. Line(r) \in Seq(Bytes(R))
    BY <1>3, LineInBytes
  <2> QED
    BY <1>3, <2>1
<1>5. text \o bytes = T \o Line(r)
  <2> DEFINE B == Bytes(R)
             l == Line(r)
  <2>1. text \in Seq(B) /\ pending \in Seq(B) /\ l \in Seq(B)
    BY <1>3, <1>4
  <2> HIDE DEF B, l
  <2>2. (text \o pending) \o l = text \o (pending \o l)
    BY ONLY <2>1, ConcatAssociative
  <2> QED
    BY <2>2 DEF l
<1> HIDE DEF bytes, T
<1>6. /\ SubSeq(bytes, 1, k) \in Seq(Bytes(R)) /\ SubSeq(bytes, k + 1, Len(bytes)) \in Seq(Bytes(R))
      /\ SubSeq(bytes, 1, k) \o SubSeq(bytes, k + 1, Len(bytes)) = bytes
  <2>1. k \in 0..Len(bytes)
    BY <1>4
  <2> QED
    BY <1>4, <2>1, CutInTwo
<1>7. text' \in Seq(Bytes(R)) /\ pending' \in Seq(Bytes(R)) /\ text' \o pending' = T \o Line(r)
  <2> DEFINE a == SubSeq(bytes, 1, k)
             b == SubSeq(bytes, k + 1, Len(bytes))
  <2>1. a \in Seq(Bytes(R)) /\ b \in Seq(Bytes(R)) /\ a \o b = bytes /\ text' = text \o a
        /\ pending' = b
    BY <1>2, <1>6
  <2> HIDE DEF a, b
  <2>2. (text \o a) \o b = text \o (a \o b)
    <3>1. text \in Seq(Bytes(R)) /\ a \in Seq(Bytes(R)) /\ b \in Seq(Bytes(R))
      BY <1>3, <2>1
    <3> QED
      BY <3>1, ConcatAssociative
  <2>3. text \o a \in Seq(Bytes(R))
    BY ONLY <1>3, <2>1, ConcatProperties
  <2> QED
    BY <1>5, <2>1, <2>2, <2>3
<1>8. FileInv'
  BY <1>1, <1>3, <1>7 DEF RawInv, FileInv, R
<1>9. WriterInv' /\ HistoryInv'
  <2>1. r.num \in 0..MaxMessages
    BY <1>3
  <2>2. writer = [num |-> writer.num, hash |-> writer.hash]
    BY DEF RawInv, WriterInv
  <2>3. writer' = [num |-> r.num, hash |-> writer.hash]
    BY <1>1, <2>2
  <2>4. writer'.num = r.num /\ writer' = [num |-> writer'.num, hash |-> writer'.hash]
    BY <2>3
  <2>5. writer' # NoWriter
    <3>1. writer'.num # -1
      BY <1>3, <2>4
    <3> QED
      BY <3>1 DEF NoWriter
  <2>6. accidents' \in 0..MaxAccidents
    BY <1>1, RawAssumption DEF RawInv, HistoryInv
  <2> QED
    BY <1>1, <2>1, <2>4, <2>5, <2>6 DEF RawInv, WriterInv, HistoryInv
<1>10. ASSUME changes = 0, ~torn PROVE KeptInv'
  <2>1. SplitUp(T).open = <<>> /\ returned \subseteq Range(Parses(SplitUp(text).whole))
    BY <1>10 DEF RawInv, KeptInv, T
  <2>2. Range(Parses(SplitUp(text).whole)) \subseteq Range(Parses(SplitUp(text').whole))
    BY <1>2, <1>3, <1>6, ParsesExtend
  <2>3. SplitUp(T \o Line(r)).open = <<>>
    BY <1>3, <1>4, <2>1, LineIsKept
  <2> QED
    BY <1>1, <1>7, <2>1, <2>2, <2>3 DEF KeptInv
<1> QED
  BY <1>1, <1>8, <1>9, <1>10 DEF RawInv, ChainedInv, KeptInv

LEMMA CloseKeeps == ASSUME RawInv, Close PROVE RawInv'
<1> DEFINE R == Edited(handed)
<1>1. /\ writer' = NoWriter /\ text' = text \o pending /\ pending' = <<>>
      /\ UNCHANGED <<handed, returned, rawFailed, torn, accidents, changes>>
  BY DEF Close
<1>2. text \in Seq(Bytes(R)) /\ pending \in Seq(Bytes(R)) /\ text \o pending \in Seq(Bytes(R))
      /\ <<>> \in Seq(Bytes(R)) /\ (text \o pending) \o <<>> = text \o pending
  BY DEF RawInv, FileInv
<1>3. FileInv' /\ HistoryInv'
  BY <1>1, <1>2 DEF RawInv, FileInv, HistoryInv
<1>4. WriterInv'
  <2>1. NoWriter = [num |-> NoWriter.num, hash |-> NoWriter.hash]
    BY DEF NoWriter
  <2> QED
    BY <1>1, <2>1 DEF WriterInv
<1>5. ChainedInv'
  <2>1. pending = <<>> => text \o pending = text
    BY <1>2
  <2> QED
    BY <1>1, <2>1 DEF RawInv, ChainedInv
<1>6. KeptInv'
  BY <1>1, <1>2, ParsesExtend DEF RawInv, KeptInv
<1> QED
  BY <1>3, <1>4, <1>5, <1>6 DEF RawInv

(* The process dies with a part of its bytes written: what the handle      *)
(* held, and in an append the new record's line.                           *)
LEMMA CutKeeps ==
  ASSUME RawInv, NEW R, R = Edited(handed'), NEW bytes \in Seq(Bytes(R)), Cut(bytes),
         handed \subseteq handed', text \in Seq(Bytes(R)),
         \A h \in handed' : /\ h = Row(h.num, h.prev, h.content)
                            /\ h.num \in 1..MaxMessages /\ h.content \in Messages,
         changes = 0 /\ ~torn => SplitUp(text \o bytes).open = <<>>,
         NEW k \in 0..Len(bytes), text' = text \o SubSeq(bytes, 1, k),
         torn' = (torn \/ k < Len(bytes)),
         changes = 0 /\ ~rawFailed =>
           \/ Unreadable(SplitUp(text')) \/ TornOpen(SplitUp(text'))
           \/ Chained(SplitUp(text')) \/ EndsOpen(SplitUp(text'))
  PROVE  RawInv'
<1>1. /\ writer' = NoWriter /\ pending' = <<>> /\ accidents < MaxAccidents /\ accidents' = accidents + 1
      /\ UNCHANGED <<returned, rawFailed, changes>>
  BY DEF Cut, Accident
<1>2. SubSeq(bytes, 1, k) \in Seq(Bytes(R)) /\ SubSeq(bytes, 1, Len(bytes)) = bytes
  BY CutInTwo
<1>3. text' \in Seq(Bytes(R)) /\ <<>> \in Seq(Bytes(R)) /\ text' \o pending' = text'
  BY <1>1, <1>2
<1>4. FileInv'
  BY <1>1, <1>3 DEF FileInv
<1>5. WriterInv'
  <2>1. NoWriter = [num |-> NoWriter.num, hash |-> NoWriter.hash]
    BY DEF NoWriter
  <2> QED
    BY <1>1, <2>1 DEF WriterInv
<1>6. HistoryInv'
  <2>1. accidents' \in 0..MaxAccidents
    BY <1>1, RawAssumption DEF RawInv, HistoryInv
  <2>2. torn \in BOOLEAN
    BY DEF RawInv, HistoryInv
  <2>3. torn' \in BOOLEAN
    BY <2>2
  <2>4. returned' \subseteq handed' /\ rawFailed' \in BOOLEAN /\ changes' \in 0..MaxChanges
    BY <1>1 DEF RawInv, HistoryInv
  <2> QED
    BY <2>1, <2>3, <2>4, Zenon DEF HistoryInv
<1>7. ChainedInv'
  BY <1>1 DEF ChainedInv
<1>8. ASSUME changes = 0, ~torn' PROVE KeptInv'
  <2>1. ~torn /\ k = Len(bytes)
    <3>1. Len(bytes) \in Nat
      OBVIOUS
    <3>2. ~torn /\ ~(k < Len(bytes))
      BY ONLY <1>8, torn' = (torn \/ k < Len(bytes)), Zenon
    <3> QED
      BY <3>1, <3>2
  <2>2. text' = text \o bytes
    BY <1>2, <2>1
  <2>3. Range(Parses(SplitUp(text).whole)) \subseteq Range(Parses(SplitUp(text').whole))
    BY <2>2, ParsesExtend
  <2> QED
    BY <1>1, <1>3, <1>8, <2>1, <2>2, <2>3 DEF RawInv, KeptInv
<1> QED
  BY <1>1, <1>4, <1>5, <1>6, <1>7, <1>8 DEF RawInv, KeptInv

LEMMA DieKeeps == ASSUME RawInv, Die PROVE RawInv'
<1>1. CASE Cut(pending) /\ UNCHANGED handed
  <2> DEFINE R == Edited(handed')
             bytes == pending
  <2>1. /\ writer # NoWriter
        /\ \E k \in 0..Len(bytes) : text' = text \o SubSeq(bytes, 1, k)
             /\ torn' = (torn \/ k < Len(bytes))
    BY <1>1 DEF Cut
  <2>2. PICK k \in 0..Len(bytes) : text' = text \o SubSeq(bytes, 1, k)
        /\ torn' = (torn \/ k < Len(bytes))
    BY <2>1
  <2>3. bytes \in Seq(Bytes(R)) /\ text \in Seq(Bytes(R))
    BY <1>1 DEF RawInv, FileInv
  <2>4. changes = 0 /\ ~torn => SplitUp(text \o bytes).open = <<>>
    BY DEF RawInv, KeptInv
  <2>5. changes = 0 /\ ~rawFailed => text' = text
    <3>1. changes = 0 /\ ~rawFailed => bytes = <<>>
      BY DEF RawInv, ChainedInv
    <3>2. bytes = <<>> => SubSeq(bytes, 1, k) = <<>>
      BY <2>2
    <3>3. text \o <<>> = text
      BY <2>3
    <3> QED
      BY <2>2, <3>1, <3>2, <3>3
  <2>6. changes = 0 /\ ~rawFailed =>
          \/ Unreadable(SplitUp(text')) \/ TornOpen(SplitUp(text'))
          \/ Chained(SplitUp(text')) \/ EndsOpen(SplitUp(text'))
    BY <2>5 DEF RawInv, ChainedInv
  <2>7. \A h \in handed' : /\ h = Row(h.num, h.prev, h.content)
                           /\ h.num \in 1..MaxMessages /\ h.content \in Messages
    BY <1>1 DEF RawInv, FileInv
  <2>8. Cut(bytes) /\ handed \subseteq handed' /\ R = Edited(handed')
    BY <1>1
  <2> HIDE DEF R, bytes
  <2> QED
    BY <2>2, <2>3, <2>4, <2>6, <2>7, <2>8, CutKeeps
<1>2. ASSUME Room, NEW m \in Messages, Cut(pending \o Line(NextRecord(m))),
             handed' = handed \cup {NextRecord(m)}
      PROVE  RawInv'
  <2> DEFINE r == NextRecord(m)
             R == Edited(handed')
             bytes == pending \o Line(r)
             T == text \o pending
  <2>1. /\ r = Row(r.num, r.prev, r.content) /\ r.num \in 1..MaxMessages /\ r.content \in Messages
        /\ r.hash = Hash(r.prev, r.content) /\ r.num = writer.num + 1 /\ r.prev = writer.hash
        /\ r \in R /\ text \in Seq(Bytes(R)) /\ pending \in Seq(Bytes(R))
    <3> HIDE DEF r
    <3>1. r = NextRecord(m) /\ handed' = handed \cup {r}
      BY <1>2 DEF r
    <3> QED
      BY <1>2, <3>1, NewRecord
  <2>2. Cut(bytes) /\ handed' = handed \cup {r} /\ R = Edited(handed')
    BY <1>2
  <2> HIDE DEF r, R
  <2>3. Line(r) \in Seq(Bytes(R)) /\ Len(Line(r)) = 3
    BY <2>1, LineInBytes
  <2>4. bytes \in Seq(Bytes(R)) /\ T \in Seq(Bytes(R)) /\ text \o bytes = T \o Line(r)
    <3>1. bytes \in Seq(Bytes(R)) /\ T \in Seq(Bytes(R))
      BY <2>1, <2>3
    <3>2. text \o bytes = T \o Line(r)
      <4>1. /\ text \in Seq(Bytes(R)) /\ pending \in Seq(Bytes(R)) /\ Line(r) \in Seq(Bytes(R))
        BY <2>1, <2>3
      <4> DEFINE B == Bytes(R)
                 l == Line(r)
      <4>2. text \in Seq(B) /\ pending \in Seq(B) /\ l \in Seq(B)
        BY <4>1
      <4> HIDE DEF B, l
      <4>3. (text \o pending) \o l = text \o (pending \o l)
        BY ONLY <4>2, ConcatAssociative
      <4> QED
        BY <4>3 DEF l
    <3> QED
      BY <3>1, <3>2
  <2>5. /\ writer # NoWriter
        /\ \E k \in 0..Len(bytes) : text' = text \o SubSeq(bytes, 1, k)
             /\ torn' = (torn \/ k < Len(bytes))
    BY <2>2 DEF Cut
  <2>6. PICK k \in 0..Len(bytes) : text' = text \o SubSeq(bytes, 1, k)
        /\ torn' = (torn \/ k < Len(bytes))
    BY <2>5
  <2>7. ASSUME changes = 0, ~torn PROVE SplitUp(text \o bytes).open = <<>>
    <3>1. SplitUp(T).open = <<>>
      BY <2>7 DEF RawInv, KeptInv
    <3> HIDE DEF T, bytes
    <3> QED
      BY <2>1, <2>4, <3>1, LineIsKept
  <2>8. ASSUME changes = 0, ~rawFailed
        PROVE  \/ Unreadable(SplitUp(text')) \/ TornOpen(SplitUp(text'))
               \/ Chained(SplitUp(text')) \/ EndsOpen(SplitUp(text'))
    <3>1. pending = <<>> /\ bytes = Line(r)
      <4>1. pending = <<>>
        BY <2>8 DEF RawInv, ChainedInv
      <4> QED
        BY <2>3, <4>1
    <3>2. /\ k \in {0, 1, 2, 3} /\ text' = text \o SubSeq(Line(r), 1, k)
      <4> HIDE DEF bytes
      <4>1. k \in 0..3
        BY <2>3, <3>1
      <4>2. text' = text \o SubSeq(Line(r), 1, k)
        BY <2>6, <3>1
      <4> QED
        BY <4>1, <4>2
    <3>3. k = 0 => SplitUp(text') = SplitUp(text)
      BY <2>1, <3>2, SplitLine
    <3>4. k = 3 => SplitUp(text') = SplitUp(text \o Line(r))
      BY <2>1, <3>2, SplitLine
    <3>5. CASE Unreadable(SplitUp(text))
      <4>1. SubSeq(Line(r), 1, k) \in Seq(Bytes(R))
        <5>1. k \in 0..Len(Line(r))
          BY <2>3, <3>2
        <5> QED
          BY <2>3, <5>1, CutInTwo
      <4> QED
        BY <2>1, <3>2, <3>5, <4>1, StaysUnreadable
    <3>6. CASE EndsOpen(SplitUp(text))
      <4>1. /\ Unreadable(SplitUp(text \o Line(r))) /\ TornOpen(SplitUp(text \o SubSeq(Line(r), 1, 1)))
            /\ TornOpen(SplitUp(text \o SubSeq(Line(r), 1, 2)))
        BY <2>1, <3>6, LineAfterOpen
      <4> QED
        BY <3>2, <3>3, <3>4, <3>6, <4>1
    <3>7. CASE Chained(SplitUp(text)) /\ writer.num = Len(SplitUp(text).whole)
               /\ writer.hash = HeadHash(Parses(SplitUp(text).whole))
      <4>1. Follows(r, SplitUp(text))
        BY <2>1, <3>7 DEF Follows
      <4>2. /\ Chained(SplitUp(text \o Line(r))) /\ TornOpen(SplitUp(text \o SubSeq(Line(r), 1, 1)))
            /\ EndsOpen(SplitUp(text \o SubSeq(Line(r), 1, 2)))
        BY <2>1, <3>7, <4>1, LineAfterChain
      <4> QED
        BY <3>2, <3>3, <3>4, <3>7, <4>2
    <3> QED
      BY <2>5, <2>8, <3>5, <3>6, <3>7 DEF RawInv, ChainedInv
  <2>9. \A h \in handed' : /\ h = Row(h.num, h.prev, h.content)
                           /\ h.num \in 1..MaxMessages /\ h.content \in Messages
    BY <2>1, <2>2 DEF RawInv, FileInv
  <2>10. handed \subseteq handed'
    BY <2>2
  <2> HIDE DEF bytes, T
  <2> QED
    BY <2>1, <2>2, <2>4, <2>6, <2>7, <2>8, <2>9, <2>10, CutKeeps
<1> QED
  BY <1>1, <1>2 DEF Die

-----------------------------------------------------------------------------
(* A file that somebody wrote anew.                                        *)

Relaid == INSTANCE FoldTheorems WITH Op <- AddLine

LEMMA LaidOut ==
  ASSUME NEW R, NEW records \in Seq(R)
  PROVE  FoldLeft(AddLine, <<>>, records) \in Seq(Bytes(R))
<1> DEFINE V == Seq(Bytes(R))
<1>1. ASSUME NEW t \in V, NEW r \in R PROVE AddLine(t, r) \in V
  BY <1>1, LineInBytes DEF AddLine, LineAfter
<1>2. <<>> \in V
  OBVIOUS
<1>3. FoldLeft(AddLine, <<>>, records) = Relaid!Folded(<<>>, records)
  BY Zenon DEF Relaid!Folded, FoldLeft, Relaid!FoldLeft, MapThenFoldSet, Relaid!MapThenFoldSet,
         Max, Relaid!Max
<1> HIDE DEF V
<1>4. Relaid!Folded(<<>>, records) \in V
  BY <1>1, <1>2, Relaid!FoldStaysIn
<1> QED
  BY <1>3, <1>4 DEF V

LEMMA RewriteKeeps ==
  ASSUME RawInv, NEW records \in Seq(Edited(handed)), Rewrite(records)
  PROVE  RawInv'
<1>1. /\ text' \in Seq(Bytes(Edited(handed))) /\ changes < MaxChanges /\ changes' = changes + 1
      /\ UNCHANGED <<pending, writer, handed, returned, rawFailed, torn, accidents>>
  BY LaidOut DEF Rewrite
<1>2. changes' # 0 /\ changes' \in 0..MaxChanges
  BY <1>1, RawAssumption DEF RawInv, HistoryInv
<1>3. FileInv'
  BY <1>1 DEF RawInv, FileInv
<1>4. WriterInv' /\ HistoryInv'
  BY <1>1, <1>2 DEF RawInv, WriterInv, HistoryInv
<1> QED
  BY <1>2, <1>3, <1>4 DEF RawInv, ChainedInv, KeptInv

LEMMA TamperKeeps == ASSUME RawInv, Tamper PROVE RawInv'
<1> DEFINE P == Records(text)
           R == Edited(handed)
<1>1. PICK i \in 1..Len(P) :
        \/ \E m \in Messages : Rewrite([P EXCEPT ![i].content = m])
        \/ Rewrite(RemoveAt(P, i))
        \/ i > 1 /\ Rewrite([P EXCEPT ![i] = P[i - 1], ![i - 1] = P[i]])
  BY DEF Tamper
<1>2. Readable(text)
  BY <1>1 DEF Rewrite
<1>3. P \in Seq(R) /\ Len(P) \in Nat
  BY <1>2, RecordsEdited
<1> HIDE DEF P
<1>4. ASSUME NEW m \in Messages PROVE [P EXCEPT ![i].content = m] \in Seq(R)
  <2> DEFINE x == [P[i] EXCEPT !.content = m]
  <2>1. x \in R
    <3>1. PICK h \in handed, c \in Messages : P[i] = [h EXCEPT !.content = c]
      BY <1>3 DEF Edited
    <3>2. h = Row(h.num, h.prev, h.content)
      BY DEF RawInv, FileInv
    <3>3. x = [h EXCEPT !.content = m]
      BY <3>1, <3>2 DEF Row
    <3> QED
      BY <3>3 DEF Edited
  <2> HIDE DEF x
  <2>2. [P EXCEPT ![i] = x] \in Seq(R)
    BY <1>3, <2>1
  <2> QED
    BY <2>2 DEF x
<1>5. RemoveAt(P, i) \in Seq(R)
  BY <1>3, Removed
<1>6. i > 1 => [P EXCEPT ![i] = P[i - 1], ![i - 1] = P[i]] \in Seq(R)
  BY <1>3
<1> HIDE DEF R
<1> QED
  BY <1>1, <1>4, <1>5, <1>6, RewriteKeeps DEF R

LEMMA RawSteps == RawInv /\ [RawNext]_rawVars => RawInv'
<1> SUFFICES ASSUME RawInv, [RawNext]_rawVars PROVE RawInv'
  OBVIOUS
<1>1. CASE UNCHANGED rawVars
  BY <1>1 DEF rawVars, RawInv, FileInv, WriterInv, HistoryInv, ChainedInv, KeptInv
<1>2. CASE RawNext
  BY <1>2, ResumeKeeps, CloseKeeps, DieKeeps, TamperKeeps, AppendKeeps, AppendFailsKeeps DEF RawNext
<1> QED
  BY <1>1, <1>2

-----------------------------------------------------------------------------
LEMMA RawFileIs == RawInv => RawTypeOK /\ RawFileKept
<1> SUFFICES ASSUME RawInv PROVE RawTypeOK /\ RawFileKept
  OBVIOUS
<1> DEFINE W == SplitUp(text).whole
           O == SplitUp(text).open
           S == Seq(Bytes(Edited(handed))) \ {<<>>}
<1>1. text \in Seq(Bytes(Edited(handed)))
  BY DEF RawInv, FileInv
<1>2. W \in Seq(S) /\ (O # <<>> => O \in S)
  BY <1>1, SplitsOf
<1>3. Records(text) = IF O = <<>> THEN Parses(W) ELSE Parses(Append(W, O))
  BY RecordsAre
<1>4. DeathIsNotTampering
  <2> SUFFICES ASSUME changes = 0, ~rawFailed, Readable(text) PROVE Verifies(Records(text))
    BY DEF DeathIsNotTampering
  <2>1. ~Unreadable(SplitUp(text)) /\ ~TornOpen(SplitUp(text))
    BY <1>1, ReadableIs
  <2>2. Chained(SplitUp(text)) \/ EndsOpen(SplitUp(text))
    BY <2>1 DEF RawInv, ChainedInv
  <2>3. EndsOpen(SplitUp(text)) => O # <<>>
    <3>1. Len(<<>>) = 0
      OBVIOUS
    <3> QED
      BY <3>1 DEF EndsOpen
  <2> QED
    BY <1>3, <2>2, <2>3 DEF Chained, EndsOpen
<1>5. ReturnedIsKept
  <2>1. Range(Parses(W)) \subseteq Range(Records(text))
    <3> HIDE DEF W, O, S
    <3>1. O # <<>> => Range(Parses(Append(W, O))) = Range(Parses(W)) \cup {Parsed(O)}
      BY <1>2, ParsesMore
    <3> QED
      BY <1>3, <3>1
  <2> QED
    BY <2>1 DEF RawInv, KeptInv, ReturnedIsKept
<1>6. ChangeIsSeen
  <2> SUFFICES ASSUME Readable(text), Verifies(Records(text)), NEW x \in Range(Records(text))
               PROVE  x \in handed
    BY DEF ChangeIsSeen, RawVerifies
  <2>1. Records(text) \in Seq(Edited(handed))
    BY RecordsEdited
  <2>2. PICK i \in 1..Len(Records(text)) : x = Records(text)[i]
    BY <2>1 DEF Range
  <2>3. x.hash = Hash(x.prev, x.content)
    BY <2>2 DEF Verifies, Holds
  <2>4. PICK h \in handed, c \in Messages : x = [h EXCEPT !.content = c]
    BY <2>1, <2>2 DEF Edited
  <2>5. h = Row(h.num, h.prev, h.content)
    BY DEF RawInv, FileInv
  <2>6. x.hash = h.hash /\ x.prev = h.prev /\ x.content = c /\ h.hash = Hash(h.prev, h.content)
    BY <2>4, <2>5 DEF Row
  <2>7. c = h.content
    BY <2>3, <2>6 DEF Hash
  <2>8. x = h
    BY <2>4, <2>5, <2>7 DEF Row
  <2> QED
    BY <2>8
<1>7. RawTypeOK
  BY DEF RawTypeOK, RawInv, FileInv, WriterInv, HistoryInv
<1> QED
  BY <1>4, <1>5, <1>6, <1>7 DEF RawFileKept

LEMMA RawPart == Spec => RawInit /\ [][RawNext]_rawVars
<1>1. Init => RawInit
  BY DEF Init
<1>2. [Next]_vars => [RawNext]_rawVars
  BY DEF Next, vars
<1> QED
  BY <1>1, <1>2, PTL DEF Spec

LEMMA RawAlways == Spec => []RawInv
<1>1. RawInit => RawInv
  BY InitRaw
<1>2. RawInv /\ [RawNext]_rawVars => RawInv'
  BY RawSteps
<1> QED
  BY <1>1, <1>2, RawPart, PTL

(* RawFileKept: a death alone never looks like tampering, what an append   *)
(* returned is in the file unless a death tore a line, and a file that     *)
(* verifies holds only records as they were written (tamper_chain.py).     *)
THEOREM RawFileHolds == Spec => []RawFileKept
<1>1. RawInv => RawFileKept
  BY RawFileIs
<1> QED
  BY <1>1, RawAlways, PTL


-----------------------------------------------------------------------------
(* Averages.  What n fills average to is a multiple of Grain[n].           *)

LEMMA Quotient ==
  ASSUME NEW q \in Nat \ {0}, NEW x \in Nat
  PROVE  (q * x) \div q = x
OBVIOUS

LEMMA WholeQuotient ==
  ASSUME NEW a \in Nat, NEW d \in Nat \ {0}, a % d = 0
  PROVE  \E k \in Nat : a = d * k
<1>1. a = d * (a \div d) + (a % d) /\ a \div d \in Nat
  OBVIOUS
<1> QED
  BY <1>1

Grained(e, n) == e = 0 \/ (n \in 1..MaxFills /\ \E k \in Nat : e = Grain[n] * k)

LEMMA ExactAverage ==
  ASSUME NEW n \in Nat, n < MaxFills, NEW held \in 1..(n * Lot), NEW more \in 1..Lot,
         NEW e \in Nat \ {0}, Grained(e, n), NEW p \in Nat \ {0}, p % Grain[n] = 0
  PROVE  LET q == held + more
             average == (held * e + more * p) \div q
         IN  average \in Nat \ {0} /\ q * average = held * e + more * p /\ Grained(average, n + 1)
<1> DEFINE G == Grain[n]
           H == Grain[n + 1]
           q == held + more
<1>1. n \in 1..(MaxFills - 1) /\ n + 1 \in 1..MaxFills /\ G \in Nat \ {0} /\ H \in Nat \ {0}
  BY FillAssumption, GrainAssumption DEF Grained
<1>2. q \in 1..((n + 1) * Lot) /\ q \in Nat \ {0} /\ held \in Nat /\ more \in Nat
  <2>1. n * Lot + Lot = (n + 1) * Lot /\ n * Lot \in Nat /\ (n + 1) * Lot \in Nat
    BY FillAssumption
  <2> QED
    BY <2>1, FillAssumption
<1>3. G % (q * H) = 0 /\ q * H \in Nat \ {0}
  BY <1>1, <1>2, GrainAssumption
<1>4. PICK m \in Nat : G = (q * H) * m
  <2> DEFINE a == G
             d == q * H
  <2>1. a \in Nat /\ d \in Nat \ {0} /\ a % d = 0
    BY <1>1, <1>3
  <2> HIDE DEF a, d
  <2>2. \E m \in Nat : a = d * m
    BY ONLY <2>1, WholeQuotient
  <2> QED
    BY <2>2 DEF a, d
<1>5. PICK x \in Nat : e = G * x
  BY DEF Grained
<1>6. PICK y \in Nat : p = G * y
  BY <1>1, WholeQuotient
<1> HIDE DEF G, H
<1> DEFINE N == held * x + more * y
           average == H * (m * N)
<1>7. N \in Nat /\ m * N \in Nat /\ average \in Nat
  BY <1>1, <1>2
<1>8. held * e + more * p = G * N
  BY <1>1, <1>2, <1>5, <1>6
<1> HIDE DEF N, q
<1>9. G * N = q * average
  BY <1>1, <1>2, <1>4, <1>7
<1> HIDE DEF average
<1>10. (held * e + more * p) \div q = average
  BY <1>2, <1>7, <1>8, <1>9, Quotient
<1>11. Grained(average, n + 1)
  BY <1>1, <1>7 DEF Grained, average, H
<1>12. average # 0
  <2>1. held * e \in Nat \ {0} /\ more * p \in Nat
    BY <1>2
  <2>2. q * 0 = 0 /\ q * average \in Nat
    BY <1>2, <1>7
  <2> QED
    BY <1>8, <1>9, <2>1, <2>2
<1> QED
  BY <1>7, <1>8, <1>9, <1>10, <1>11, <1>12 DEF q

LEMMA GrainedLater ==
  ASSUME NEW n \in Nat, n < MaxFills, NEW e \in Nat, Grained(e, n), NEW f \in Fills
  PROVE  Grained(e, n + 1)
<1>1. CASE e = 0
  BY <1>1 DEF Grained
<1>2. ASSUME n \in 1..MaxFills, NEW k \in Nat, e = Grain[n] * k PROVE Grained(e, n + 1)
  <2>1. /\ n \in 1..(MaxFills - 1) /\ n + 1 \in 1..MaxFills /\ Grain[n] \in Nat \ {0}
        /\ Grain[n + 1] \in Nat \ {0} /\ Lot \in Nat \ {0}
    BY <1>2, FillAssumption, GrainAssumption
  <2>2. 1 \in 1..((n + 1) * Lot)
    BY <2>1
  <2>3. Grain[n] % (1 * Grain[n + 1]) = 0 /\ 1 * Grain[n + 1] = Grain[n + 1]
    BY <2>1, <2>2, GrainAssumption
  <2>4. \E m \in Nat : Grain[n] = Grain[n + 1] * m
    <3>1. Grain[n] % Grain[n + 1] = 0
      BY <2>3
    <3>2. Grain[n] \in Nat
      BY <2>1
    <3> QED
      BY <2>1, <3>1, <3>2, WholeQuotient
  <2>5. PICK m \in Nat : Grain[n] = Grain[n + 1] * m
    BY <2>4
  <2>6. e = Grain[n + 1] * (m * k) /\ m * k \in Nat
    BY <1>2, <2>1, <2>5
  <2> QED
    BY <2>1, <2>6 DEF Grained
<1> QED
  BY <1>1, <1>2 DEF Grained

-----------------------------------------------------------------------------
(* A fill of a row.                                                        *)

(* Profit less fees less the cost of what is held. *)
Net(r) == r.realized - r.fees - Signed(r) * r.entry

FlatAtZero(r) ==
  /\ r.side = "FLAT" <=> r.quantity = 0
  /\ r.quantity = 0 <=> r.entry = 0

LEMMA FillOK ==
  ASSUME NEW f \in Fills
  PROVE  /\ f.symbol \in Symbols /\ f.buy \in BOOLEAN /\ f.quantity \in 1..Lot
         /\ f.quantity \in Nat \ {0}
         /\ f.price \in Nat \ {0} /\ f.fee \in Nat /\ CashOf(f) \in Int /\ Moved(f) \in Int
         /\ f # None
<1>1. f \in [symbol : Symbols, buy : BOOLEAN, quantity : 1..Lot, price : Nat \ {0}, fee : Nat]
  BY FillAssumption
<1>2. /\ f.symbol \in Symbols /\ f.buy \in BOOLEAN /\ f.quantity \in 1..Lot /\ f.quantity \in Nat \ {0}
      /\ f.price \in Nat \ {0} /\ f.fee \in Nat
  BY <1>1, FillAssumption
<1>3. Moved(f) \in Int
  BY <1>2 DEF Moved
<1> QED
  BY <1>2, <1>3, FillAssumption DEF CashOf

LEMMA RowOK ==
  ASSUME NEW r \in Rows
  PROVE  /\ r.side \in {"LONG", "SHORT", "FLAT"} /\ r.quantity \in Nat /\ r.entry \in Nat
         /\ r.mark \in Nat
         /\ r.unrealized \in Int /\ r.realized \in Int /\ r.fees \in Nat /\ r # None
         /\ Signed(r) \in Int /\ Net(r) \in Int
<1>1. /\ r.side \in {"LONG", "SHORT", "FLAT"} /\ r.quantity \in Nat /\ r.entry \in Nat /\ r.mark \in Nat
      /\ r.unrealized \in Int /\ r.realized \in Int /\ r.fees \in Nat
  BY DEF Rows
<1>2. Signed(r) \in Int
  BY <1>1 DEF Signed
<1> QED
  BY <1>1, <1>2, FillAssumption DEF Net

(* What a fill writes into a row that has paid its fee. *)
Booked(r, side, quantity, entry, realized) ==
  [r EXCEPT !.side = side, !.quantity = quantity, !.entry = entry, !.realized = realized]

Shares(side, quantity) ==
  CASE side = "LONG" -> quantity [] side = "SHORT" -> -quantity [] OTHER -> 0

(* apply_fill moves what the row is worth by the cash of the fill. *)
LEMMA FilledConserves ==
  ASSUME NEW r \in Rows, FlatAtZero(r), NEW f \in Fills, NEW n \in Nat, n < MaxFills,
         r.quantity <= n * Lot, Grained(r.entry, n)
  PROVE  LET filled == Filled(r, f)
         IN  /\ filled \in Rows /\ FlatAtZero(filled) /\ filled.mark = r.mark
             /\ filled.quantity <= (n + 1) * Lot /\ Grained(filled.entry, n + 1)
             /\ Net(filled) = Net(r) + CashOf(f)
             /\ r.side = "FLAT" => filled.entry = f.price /\ filled.unrealized = r.unrealized
<1>1. /\ f.buy \in BOOLEAN /\ f.quantity \in 1..Lot /\ f.quantity \in Nat \ {0} /\ f.price \in Nat \ {0}
      /\ f.fee \in Nat
  BY FillOK
<1>2. /\ r.side \in {"LONG", "SHORT", "FLAT"} /\ r.quantity \in Nat /\ r.entry \in Nat /\ r.mark \in Nat
      /\ r.unrealized \in Int /\ r.realized \in Int /\ r.fees \in Nat /\ Signed(r) \in Int
  BY RowOK
<1>3. n * Lot + Lot = (n + 1) * Lot /\ n * Lot \in Nat /\ Lot \in Nat
  BY FillAssumption
<1>4. Grained(f.price, n + 1) /\ Grained(0, n + 1) /\ Grained(r.entry, n + 1)
  <2>1. n + 1 \in 1..MaxFills
    BY FillAssumption
  <2>2. f.price % Grain[n + 1] = 0 /\ Grain[n + 1] \in Nat \ {0}
    BY <2>1, GrainAssumption
  <2>3. \E k \in Nat : f.price = Grain[n + 1] * k
    BY <1>1, <2>2, WholeQuotient
  <2> QED
    BY <1>2, <2>1, <2>3, GrainedLater DEF Grained
<1> DEFINE paying == [r EXCEPT !.fees = @ + f.fee]
<1>5. /\ paying \in Rows /\ paying.side = r.side /\ paying.quantity = r.quantity
      /\ paying.entry = r.entry
      /\ paying.mark = r.mark /\ paying.unrealized = r.unrealized /\ paying.realized = r.realized
      /\ paying.fees = r.fees + f.fee /\ Signed(paying) = Signed(r)
  BY <1>1, <1>2 DEF Rows, Signed
<1> HIDE DEF paying
\* What the fill changes: side, quantity, entry price, profit.
<1>6. ASSUME NEW side \in {"LONG", "SHORT", "FLAT"}, NEW quantity \in Nat, NEW entry \in Nat,
             NEW realized \in Int,
             Filled(r, f) = Booked(paying, side, quantity, entry, realized),
             side = "FLAT" <=> quantity = 0, quantity = 0 <=> entry = 0,
             quantity <= r.quantity + f.quantity, Grained(entry, n + 1),
             realized - Shares(side, quantity) * entry
               = r.realized - Signed(r) * r.entry - Moved(f) * f.price
      PROVE  LET filled == Filled(r, f)
             IN  /\ filled \in Rows /\ FlatAtZero(filled) /\ filled.mark = r.mark
                 /\ filled.quantity <= (n + 1) * Lot /\ Grained(filled.entry, n + 1)
                 /\ Net(filled) = Net(r) + CashOf(f)
                 /\ filled.entry = entry /\ filled.unrealized = r.unrealized
  <2> DEFINE filled == Filled(r, f)
             now == Shares(side, quantity)
  <2>1. /\ filled \in Rows /\ filled.side = side /\ filled.quantity = quantity /\ filled.entry = entry
        /\ filled.realized = realized /\ filled.fees = r.fees + f.fee /\ filled.mark = r.mark
        /\ filled.unrealized = r.unrealized
    BY <1>5, <1>6 DEF Rows, Booked
  <2>2. quantity <= (n + 1) * Lot
    BY <1>1, <1>2, <1>3, <1>6
  <2> HIDE DEF filled
  <2>3. Signed(filled) = now /\ now \in Int
    BY <2>1, <1>6 DEF Signed, Shares
  <2>4. realized - now * entry = r.realized - Signed(r) * r.entry - Moved(f) * f.price
    BY <1>6
  <2> HIDE DEF now
  <2>5. Net(filled) = realized - (r.fees + f.fee) - now * entry
    BY <2>1, <2>3 DEF Net
  <2>6. /\ now * entry \in Int /\ Signed(r) * r.entry \in Int /\ Moved(f) * f.price \in Int
        /\ -Moved(f) * f.price = -(Moved(f) * f.price)
    BY <1>1, <1>2, <1>6, <2>3, FillOK
  <2>7. Net(filled) = Net(r) + CashOf(f)
    <3>1. CashOf(f) = -(Moved(f) * f.price) - f.fee
      BY <2>6 DEF CashOf
    <3>2. Net(r) = r.realized - r.fees - Signed(r) * r.entry
      BY DEF Net
    <3>3. \A a, b, c, d, x, y, z \in Int :
            a - x = b - y - z => a - (c + d) - x = (b - c - y) + (-z - d)
      OBVIOUS
    <3> QED
      BY <1>1, <1>2, <1>6, <2>4, <2>5, <2>6, <3>1, <3>2, <3>3
  <2> QED
    BY <1>6, <2>1, <2>2, <2>7 DEF FlatAtZero, filled
<1>7. CASE r.side = "FLAT"
  <2>1. Filled(r, f) = Open(paying, f)
    BY <1>7 DEF Filled, paying
  <2>2. Open(paying, f) = [paying EXCEPT !.side = Side(Moved(f)), !.quantity = f.quantity,
                                         !.entry = f.price, !.realized = r.realized]
    BY <1>5 DEF Open, Rows
  <2>3. Filled(r, f) = Booked(paying, Side(Moved(f)), f.quantity, f.price, r.realized)
    BY <2>1, <2>2 DEF Booked
  <2>4. r.quantity = 0 /\ r.entry = 0 /\ Signed(r) = 0
    BY <1>2, <1>7 DEF FlatAtZero, Signed
  <2>5. \/ Side(Moved(f)) = "LONG" /\ Moved(f) = f.quantity
        \/ Side(Moved(f)) = "SHORT" /\ Moved(f) = -f.quantity
    BY <1>1 DEF Side, Moved
  <2>6. Shares(Side(Moved(f)), f.quantity) = Moved(f)
    BY <2>5 DEF Shares
  <2>7. /\ Side(Moved(f)) \in {"LONG", "SHORT", "FLAT"}
        /\ Side(Moved(f)) = "FLAT" <=> f.quantity = 0
        /\ f.quantity = 0 <=> f.price = 0
        /\ f.quantity <= r.quantity + f.quantity
    BY <1>1, <1>2, <2>5
  <2>8. r.realized - Shares(Side(Moved(f)), f.quantity) * f.price
          = r.realized - Signed(r) * r.entry - Moved(f) * f.price
    BY <1>1, <1>2, <2>4, <2>6, FillOK
  <2> HIDE DEF paying
  <2> QED
    BY <1>1, <1>2, <1>4, <1>6, <2>3, <2>7, <2>8
<1>8. CASE r.side # "FLAT" /\ Side(Signed(r)) = Side(Moved(f))
  <2>1. Filled(r, f) = Increase(paying, f)
    BY <1>8 DEF Filled, paying
  <2> DEFINE q == r.quantity + f.quantity
             average == (r.quantity * r.entry + f.quantity * f.price) \div q
  <2>2. r.quantity \in 1..(n * Lot) /\ r.entry \in Nat \ {0}
    BY <1>2, <1>3, <1>8 DEF FlatAtZero
  <2>3. /\ average \in Nat \ {0} /\ q * average = r.quantity * r.entry + f.quantity * f.price
        /\ Grained(average, n + 1)
    <3>1. f.price % Grain[n] = 0
      <4>1. n \in 1..MaxFills
        BY <2>2 DEF Grained
      <4> QED
        BY <4>1, GrainAssumption
    <3> QED
      BY <1>1, <2>2, <3>1, ExactAverage
  <2>4. Filled(r, f) = Booked(paying, r.side, q, average, r.realized)
    BY <1>5, <2>1 DEF Increase, Rows, Booked
  <2>5. \/ r.side = "LONG" /\ Signed(r) = r.quantity /\ Moved(f) = f.quantity
        \/ r.side = "SHORT" /\ Signed(r) = -r.quantity /\ Moved(f) = -f.quantity
    BY <1>1, <1>2, <1>8, <2>2 DEF Side, Moved, Signed
  <2>6. /\ r.quantity * r.entry \in Int /\ f.quantity * f.price \in Int
        /\ (-r.quantity) * r.entry = -(r.quantity * r.entry)
        /\ (-f.quantity) * f.price = -(f.quantity * f.price)
        /\ q \in Nat /\ (-q) * average = -(q * average) /\ q # 0
    BY <1>1, <1>2, <2>3
  <2> HIDE DEF paying, average, q
  <2>7. r.realized - Shares(r.side, q) * average
          = r.realized - Signed(r) * r.entry - Moved(f) * f.price
    BY <1>2, <2>3, <2>5, <2>6 DEF Shares
  <2>8. q <= r.quantity + f.quantity
    BY <1>1, <1>2 DEF q
  <2> QED
    BY <1>2, <1>6, <1>8, <2>3, <2>4, <2>5, <2>6, <2>7, <2>8
<1>9. CASE r.side # "FLAT" /\ Side(Signed(r)) # Side(Moved(f))
  <2>1. Filled(r, f) = Reduce(paying, f)
    BY <1>9 DEF Filled, paying
  <2> DEFINE now == Signed(r) + Moved(f)
             closed == IF r.quantity < f.quantity THEN r.quantity ELSE f.quantity
             gain == closed * (IF r.side = "LONG" THEN f.price - r.entry ELSE r.entry - f.price)
             side == IF now = 0 THEN "FLAT" ELSE Side(now)
             entry == IF now = 0 THEN 0 ELSE IF r.quantity > f.quantity THEN r.entry ELSE f.price
  <2>2. Filled(r, f) = Booked(paying, side, Abs(now), entry, r.realized + gain)
    <3>1. /\ paying.side = r.side /\ paying.quantity = r.quantity /\ paying.entry = r.entry
          /\ paying.realized = r.realized /\ Signed(paying) = Signed(r)
      BY <1>5 DEF Rows, Signed
    <3>2. Reduce(paying, f)
            = [paying EXCEPT !.realized = r.realized + gain, !.side = side,
                             !.quantity = Abs(now), !.entry = entry]
      BY <1>5, <3>1 DEF Reduce, Rows
    <3> HIDE DEF side, now, entry, gain
    <3> QED
      BY <1>5, <2>1, <3>2 DEF Booked, Rows
  <2>3. r.quantity \in Nat \ {0} /\ r.entry \in Nat \ {0}
    BY <1>2, <1>9 DEF FlatAtZero
  <2>4. \/ r.side = "LONG" /\ Signed(r) = r.quantity /\ Moved(f) = -f.quantity
        \/ r.side = "SHORT" /\ Signed(r) = -r.quantity /\ Moved(f) = f.quantity
    BY <1>1, <1>2, <1>9, <2>3 DEF Side, Moved, Signed
  <2>5. /\ now \in Int /\ closed \in Nat /\ gain \in Int /\ Abs(now) \in Nat /\ entry \in Nat
        /\ side \in {"LONG", "SHORT", "FLAT"}
        /\ side = "FLAT" <=> Abs(now) = 0
        /\ Abs(now) = 0 <=> entry = 0
        /\ Abs(now) <= r.quantity + f.quantity
    BY <1>1, <1>2, <2>3, <2>4 DEF Abs, Side
  <2>6. Grained(entry, n + 1)
    BY <1>4
  <2>7. now = Shares(side, Abs(now))
    BY <2>5 DEF Abs, Side, Shares
  <2>8. gain - now * entry = -(Signed(r) * r.entry) - Moved(f) * f.price
    <3> DEFINE Q == r.quantity
               F == f.quantity
               E == r.entry
               P == f.price
    <3>1. Q \in Nat /\ F \in Nat /\ E \in Nat /\ P \in Nat
      BY <1>1, <1>2
    <3> HIDE DEF Q, F, E, P
    <3>2. /\ Q * E \in Int /\ Q * P \in Int /\ F * E \in Int /\ F * P \in Int
          /\ Q * (P - E) = Q * P - Q * E /\ Q * (E - P) = Q * E - Q * P
          /\ F * (P - E) = F * P - F * E /\ F * (E - P) = F * E - F * P
          /\ (-Q) * E = -(Q * E) /\ (-F) * P = -(F * P)
          /\ (Q - F) * E = Q * E - F * E /\ (F - Q) * E = F * E - Q * E
          /\ (Q - F) * P = Q * P - F * P /\ (F - Q) * P = F * P - Q * P
      BY <3>1
    <3>3. CASE r.side = "LONG"
      <4>1. Signed(r) = Q /\ Moved(f) = -F /\ now = Q - F
        BY <1>1, <1>2, <2>4, <3>3 DEF Q, F
      <4>2. gain = closed * (P - E) /\ closed = (IF Q < F THEN Q ELSE F)
        BY <3>3 DEF Q, F, E, P
      <4>3. entry = IF Q = F THEN 0 ELSE IF Q > F THEN E ELSE P
        BY <3>1, <4>1 DEF Q, F, E, P
      <4>4. Signed(r) * r.entry = Q * E /\ Moved(f) * f.price = (-F) * P
        BY <4>1 DEF E, P
      <4> HIDE DEF gain, closed, now, entry
      <4>5. CASE Q > F
        BY <3>1, <3>2, <4>1, <4>2, <4>3, <4>4, <4>5
      <4>6. CASE Q = F
        BY <3>1, <3>2, <4>1, <4>2, <4>3, <4>4, <4>6
      <4>7. CASE Q < F
        BY <3>1, <3>2, <4>1, <4>2, <4>3, <4>4, <4>7
      <4> QED
        BY <3>1, <4>5, <4>6, <4>7
    <3>4. CASE r.side = "SHORT"
      <4>1. Signed(r) = -Q /\ Moved(f) = F /\ now = F - Q
        BY <1>1, <1>2, <2>4, <3>4 DEF Q, F
      <4>2. gain = closed * (E - P) /\ closed = (IF Q < F THEN Q ELSE F)
        BY <3>4 DEF Q, F, E, P
      <4>3. entry = IF Q = F THEN 0 ELSE IF Q > F THEN E ELSE P
        BY <3>1, <4>1 DEF Q, F, E, P
      <4>4. Signed(r) * r.entry = (-Q) * E /\ Moved(f) * f.price = F * P
        BY <4>1 DEF E, P
      <4> HIDE DEF gain, closed, now, entry
      <4>5. CASE Q > F
        BY <3>1, <3>2, <4>1, <4>2, <4>3, <4>4, <4>5
      <4>6. CASE Q = F
        BY <3>1, <3>2, <4>1, <4>2, <4>3, <4>4, <4>6
      <4>7. CASE Q < F
        BY <3>1, <3>2, <4>1, <4>2, <4>3, <4>4, <4>7
      <4> QED
        BY <3>1, <4>5, <4>6, <4>7
    <3> QED
      BY <2>4, <3>3, <3>4
  <2> HIDE DEF paying, gain, closed, side, entry
  <2>9. (r.realized + gain) - Shares(side, Abs(now)) * entry
          = r.realized - Signed(r) * r.entry - Moved(f) * f.price
    <3>1. now * entry \in Int /\ Signed(r) * r.entry \in Int /\ Moved(f) * f.price \in Int
      BY <1>1, <1>2, <2>5, FillOK
    <3>2. (r.realized + gain) - now * entry = r.realized - Signed(r) * r.entry - Moved(f) * f.price
      <4>1. \A a, g, x, y, z \in Int : g - x = -y - z => (a + g) - x = a - y - z
        OBVIOUS
      <4>2. r.realized \in Int /\ gain \in Int
        BY <1>2, <2>5
      <4> HIDE DEF now
      <4> QED
        BY <2>8, <3>1, <4>1, <4>2
    <3> QED
      BY <2>7, <3>2
  <2>10. r.realized + gain \in Int
    BY <1>2, <2>5
  <2> HIDE DEF now
  <2> QED
    BY <1>6, <1>9, <2>2, <2>5, <2>6, <2>9, <2>10
<1> QED
  BY <1>7, <1>8, <1>9

-----------------------------------------------------------------------------
(* All rows.                                                               *)

Positions == [Symbols -> Rows \cup {None}]
KnownIn(p) == {s \in Symbols : p[s] # None}
Worths(p) == [s \in KnownIn(p) |-> Net(p[s])]
NetOf(p) == SumFunctionOnSet(Worths(p), KnownIn(p))

LEMMA KnownRow ==
  ASSUME NEW p \in Positions, NEW s \in KnownIn(p)
  PROVE  s \in Symbols /\ p[s] \in Rows
BY DEF Positions, KnownIn

LEMMA KnownFinite ==
  ASSUME NEW p
  PROVE  IsFiniteSet(KnownIn(p))
<1>1. KnownIn(p) \subseteq Symbols /\ IsFiniteSet(Symbols)
  BY FillAssumption DEF KnownIn
<1> QED
  BY <1>1, FS_Subset

EarnedBy(p) == SumFunctionOnSet([s \in KnownIn(p) |-> p[s].realized], KnownIn(p))
FeesOf(p) == SumFunctionOnSet([s \in KnownIn(p) |-> p[s].fees], KnownIn(p))
CostOf(p) == SumFunctionOnSet([s \in KnownIn(p) |-> Signed(p[s]) * p[s].entry], KnownIn(p))

(* What was earned, less fees and costs, row by row. *)
LEMMA NetAddsUp ==
  ASSUME NEW p \in Positions
  PROVE  /\ EarnedBy(p) \in Int /\ FeesOf(p) \in Int /\ CostOf(p) \in Int
         /\ EarnedBy(p) - FeesOf(p) - CostOf(p) = NetOf(p)
<1> DEFINE K == KnownIn(p)
           earned == [s \in K |-> p[s].realized]
           fees == [s \in K |-> p[s].fees]
           cost == [s \in K |-> Signed(p[s]) * p[s].entry]
           gross == [s \in K |-> p[s].realized - p[s].fees]
<1>1. IsFiniteSet(K)
  BY KnownFinite
<1>2. ASSUME NEW s \in K
      PROVE  /\ earned[s] \in Int /\ fees[s] \in Int /\ cost[s] \in Int /\ gross[s] \in Int
             /\ gross[s] = earned[s] - fees[s] /\ Worths(p)[s] = gross[s] - cost[s]
  <2>1. p[s] \in Rows
    BY KnownRow
  <2>2. p[s].realized \in Int /\ p[s].fees \in Int /\ p[s].entry \in Int /\ Signed(p[s]) \in Int
    BY <2>1, RowOK
  <2> QED
    BY <2>2 DEF Worths, Net
<1> HIDE DEF K, earned, fees, cost, gross
<1>3. SumFunctionOnSet(gross, K) = SumFunctionOnSet(earned, K) - SumFunctionOnSet(fees, K)
  BY <1>1, <1>2, SumMinus
<1>4. SumFunctionOnSet(Worths(p), K) = SumFunctionOnSet(gross, K) - SumFunctionOnSet(cost, K)
  BY <1>1, <1>2, SumMinus
<1>5. /\ SumFunctionOnSet(earned, K) \in Int /\ SumFunctionOnSet(fees, K) \in Int
      /\ SumFunctionOnSet(cost, K) \in Int
  <2>1. (\A s \in K : earned[s] \in Int) /\ (\A s \in K : fees[s] \in Int)
             /\ (\A s \in K : cost[s] \in Int)
    BY <1>2
  <2> QED
    BY <1>1, <2>1, SumOfOneMore
<1>6. /\ EarnedBy(p) = SumFunctionOnSet(earned, K) /\ FeesOf(p) = SumFunctionOnSet(fees, K)
      /\ CostOf(p) = SumFunctionOnSet(cost, K) /\ NetOf(p) = SumFunctionOnSet(Worths(p), K)
  BY DEF EarnedBy, FeesOf, CostOf, NetOf, K, earned, fees, cost
<1> QED
  BY <1>3, <1>4, <1>5, <1>6

(* A row is written: its worth changes, or begins to count. *)
LEMMA NetChanges ==
  ASSUME NEW p \in Positions, NEW s \in Symbols, NEW row \in Rows, NEW old \in Int,
         old = IF p[s] = None THEN 0 ELSE Net(p[s])
  PROVE  LET q == [p EXCEPT ![s] = row]
         IN  q \in Positions /\ NetOf(q) = NetOf(p) + (Net(row) - old) /\ NetOf(p) \in Int
<1> DEFINE q == [p EXCEPT ![s] = row]
<1>1. q \in Positions /\ q[s] = row /\ \A t \in Symbols \ {s} : q[t] = p[t]
  BY DEF Positions
<1>2. row # None
  BY RowOK
<1>3. KnownIn(q) = KnownIn(p) \cup {s}
  BY <1>1, <1>2 DEF KnownIn
<1> DEFINE K == KnownIn(p)
<1>4. IsFiniteSet(K)
  BY KnownFinite
<1>5. \A t \in K : Worths(p)[t] \in Int
  <2> SUFFICES ASSUME NEW t \in K PROVE Worths(p)[t] \in Int
    OBVIOUS
  <2>1. Net(p[t]) \in Int
    BY KnownRow, RowOK
  <2> QED
    BY <2>1 DEF Worths
<1>6. Worths(q)[s] = Net(row) /\ Net(row) \in Int
  BY <1>1, <1>3, RowOK DEF Worths
<1>7. \A t \in K \ {s} : Worths(q)[t] = Worths(p)[t]
  BY <1>1, <1>3 DEF Worths, KnownIn
<1>8. old = IF s \in K THEN Worths(p)[s] ELSE 0
  BY DEF Worths, KnownIn
<1>9. SumFunctionOnSet(Worths(q), K \cup {s}) = SumFunctionOnSet(Worths(p), K) + (Worths(q)[s] - old)
  <2> DEFINE f == Worths(p)
             g == Worths(q)
  <2>1. /\ \A t \in K : f[t] \in Int
        /\ \A t \in K \ {s} : g[t] = f[t]
        /\ g[s] \in Int
    BY <1>5, <1>6, <1>7
  <2>2. old = IF s \in K THEN f[s] ELSE 0
    BY <1>8
  <2> HIDE DEF f, g, q, K
  <2>3. Enters(s, f, K, g, K \cup {s})
    BY <1>4, <2>1 DEF Enters
  <2>4. /\ s \in K => SumFunctionOnSet(g, K \cup {s}) = SumFunctionOnSet(f, K) + (g[s] - f[s])
        /\ s \notin K => SumFunctionOnSet(g, K \cup {s}) = SumFunctionOnSet(f, K) + g[s]
    BY <2>3, SumEntered
  <2>5. SumFunctionOnSet(f, K) \in Int
    BY <1>4, <2>1, SumOfOneMore
  <2>6. SumFunctionOnSet(g, K \cup {s}) = SumFunctionOnSet(f, K) + (g[s] - old)
    BY <2>1, <2>2, <2>4, <2>5
  <2> QED
    BY <2>6 DEF f, g
<1> HIDE DEF q, K
<1>10. SumFunctionOnSet(Worths(p), K) \in Int
  BY <1>4, <1>5, SumOfOneMore
<1> QED
  BY <1>1, <1>3, <1>6, <1>9, <1>10 DEF NetOf, K, q

-----------------------------------------------------------------------------
(* The portfolio.                                                          *)

(* n fills amount to n lots at most, and average to the grain of n.        *)
RowsInv ==
  /\ position \in Positions
  /\ \A s \in KnownIn(position) :
       /\ FlatAtZero(position[s])
       /\ position[s].quantity <= booked * Lot /\ Grained(position[s].entry, booked)

BooksInv ==
  /\ due \in Fills \cup {None} /\ cash \in Int \cup {None} /\ lost \in Int
  /\ booked \in 0..MaxFills /\ paid \in 0..MaxFills
  /\ booked = paid + IF due = None THEN 0 ELSE 1

MarksInv ==
  /\ marked \subseteq KnownIn(position)
  /\ \A s \in marked : position[s].unrealized = Gain(position[s], position[s].mark)

(* A summary under way that has seen every payment has seen the cash.      *)
ReadersInv ==
  /\ reader \in [Readers -> [at : {"idle", "balance", "done"}, cash : Int \cup {None},
                             paid : Nat, equity : Int \cup {None}, profit : Int]]
  /\ \A r \in Readers :
       /\ reader[r].paid <= paid
       /\ reader[r].at = "balance" /\ reader[r].paid = paid => reader[r].cash = cash

PortfolioInv == RowsInv /\ BooksInv /\ MarksInv /\ ReadersInv /\ MoneyConserved

(* The row that a fill writes, also where there was none. *)
RowAfter(p, f) ==
  IF p[f.symbol] = None THEN [Filled(NoRow, f) EXCEPT !.mark = f.price] ELSE Filled(p[f.symbol], f)

LEMMA RowIsWritten ==
  ASSUME NEW p \in Positions, NEW f \in Fills, NEW n \in Nat, n < MaxFills,
         \A s \in KnownIn(p) :
           FlatAtZero(p[s]) /\ p[s].quantity <= n * Lot /\ Grained(p[s].entry, n)
  PROVE  LET row == RowAfter(p, f)
             old == IF p[f.symbol] = None THEN 0 ELSE Net(p[f.symbol])
         IN  /\ row \in Rows /\ FlatAtZero(row) /\ row.quantity <= (n + 1) * Lot
             /\ Grained(row.entry, n + 1) /\ Net(row) - old = CashOf(f) /\ old \in Int
             /\ p[f.symbol] = None => row.unrealized = Gain(row, row.mark)
<1>1. f.symbol \in Symbols /\ f.price \in Nat \ {0} /\ CashOf(f) \in Int
  BY FillOK
<1>2. CASE p[f.symbol] = None
  <2> DEFINE filled == Filled(NoRow, f)
             row == [filled EXCEPT !.mark = f.price]
  <2>1. /\ NoRow \in Rows /\ FlatAtZero(NoRow) /\ NoRow.quantity <= n * Lot /\ Grained(NoRow.entry, n)
        /\ NoRow.side = "FLAT" /\ NoRow.unrealized = 0 /\ Net(NoRow) = 0
    <3>1. 0 <= n * Lot
      BY FillAssumption
    <3> QED
      BY <3>1 DEF NoRow, Rows, FlatAtZero, Grained, Net, Signed
  <2>2. /\ filled \in Rows /\ FlatAtZero(filled) /\ filled.quantity <= (n + 1) * Lot
        /\ Grained(filled.entry, n + 1) /\ Net(filled) = Net(NoRow) + CashOf(f)
        /\ filled.entry = f.price /\ filled.unrealized = 0
    <3> HIDE DEF filled
    <3>1. filled = Filled(NoRow, f)
      BY DEF filled
    <3> QED
      BY <2>1, <3>1, FilledConserves
  <2> HIDE DEF filled
  <2>3. /\ row \in Rows /\ row.side = filled.side /\ row.quantity = filled.quantity
        /\ row.entry = filled.entry /\ row.realized = filled.realized /\ row.fees = filled.fees
        /\ row.unrealized = filled.unrealized /\ row.mark = f.price
    BY <1>1, <2>2 DEF Rows
  <2>4. Net(row) = Net(filled) /\ FlatAtZero(row) /\ Signed(row) \in Int
    BY <2>2, <2>3, RowOK DEF Net, Signed, FlatAtZero
  <2> HIDE DEF row
  <2>5. Gain(row, row.mark) = 0
    <3>1. Signed(row) * 0 = 0
      BY <2>4
    <3>2. row.mark - row.entry = 0
      BY <1>1, <2>2, <2>3
    <3> QED
      BY <3>1, <3>2 DEF Gain
  <2>6. RowAfter(p, f) = row
    BY <1>2 DEF RowAfter, row, filled
  <2> QED
    BY <1>1, <1>2, <2>1, <2>2, <2>3, <2>4, <2>5, <2>6
<1>3. CASE p[f.symbol] # None
  <2> DEFINE r == p[f.symbol]
             row == Filled(r, f)
  <2>1. /\ r \in Rows /\ FlatAtZero(r) /\ r.quantity <= n * Lot /\ Grained(r.entry, n) /\ Net(r) \in Int
    <3>1. f.symbol \in KnownIn(p)
      BY <1>1, <1>3 DEF KnownIn
    <3> QED
      BY <3>1, KnownRow, RowOK
  <2> HIDE DEF r, row
  <2>2. row = Filled(r, f)
    BY DEF row
  <2>3. /\ row \in Rows /\ FlatAtZero(row) /\ row.quantity <= (n + 1) * Lot
        /\ Grained(row.entry, n + 1) /\ Net(row) = Net(r) + CashOf(f)
    BY <2>1, <2>2, FilledConserves
  <2>4. RowAfter(p, f) = row
    BY <1>3 DEF RowAfter, row, r
  <2> QED
    BY <1>1, <1>3, <2>1, <2>3, <2>4 DEF r
<1> QED
  BY <1>2, <1>3

LEMMA MoneyByRows ==
  ASSUME position \in Positions
  PROVE  MoneyConserved <=> (cash # None => cash + Owed = Deposit + NetOf(position)) 
<1>1. Earned = EarnedBy(position) /\ Fees = FeesOf(position) /\ Cost = CostOf(position)
  BY DEF Earned, Fees, Cost, EarnedBy, FeesOf, CostOf, Known, KnownIn
<1>2. /\ EarnedBy(position) \in Int /\ FeesOf(position) \in Int /\ CostOf(position) \in Int
      /\ EarnedBy(position) - FeesOf(position) - CostOf(position) = NetOf(position)
  BY NetAddsUp
<1>3. Deposit + Earned - Fees - Cost = Deposit + NetOf(position)
  BY <1>1, <1>2, FillAssumption
<1> QED
  BY <1>3 DEF MoneyConserved

LEMMA MoneyByRowsLater ==
  ASSUME position' \in Positions
  PROVE  MoneyConserved' <=> (cash' # None => cash' + Owed' = Deposit + NetOf(position'))
<1>1. Earned' = EarnedBy(position') /\ Fees' = FeesOf(position') /\ Cost' = CostOf(position')
  BY DEF Earned, Fees, Cost, EarnedBy, FeesOf, CostOf, Known, KnownIn
<1>2. /\ EarnedBy(position') \in Int /\ FeesOf(position') \in Int /\ CostOf(position') \in Int
      /\ EarnedBy(position') - FeesOf(position') - CostOf(position') = NetOf(position')
  BY NetAddsUp
<1>3. Deposit + Earned' - Fees' - Cost' = Deposit + NetOf(position')
  BY <1>1, <1>2, FillAssumption
<1> QED
  BY <1>3 DEF MoneyConserved

LEMMA InitPortfolio == PortfolioInit => PortfolioInv
<1> SUFFICES ASSUME PortfolioInit PROVE PortfolioInv
  OBVIOUS
<1>1. position \in Positions /\ KnownIn(position) = {}
  BY DEF PortfolioInit, Positions, KnownIn
<1>2. RowsInv /\ BooksInv /\ MarksInv /\ ReadersInv
  <2>1. RowsInv
    BY <1>1 DEF RowsInv
  <2>2. BooksInv
    BY FillAssumption DEF BooksInv, PortfolioInit
  <2>3. MarksInv
    BY DEF MarksInv, PortfolioInit
  <2>4. ReadersInv
    BY DEF ReadersInv, PortfolioInit, Idle
  <2> QED
    BY <2>1, <2>2, <2>3, <2>4
<1>3. MoneyConserved
  <2>1. NetOf(position) = 0
    BY <1>1, SumOfNone DEF NetOf
  <2>2. Owed = 0
    BY DEF Owed, PortfolioInit
  <2>3. cash # None => cash = Deposit
    BY DEF PortfolioInit
  <2> QED
    BY <1>1, <2>1, <2>2, <2>3, MoneyByRows, FillAssumption
<1> QED
  BY <1>2, <1>3 DEF PortfolioInv

LEMMA StepBook ==
  ASSUME PortfolioInv, NEW f \in Fills, Book(f)
  PROVE  PortfolioInv'
<1> DEFINE row == RowAfter(position, f)
           old == IF position[f.symbol] = None THEN 0 ELSE Net(position[f.symbol])
<1>1. position' = [position EXCEPT ![f.symbol] = row] /\ due = None /\ due' = f /\ booked < MaxFills
  BY DEF Book, RowAfter
<1>2. /\ position \in Positions /\ booked \in 0..MaxFills /\ booked \in Nat /\ booked = paid
      /\ \A s \in KnownIn(position) :
           /\ FlatAtZero(position[s])
           /\ position[s].quantity <= booked * Lot /\ Grained(position[s].entry, booked)
  BY <1>1, FillAssumption DEF PortfolioInv, RowsInv, BooksInv
<1>3. /\ row \in Rows /\ FlatAtZero(row) /\ row.quantity <= (booked + 1) * Lot
      /\ Grained(row.entry, booked + 1) /\ Net(row) - old = CashOf(f) /\ old \in Int
      /\ position[f.symbol] = None => row.unrealized = Gain(row, row.mark)
  BY <1>1, <1>2, RowIsWritten
<1>4. f.symbol \in Symbols /\ CashOf(f) \in Int /\ f # None /\ row # None
  BY <1>3, FillOK, RowOK
<1> HIDE DEF row
<1>5. /\ position' \in Positions /\ NetOf(position') = NetOf(position) + (Net(row) - old)
      /\ NetOf(position) \in Int
  <2> HIDE DEF old
  <2>1. old = IF position[f.symbol] = None THEN 0 ELSE Net(position[f.symbol])
    BY DEF old
  <2> QED
    BY <1>1, <1>2, <1>3, <1>4, <2>1, NetChanges
<1> HIDE DEF old
<1>6. /\ KnownIn(position') = KnownIn(position) \cup {f.symbol} /\ position'[f.symbol] = row
      /\ \A s \in Symbols \ {f.symbol} : position'[s] = position[s]
  BY <1>1, <1>2, <1>4 DEF KnownIn, Positions
<1>7. booked' = booked + 1 /\ booked' \in 0..MaxFills
  BY <1>1, <1>2, FillAssumption DEF Book
<1>8. RowsInv'
  <2>1. ASSUME NEW s \in KnownIn(position')
        PROVE  /\ FlatAtZero(position'[s])
               /\ position'[s].quantity <= (booked + 1) * Lot /\ Grained(position'[s].entry, booked + 1)
    <3>1. CASE s = f.symbol
      BY <1>3, <1>6, <3>1
    <3>2. CASE s # f.symbol
      <4>1. s \in KnownIn(position) /\ position'[s] = position[s]
        BY <1>6, <2>1, <3>2 DEF KnownIn
      <4>2. position[s].quantity \in Nat /\ position[s].entry \in Nat
        BY <1>2, <4>1, KnownRow, RowOK
      <4>3. booked * Lot <= (booked + 1) * Lot /\ booked * Lot \in Nat /\ (booked + 1) * Lot \in Nat
        BY <1>2, FillAssumption
      <4>4. Grained(position[s].entry, booked + 1)
        BY <1>1, <1>2, <4>1, <4>2, GrainedLater
      <4> QED
        BY <1>2, <4>1, <4>2, <4>3, <4>4
    <3> QED
      BY <3>1, <3>2
  <2> QED
    BY <1>5, <1>7, <2>1 DEF RowsInv
<1>9. BooksInv'
  BY <1>1, <1>2, <1>4, <1>7 DEF BooksInv, Book, PortfolioInv
<1>10. MarksInv'
  <2>1. ASSUME NEW s \in marked'
        PROVE  s \in KnownIn(position')
               /\ position'[s].unrealized = Gain(position'[s], position'[s].mark)
    <3>1. CASE s = f.symbol
      BY <1>3, <1>6, <2>1, <3>1 DEF Book
    <3>2. CASE s # f.symbol
      <4>1. s \in marked
        BY <2>1, <3>2 DEF Book
      <4>2. s \in KnownIn(position) /\ position[s].unrealized = Gain(position[s], position[s].mark)
        BY <4>1 DEF PortfolioInv, MarksInv
      <4>3. position'[s] = position[s]
        BY <1>6, <3>2, <4>2 DEF KnownIn
      <4> QED
        BY <1>6, <4>2, <4>3
    <3> QED
      BY <3>1, <3>2
  <2> QED
    BY <2>1 DEF MarksInv
<1>11. ReadersInv'
  BY DEF ReadersInv, Book, PortfolioInv
<1>12. MoneyConserved'
  <2>1. Owed = lost /\ Owed' = lost + CashOf(f) /\ cash' = cash /\ lost \in Int
    BY <1>1, <1>4 DEF Owed, Book, PortfolioInv, BooksInv
  <2>2. cash # None => cash \in Int /\ cash + Owed = Deposit + NetOf(position)
    BY <1>2, MoneyByRows DEF PortfolioInv, BooksInv
  <2>3. cash' # None => cash' + Owed' = Deposit + NetOf(position')
    BY <1>3, <1>4, <1>5, <2>1, <2>2, FillAssumption
  <2> QED
    BY <1>5, <2>3, MoneyByRowsLater
<1> QED
  BY <1>8, <1>9, <1>10, <1>11, <1>12 DEF PortfolioInv

LEMMA StepPay ==
  ASSUME PortfolioInv, Pay
  PROVE  PortfolioInv'
<1>1. /\ due \in Fills /\ due' = None /\ position' = position /\ booked' = booked /\ paid' = paid + 1
      /\ marked' = marked /\ reader' = reader
  BY DEF PortfolioInv, BooksInv, Pay
<1>2. CashOf(due) \in Int
  BY <1>1, FillOK
<1>3. RowsInv'
  BY <1>1 DEF PortfolioInv, RowsInv
<1>4. BooksInv'
  BY <1>1, <1>2, FillAssumption DEF PortfolioInv, BooksInv, Pay
<1>5. MarksInv'
  BY <1>1 DEF PortfolioInv, MarksInv
<1>6. ReadersInv'
  <2>1. \A r \in Readers : reader[r].paid \in Nat /\ reader[r].paid <= paid /\ paid \in Nat
    BY FillAssumption DEF PortfolioInv, ReadersInv, BooksInv
  <2>2. \A r \in Readers : reader[r].paid <= paid + 1 /\ reader[r].paid # paid + 1
    BY <2>1
  <2> QED
    BY <1>1, <2>2 DEF PortfolioInv, ReadersInv
<1>7. MoneyConserved'
  <2>1. Owed = lost + CashOf(due) /\ Owed' = lost'
    <3>1. due # None /\ lost' \in Int
      BY <1>1, <1>4, FillOK DEF BooksInv
    <3>2. CashOf(due) \in Int /\ lost \in Int
      BY <1>2 DEF PortfolioInv, BooksInv
    <3>3. Owed = lost + CashOf(due)
      BY <3>1, <3>2 DEF Owed
    <3>4. Owed' = lost'
      <4>1. Owed' = lost' + 0
        BY <1>1 DEF Owed
      <4>2. \A x \in Int : x + 0 = x
        OBVIOUS
      <4>3. lost' \in Int
        BY <3>1
      <4> QED
        BY <4>1, <4>2, <4>3
    <3> QED
      BY <3>3, <3>4
  <2>2. /\ lost \in Int /\ (cash # None => cash \in Int /\ cash + Owed = Deposit + NetOf(position))
        /\ position \in Positions
    BY MoneyByRows DEF PortfolioInv, BooksInv, RowsInv
  <2>3. \/ (cash' = IF cash = None THEN None ELSE cash + CashOf(due)) /\ lost' = lost
        \/ lost' = lost + CashOf(due) /\ cash' = cash
    BY DEF Pay
  <2>4. cash' # None => cash' + Owed' = Deposit + NetOf(position)
    BY <1>2, <2>1, <2>2, <2>3, FillAssumption
  <2> QED
    BY <1>1, <2>2, <2>4, MoneyByRowsLater
<1> QED
  BY <1>3, <1>4, <1>5, <1>6, <1>7 DEF PortfolioInv

LEMMA GainOK ==
  ASSUME NEW r \in Rows, NEW price \in Nat
  PROVE  Gain(r, price) \in Int
BY RowOK DEF Gain

LEMMA StepMark ==
  ASSUME PortfolioInv, NEW s \in Symbols, NEW price \in Marks, MarkToMarket(s, price)
  PROVE  PortfolioInv'
<1> DEFINE r == position[s]
           row == [r EXCEPT !.mark = price, !.unrealized = Gain(r, price)]
<1>1. price \in Nat /\ position \in Positions /\ s \in KnownIn(position) /\ r \in Rows
  <2>1. position \in Positions /\ s \in KnownIn(position)
    BY DEF PortfolioInv, RowsInv, MarkToMarket, KnownIn
  <2> QED
    BY <2>1, KnownRow, FillAssumption
<1>2. Gain(r, price) \in Int
  BY <1>1, GainOK
<1>3. position' = [position EXCEPT ![s] = row]
  BY <1>1 DEF MarkToMarket, Positions
<1> HIDE DEF r
<1>4. /\ row \in Rows /\ row.side = r.side /\ row.quantity = r.quantity /\ row.entry = r.entry
      /\ row.realized = r.realized /\ row.fees = r.fees /\ row.mark = price
      /\ row.unrealized = Gain(r, price)
  BY <1>1, <1>2 DEF Rows
<1>5. /\ Net(row) = Net(r) /\ (FlatAtZero(row) <=> FlatAtZero(r)) /\ Gain(row, price) = Gain(r, price)
      /\ Net(r) \in Int /\ row # None
  BY <1>1, <1>4, RowOK DEF Net, Signed, FlatAtZero, Gain
<1> HIDE DEF row
<1>6. position' \in Positions /\ NetOf(position') = NetOf(position)
  <2>1. Net(r) = IF position[s] = None THEN 0 ELSE Net(position[s])
    BY <1>1 DEF r, KnownIn
  <2>2. /\ position' \in Positions /\ NetOf(position') = NetOf(position) + (Net(row) - Net(r))
        /\ NetOf(position) \in Int
    BY <1>1, <1>3, <1>4, <1>5, <2>1, NetChanges
  <2> QED
    BY <1>5, <2>2
<1>7. /\ KnownIn(position') = KnownIn(position) /\ position'[s] = row
      /\ \A t \in Symbols \ {s} : position'[t] = position[t]
  BY <1>1, <1>3, <1>5 DEF KnownIn, Positions
<1>8. RowsInv'
  <2>1. ASSUME NEW t \in KnownIn(position)
        PROVE  /\ FlatAtZero(position'[t])
               /\ position'[t].quantity <= booked * Lot /\ Grained(position'[t].entry, booked)
    <3>1. FlatAtZero(position[t]) /\ position[t].quantity <= booked * Lot
          /\ Grained(position[t].entry, booked)
      BY DEF PortfolioInv, RowsInv
    <3>2. t \in Symbols
      BY DEF KnownIn
    <3>3. CASE t = s
      BY <1>4, <1>5, <1>7, <3>1, <3>3 DEF r
    <3>4. CASE t # s
      BY <1>7, <3>1, <3>2, <3>4
    <3> QED
      BY <3>3, <3>4
  <2> QED
    BY <1>6, <1>7, <2>1 DEF RowsInv, MarkToMarket
<1>9. BooksInv'
  BY DEF PortfolioInv, BooksInv, MarkToMarket
<1>10. MarksInv'
  <2>1. ASSUME NEW t \in marked'
        PROVE  t \in KnownIn(position')
               /\ position'[t].unrealized = Gain(position'[t], position'[t].mark)
    <3>1. CASE t = s
      BY <1>1, <1>4, <1>5, <1>7, <3>1
    <3>2. CASE t # s
      <4>1. t \in marked
        BY <2>1, <3>2 DEF MarkToMarket
      <4>2. t \in KnownIn(position) /\ position[t].unrealized = Gain(position[t], position[t].mark)
        BY <4>1 DEF PortfolioInv, MarksInv
      <4>3. position'[t] = position[t]
        BY <1>7, <3>2, <4>2 DEF KnownIn
      <4> QED
        BY <1>7, <4>2, <4>3
    <3> QED
      BY <3>1, <3>2
  <2> QED
    BY <2>1 DEF MarksInv
<1>11. ReadersInv'
  BY DEF PortfolioInv, ReadersInv, MarkToMarket
<1>12. MoneyConserved'
  <2>1. cash # None => cash + Owed = Deposit + NetOf(position)
    BY <1>1, MoneyByRows DEF PortfolioInv
  <2>2. Owed' = Owed /\ cash' = cash
    BY DEF Owed, MarkToMarket
  <2> QED
    BY <1>6, <2>1, <2>2, MoneyByRowsLater
<1> QED
  BY <1>8, <1>9, <1>10, <1>11, <1>12 DEF PortfolioInv

(* What a summary adds up. *)
LEMMA SumsOfHeld ==
  ASSUME position \in Positions
  PROVE  Unrealized \in Int /\ Realized \in Int
<1>1. IsFiniteSet(Held)
  BY FillAssumption, FS_Subset DEF Held
<1>2. \A s \in Held : position[s].unrealized \in Int /\ position[s].realized \in Int
  <2>1. \A s \in Held : s \in KnownIn(position)
    BY DEF Held, KnownIn
  <2> QED
    BY <2>1, KnownRow, RowOK
<1> DEFINE f == [s \in Held |-> position[s].unrealized]
           g == [s \in Held |-> position[s].realized]
<1>3. \A s \in Held : f[s] \in Int
  BY <1>2
<1>4. \A s \in Held : g[s] \in Int
  BY <1>2
<1> HIDE DEF f, g
<1>5. SumFunctionOnSet(f, Held) \in Int /\ SumFunctionOnSet(g, Held) \in Int
  BY <1>1, <1>3, <1>4, SumOfOneMore
<1> QED
  BY <1>5 DEF Unrealized, Realized, f, g

LEMMA StepRead ==
  ASSUME PortfolioInv, NEW r \in Readers, ReadBalance(r) \/ ReadPositions(r)
  PROVE  PortfolioInv'
<1>1. /\ position' = position /\ cash' = cash /\ due' = due /\ booked' = booked /\ paid' = paid
      /\ lost' = lost /\ marked' = marked
  BY DEF ReadBalance, ReadPositions
<1>2. RowsInv'
  BY <1>1 DEF PortfolioInv, RowsInv
<1>3. BooksInv'
  BY <1>1 DEF PortfolioInv, BooksInv
<1>4. MarksInv'
  BY <1>1 DEF PortfolioInv, MarksInv
<1>5. ReadersInv'
  <2>1. paid \in Nat /\ cash \in Int \cup {None} /\ ReadersInv /\ position \in Positions
    BY FillAssumption DEF PortfolioInv, BooksInv, RowsInv
  <2> DEFINE c == reader[r]
             Calls == [at : {"idle", "balance", "done"}, cash : Int \cup {None},
                       paid : Nat, equity : Int \cup {None}, profit : Int]
  <2>2. c \in Calls
    BY <2>1 DEF ReadersInv
  <2>3. ASSUME NEW d \in Calls, reader' = [reader EXCEPT ![r] = d],
               d.paid <= paid, d.at = "balance" /\ d.paid = paid => d.cash = cash
        PROVE  ReadersInv'
    BY <1>1, <2>1, <2>3 DEF ReadersInv
  <2> HIDE DEF c
  <2>4. CASE ReadBalance(r)
    <3> DEFINE d == [c EXCEPT !.at = "balance", !.cash = cash, !.paid = paid]
    <3>1. d \in Calls /\ d.paid = paid /\ d.paid <= paid /\ d.cash = cash
      <4>1. paid \in Nat /\ cash \in Int \cup {None} /\ paid <= paid
        BY <2>1
      <4> QED
        BY <2>2, <4>1
    <3>2. reader' = [reader EXCEPT ![r] = d]
      BY <2>4 DEF ReadBalance, c
    <3> HIDE DEF d, Calls
    <3> QED
      BY <2>3, <3>1, <3>2
  <2>5. CASE ReadPositions(r)
    <3> DEFINE d == [c EXCEPT !.at = "done", !.profit = Unrealized + Realized,
                              !.equity = IF c.cash = None THEN None ELSE c.cash + Unrealized]
    <3>1. Unrealized \in Int /\ Realized \in Int
      BY <2>1, SumsOfHeld
    <3> DEFINE equity == IF c.cash = None THEN None ELSE c.cash + Unrealized
    <3>5. equity \in Int \cup {None} /\ Unrealized + Realized \in Int
      BY <2>2, <3>1
    <3> HIDE DEF equity
    <3>6. d = [c EXCEPT !.at = "done", !.profit = Unrealized + Realized, !.equity = equity]
      BY DEF equity
    <3>2. d \in Calls /\ d.paid = c.paid /\ d.at = "done"
      <4> HIDE DEF d
      <4> QED
        BY <2>2, <3>5, <3>6
    <3>3. reader' = [reader EXCEPT ![r] = d]
      BY <2>5 DEF ReadPositions, c
    <3>4. c.paid <= paid
      BY <2>1 DEF ReadersInv, c
    <3> HIDE DEF d, Calls
    <3> QED
      BY <2>3, <3>2, <3>3, <3>4
  <2> QED
    BY <2>4, <2>5
<1>6. MoneyConserved'
  <2>1. position \in Positions /\ MoneyConserved
    BY DEF PortfolioInv, RowsInv
  <2>2. cash # None => cash + Owed = Deposit + NetOf(position)
    BY <2>1, MoneyByRows
  <2>3. Owed' = Owed
    BY <1>1 DEF Owed
  <2> QED
    BY <1>1, <2>1, <2>2, <2>3, MoneyByRowsLater
<1> QED
  BY <1>2, <1>3, <1>4, <1>5, <1>6 DEF PortfolioInv

LEMMA PortfolioRests ==
  ASSUME PortfolioInv, UNCHANGED portfolioVars
  PROVE  PortfolioInv'
<1>1. /\ position' = position /\ cash' = cash /\ due' = due /\ booked' = booked /\ paid' = paid
      /\ lost' = lost /\ marked' = marked /\ reader' = reader
  BY DEF portfolioVars
<1> QED
  BY <1>1 DEF PortfolioInv, RowsInv, BooksInv, MarksInv, ReadersInv, MoneyConserved, Earned, Fees, Cost,
              Known, Owed

LEMMA PortfolioSteps ==
  ASSUME PortfolioInv, [PortfolioNext]_portfolioVars
  PROVE  PortfolioInv'
<1>1. CASE UNCHANGED portfolioVars
  BY <1>1, PortfolioRests
<1>2. CASE PortfolioNext
  BY <1>2, StepBook, StepPay, StepMark, StepRead DEF PortfolioNext
<1> QED
  BY <1>1, <1>2

LEMMA PortfolioPart == Spec => PortfolioInit /\ [][PortfolioNext]_portfolioVars
<1>1. Init => PortfolioInit
  BY DEF Init
<1>2. [Next]_vars => [PortfolioNext]_portfolioVars
  BY DEF Next, vars
<1> QED
  BY <1>1, <1>2, PTL DEF Spec

LEMMA PortfolioAlways == Spec => []PortfolioInv
<1>1. PortfolioInit => PortfolioInv
  BY InitPortfolio
<1>2. PortfolioInv /\ [PortfolioNext]_portfolioVars => PortfolioInv'
  BY PortfolioSteps
<1> QED
  BY <1>1, <1>2, PortfolioPart, PTL

(* MoneyConserved: every fill is paid for in cash, now, later or never.    *)
THEOREM MoneyHolds == Spec => []MoneyConserved
<1>1. PortfolioInv => MoneyConserved
  BY DEF PortfolioInv
<1> QED
  BY <1>1, PortfolioAlways, PTL

-----------------------------------------------------------------------------
(* get_portfolio_summary.                                                  *)

LEMMA SummaryNotAheadHolds ==
  ASSUME PortfolioInv, NEW r \in Readers
  PROVE  SummaryNotAhead(r)
<1>1. reader[r].paid \in Nat /\ reader[r].paid <= paid /\ paid \in Nat /\ booked \in Nat
      /\ paid <= booked
  BY FillAssumption DEF PortfolioInv, BooksInv, ReadersInv
<1> QED
  BY <1>1 DEF SummaryNotAhead

(* If every position is marked, its P&L is its worth less its cost.        *)
LEMMA UnrealizedIs ==
  ASSUME position \in Positions, MarksInv, marked = Known
  PROVE  Unrealized = Worth - Cost /\ Worth \in Int /\ Cost \in Int
<1> DEFINE gains == [s \in Known |-> Gain(position[s], position[s].mark)]
           worths == [s \in Known |-> Signed(position[s]) * position[s].mark]
           costs == [s \in Known |-> Signed(position[s]) * position[s].entry]
           held == [s \in Held |-> position[s].unrealized]
<1>1. Known = KnownIn(position) /\ IsFiniteSet(Known) /\ Held \subseteq Known
  BY KnownFinite DEF Known, KnownIn, Held
<1>2. ASSUME NEW s \in Known
      PROVE  /\ worths[s] \in Int /\ costs[s] \in Int /\ gains[s] = worths[s] - costs[s]
             /\ gains[s] \in Int
             /\ s \in Held => held[s] = gains[s]
             /\ s \notin Held => gains[s] = 0
  <2> DEFINE p == position[s]
  <2>1. p \in Rows
    BY <1>1, <1>2, KnownRow
  <2>2. Signed(p) \in Int /\ p.mark \in Nat /\ p.entry \in Nat /\ p.quantity \in Nat
    BY <2>1, RowOK
  <2>3. Gain(p, p.mark) = Signed(p) * p.mark - Signed(p) * p.entry
    BY <2>2 DEF Gain
  <2>4. p.unrealized = Gain(p, p.mark)
    BY <1>2 DEF MarksInv
  <2>5. ASSUME s \notin Held PROVE Gain(p, p.mark) = 0
    <3>1. p.quantity = 0
      BY <1>2, <2>2, <2>5 DEF Known, Held
    <3>2. p.side \in {"LONG", "SHORT", "FLAT"}
      BY <2>1, RowOK
    <3>3. Signed(p) = 0
      <4>1. -p.quantity = 0 - p.quantity
        BY <2>2
      <4>2. -p.quantity = 0
        BY <3>1, <4>1
      <4> HIDE DEF p
      <4> QED
        BY <3>1, <3>2, <4>2 DEF Signed
    <3> QED
      BY <2>2, <3>3 DEF Gain
  <2> QED
    BY <2>2, <2>3, <2>4, <2>5
<1> HIDE DEF gains, worths, costs, held
<1>3. SumFunctionOnSet(gains, Known) = SumFunctionOnSet(worths, Known) - SumFunctionOnSet(costs, Known)
  BY <1>1, <1>2, SumMinus
<1>4. SumFunctionOnSet(held, Held) = SumFunctionOnSet(gains, Known)
  <2>1. (\A s \in Known : gains[s] \in Int) /\ (\A s \in Held : held[s] = gains[s])
        /\ \A s \in Known \ Held : gains[s] = 0
    BY <1>1, <1>2
  <2> QED
    BY <1>1, <2>1, SumWithoutZeros
<1>5. SumFunctionOnSet(worths, Known) \in Int /\ SumFunctionOnSet(costs, Known) \in Int
  <2>1. (\A s \in Known : worths[s] \in Int) /\ \A s \in Known : costs[s] \in Int
    BY <1>2
  <2> QED
    BY <1>1, <2>1, SumOfOneMore
<1> QED
  BY <1>3, <1>4, <1>5 DEF Unrealized, Worth, Cost, gains, worths, costs, held

LEMMA OnlyReadPositionsAnswers ==
  ASSUME PortfolioInv, PortfolioNext, NEW r \in Readers, Answers(r)
  PROVE  ReadPositions(r)
<1>1. reader' # reader
  BY DEF Answers
<1>2. PICK q \in Readers : ReadBalance(q) \/ ReadPositions(q)
  BY <1>1 DEF PortfolioNext, Book, Pay, MarkToMarket
<1>3. reader[r].at = "balance" /\ reader'[r].at = "done" /\ ReadersInv
  BY DEF Answers, PortfolioInv
<1>4. q = r
  <2>1. CASE ReadBalance(q)
    BY <1>3, <2>1 DEF ReadBalance, ReadersInv
  <2>2. CASE ReadPositions(q)
    BY <1>3, <2>2 DEF ReadPositions, ReadersInv
  <2> QED
    BY <1>2, <2>1, <2>2
<1> QED
  BY <1>2, <1>3, <1>4 DEF ReadBalance

LEMMA SummaryAddsUpHolds ==
  ASSUME PortfolioInv, NEW r \in Readers, ReadPositions(r)
  PROVE  SummaryAddsUp(r)
<1> SUFFICES ASSUME cash # None, reader[r].paid = booked, marked = Known
             PROVE  /\ reader'[r].equity = cash + Worth - Cost
                    /\ Held = Known => reader'[r].profit = cash + Worth + lost + Fees - Deposit
  BY DEF SummaryAddsUp
<1>1. /\ position \in Positions /\ MarksInv /\ cash \in Int /\ lost \in Int /\ reader[r].at = "balance"
      /\ paid \in Nat /\ booked \in Nat /\ booked = paid + (IF due = None THEN 0 ELSE 1)
      /\ reader[r].paid \in Nat /\ reader[r].paid <= paid
      /\ reader[r].paid = paid => reader[r].cash = cash
  BY FillAssumption DEF PortfolioInv, RowsInv, BooksInv, ReadersInv, ReadPositions
<1>2. due = None /\ reader[r].cash = cash
  BY <1>1
<1>3. Unrealized = Worth - Cost /\ Worth \in Int /\ Cost \in Int /\ Unrealized \in Int
      /\ Realized \in Int
  BY <1>1, UnrealizedIs, SumsOfHeld
<1>4. reader'[r].equity = cash + Unrealized /\ reader'[r].profit = Unrealized + Realized
  <2> DEFINE d == [reader[r] EXCEPT !.at = "done", !.profit = Unrealized + Realized,
                                    !.equity = IF reader[r].cash = None THEN None
                                               ELSE reader[r].cash + Unrealized]
  <2>1. reader' = [reader EXCEPT ![r] = d]
    BY DEF ReadPositions
  <2>2. reader \in [Readers -> [at : {"idle", "balance", "done"}, cash : Int \cup {None},
                                paid : Nat, equity : Int \cup {None}, profit : Int]]
    BY DEF PortfolioInv, ReadersInv
  <2>3. d.equity = cash + Unrealized /\ d.profit = Unrealized + Realized
    BY <1>2, <2>2
  <2> HIDE DEF d
  <2>4. reader'[r] = d
    BY <2>1, <2>2
  <2> QED
    BY <2>3, <2>4
<1>5. ASSUME Held = Known PROVE Worth - Cost + Realized = cash + Worth + lost + Fees - Deposit
  <2>1. Realized = Earned
    BY <1>5 DEF Realized, Earned
  <2>2. Owed = lost
    <3>1. Owed = lost + 0
      BY <1>2 DEF Owed
    <3> QED
      BY <1>1, <3>1
  <2>3. cash + lost = Deposit + Earned - Fees - Cost
    BY <2>2 DEF PortfolioInv, MoneyConserved
  <2>4. Earned \in Int /\ Fees \in Int
    <3>1. Earned = EarnedBy(position) /\ Fees = FeesOf(position)
      BY DEF Earned, Fees, EarnedBy, FeesOf, Known, KnownIn
    <3> QED
      BY <1>1, <3>1, NetAddsUp
  <2>5. Deposit \in Int
    BY FillAssumption
  <2>6. \A c, l, d, e, f, k, w \in Int :
          c + l = d + e - f - k => w - k + e = c + w + l + f - d
    OBVIOUS
  <2>7. Worth - Cost + Earned = cash + Worth + lost + Fees - Deposit
    BY <1>1, <1>3, <2>3, <2>4, <2>5, <2>6
  <2> QED
    BY <2>1, <2>7
<1> QED
  BY <1>1, <1>3, <1>4, <1>5

(* SummaryHonest: what a summary reports beside running fills and marks.   *)
THEOREM SummariesHonest == Spec => SummaryHonest
<1>1. PortfolioInv /\ [PortfolioNext]_portfolioVars
        => [\A r \in Readers : Answers(r) => SummaryNotAhead(r) /\ SummaryAddsUp(r)]_portfolioVars
  <2> SUFFICES ASSUME PortfolioInv, PortfolioNext, NEW r \in Readers, Answers(r)
               PROVE  SummaryNotAhead(r) /\ SummaryAddsUp(r)
    OBVIOUS
  <2>1. SummaryNotAhead(r)
    BY SummaryNotAheadHolds
  <2>2. ReadPositions(r)
    BY OnlyReadPositionsAnswers
  <2>3. SummaryAddsUp(r)
    BY <2>2, SummaryAddsUpHolds
  <2> QED
    BY <2>1, <2>3
<1> QED
  BY <1>1, PortfolioPart, PortfolioAlways, PTL DEF SummaryHonest

-----------------------------------------------------------------------------
(* The order flow.  First: finite sets of prices.                          *)

LEMMA Extremes ==
  ASSUME NEW s, s \subseteq Int, IsFiniteSet(s), s # {}
  PROVE  /\ Max(s) \in s /\ \A y \in s : y <= Max(s)
         /\ Min(s) \in s /\ \A y \in s : Min(s) <= y
<1>1. ASSUME NEW k \in {1, -1} PROVE \E x \in s : \A y \in s : k * x >= k * y
  <2> DEFINE P(x, y) == k * x >= k * y
             F == {t \in SUBSET s : t # {} /\ ~\E x \in t : \A y \in t : P(x, y)}
  <2>1. \A x, y, z \in Int : (P(x, y) \/ P(y, x)) /\ P(x, x) /\ (P(x, y) /\ P(y, z) => P(x, z))
    <3>1. CASE k = 1
      BY <3>1
    <3>2. CASE k = -1
      BY <3>2
    <3> QED
      BY <3>1, <3>2
  <2> HIDE DEF P
  <2>2. F = {}
    <3> SUFFICES ASSUME F # {} PROVE FALSE
      OBVIOUS
    <3>1. PICK t \in F : \A u \in F : u \subseteq t => u = t
      <4>1. F \subseteq SUBSET s /\ F # {}
        OBVIOUS
      <4> HIDE DEF F
      <4> QED
        BY ONLY <4>1, IsFiniteSet(s), MinimalSubset
    <3>2. t \subseteq Int /\ t \subseteq s /\ t # {} /\ ~\E x \in t : \A y \in t : P(x, y)
      BY <3>1
    <3>3. PICK a \in t : TRUE
      BY <3>2
    <3>4. t \ {a} # {}
      BY <2>1, <3>2, <3>3
    <3>5. t \ {a} \notin F
      BY <3>1, <3>3
    <3>6. PICK x \in t \ {a} : \A y \in t \ {a} : P(x, y)
      BY <3>2, <3>4, <3>5
    <3>7. CASE P(x, a)
      BY <3>2, <3>6, <3>7
    <3>8. CASE P(a, x)
      BY <2>1, <3>2, <3>3, <3>6, <3>8
    <3> QED
      BY <2>1, <3>2, <3>6, <3>7, <3>8
  <2>3. \E x \in s : \A y \in s : P(x, y)
    BY <2>2
  <2> QED
    BY <2>3 DEF P
<1>2. \E x \in s : \A y \in s : x >= y
  <2>1. \E x \in s : \A y \in s : 1 * x >= 1 * y
    BY <1>1
  <2> QED
    BY <2>1
<1>3. \E x \in s : \A y \in s : x <= y
  <2>1. \E x \in s : \A y \in s : (-1) * x >= (-1) * y
    BY <1>1
  <2> QED
    BY <2>1
<1>4. Max(s) \in s /\ \A y \in s : Max(s) >= y
  BY <1>2 DEF Max
<1>5. Min(s) \in s /\ \A y \in s : Min(s) <= y
  BY <1>3 DEF Min
<1>6. \A y \in s : y \in Int
  OBVIOUS
<1> QED
  BY <1>4, <1>5, <1>6

LEMMA InSequence ==
  ASSUME NEW S, IsFiniteSet(S)
  PROVE  SetToSeq(S) \in Seq(S) /\ Len(SetToSeq(S)) = Cardinality(S) /\ Cardinality(S) \in Nat
<1> DEFINE n == Cardinality(S)
<1>1. n \in Nat /\ ExistsBijection(1..n, S)
  BY FS_CardinalityType
<1>2. \E f \in [1..n -> S] : IsInjective(f)
  <2>1. PICK f : f \in Bijection(1..n, S)
    BY <1>1 DEF ExistsBijection
  <2>2. f \in [1..n -> S] /\ \A a, b \in 1..n : f[a] = f[b] => a = b
    BY <2>1 DEF Bijection, Injection, IsInjective
  <2>3. IsInjective(f)
    BY <2>2 DEF IsInjective
  <2> QED
    BY <2>2, <2>3
<1>3. SetToSeq(S) \in [1..n -> S]
  BY <1>2 DEF SetToSeq
<1> HIDE DEF n
<1> QED
  BY <1>1, <1>3 DEF n

-----------------------------------------------------------------------------
(* The value area.                                                         *)

Grown == INSTANCE FoldTheorems WITH Op <- Widened

(* Volumes of finitely many prices, and a total that is no more than all   *)
(* of them.                                                                *)
Measured(v, total) ==
  /\ DOMAIN v \subseteq Int /\ IsFiniteSet(DOMAIN v) /\ DOMAIN v # {}
  /\ v = [p \in DOMAIN v |-> v[p]] /\ \A p \in DOMAIN v : v[p] \in Nat
  /\ total \in Nat \ {0} /\ total <= Sum(v)

Covered(v, area) == {p \in DOMAIN v : area.low <= p /\ p <= area.high}

(* What a search that started from the volumes v has after n rounds.       *)
Started(v, total) ==
  LET poc == Min(Thickest(v))
  IN  [volumes |-> v, total |-> total, poc |-> poc, low |-> poc, high |-> poc]

Tight(v, total, x) ==
  \/ x.low = x.high
  \/ x.low < x.poc /\ ~Reached(v, [x EXCEPT !.low = @ + 1], total)
  \/ x.high > x.poc /\ ~Reached(v, [x EXCEPT !.high = @ - 1], total)

Searched(v, total, n, x) ==
  /\ x = [volumes |-> v, total |-> total, poc |-> x.poc, low |-> x.low, high |-> x.high]
  /\ x.poc \in Thickest(v) /\ x.low \in DOMAIN v /\ x.high \in DOMAIN v
  /\ x.low <= x.poc /\ x.poc <= x.high
  /\ Tight(v, total, x)
  /\ \/ Reached(v, x, total) \/ Above(v, x) \cup Below(v, x) = {}
     \/ Cardinality(Covered(v, x)) > n

LEMMA SearchStarts ==
  ASSUME NEW v, NEW total, Measured(v, total)
  PROVE  Searched(v, total, 0, Started(v, total))
<1> DEFINE D == DOMAIN v
           E == {v[p] : p \in D}
           x == Started(v, total)
           poc == Min(Thickest(v))
<1>1. IsFiniteSet(E) /\ E # {} /\ E \subseteq Int
  <2>1. IsFiniteSet(E)
    <3>1. v \in [D -> E] /\ \A e \in E : \E p \in D : v[p] = e
      <4>1. v = [p \in D |-> v[p]]
        BY DEF Measured
      <4> QED
        BY <4>1
    <3> HIDE DEF E
    <3>2. v \in Surjection(D, E)
      BY <3>1 DEF Surjection
    <3> QED
      BY <3>2, FS_Surjection DEF Measured
  <2> QED
    BY <2>1 DEF Measured
<1>2. PICK p \in D : v[p] = Max(E)
  <2>1. Max(E) \in E
    BY <1>1, Extremes
  <2> QED
    BY <2>1
<1>3. p \in Thickest(v)
  BY <1>1, <1>2, Extremes DEF Thickest
<1>4. Thickest(v) \subseteq D /\ IsFiniteSet(Thickest(v)) /\ Thickest(v) \subseteq Int
  BY FS_Subset DEF Measured, Thickest
<1>5. poc \in Thickest(v)
  BY <1>3, <1>4, Extremes
<1>6. poc \in D /\ poc \in Int
  BY <1>4, <1>5
<1> HIDE DEF poc
<1>7. x = [volumes |-> v, total |-> total, poc |-> poc, low |-> poc, high |-> poc]
  BY DEF Started, poc
<1>8. x.poc = poc /\ x.low = poc /\ x.high = poc /\ x.volumes = v /\ x.total = total
  BY <1>7
<1> HIDE DEF x
<1>9. poc \in Covered(v, x) /\ IsFiniteSet(Covered(v, x))
  <2>1. IsFiniteSet(DOMAIN v)
    BY DEF Measured
  <2>2. IsFiniteSet(Covered(v, x))
    BY <2>1, FS_Subset DEF Covered
  <2> QED
    BY <1>6, <1>8, <2>2 DEF Covered
<1>10. Cardinality(Covered(v, x)) > 0
  <2>1. Cardinality(Covered(v, x)) \in Nat /\ Cardinality(Covered(v, x)) # 0
    BY <1>9, FS_EmptySet, FS_CardinalityType
  <2> QED
    BY <2>1
<1> QED
  BY <1>5, <1>6, <1>7, <1>8, <1>10 DEF Searched, Tight, x

LEMMA ReachedSame ==
  ASSUME NEW v, NEW total, NEW x, NEW y, Covered(v, x) = Covered(v, y)
  PROVE  Reached(v, x, total) <=> Reached(v, y, total)
BY DEF Covered, Reached, Inside

LEMMA SearchGoesOn ==
  ASSUME NEW v, NEW total, Measured(v, total), NEW n \in Nat, NEW x, Searched(v, total, n, x), NEW c
  PROVE  Searched(v, total, n + 1, Widened(x, c))
<1> DEFINE D == DOMAIN v
           y == Widened(x, c)
           above == Above(v, x)
           below == Below(v, x)
           h == Min(above)
           l == Max(below)
<1>1. /\ x = [volumes |-> v, total |-> total, poc |-> x.poc, low |-> x.low, high |-> x.high]
      /\ x.volumes = v /\ x.total = total /\ D \subseteq Int /\ IsFiniteSet(D)
      /\ x.poc \in Thickest(v) /\ x.low \in D /\ x.high \in D /\ x.low <= x.poc /\ x.poc <= x.high
      /\ x.poc \in D /\ x.poc \in Int /\ x.low \in Int /\ x.high \in Int
  BY DEF Searched, Measured, Thickest
<1>2. CASE Reached(v, x, total) \/ above \cup below = {}
  <2>1. y = x
    BY <1>1, <1>2 DEF Widened
  <2> HIDE DEF y
  <2>2. Searched(v, total, n + 1, x)
    BY <1>2 DEF Searched
  <2> QED
    BY <2>1, <2>2 DEF y
<1>3. IsFiniteSet(Covered(v, x))
      /\ (Reached(v, x, total) \/ above \cup below = {} \/ Cardinality(Covered(v, x)) > n)
      /\ Cardinality(Covered(v, x)) \in Nat
  <2>1. IsFiniteSet(Covered(v, x))
    BY <1>1, FS_Subset DEF Covered
  <2> QED
    BY <2>1, FS_CardinalityType DEF Searched
<1>4. ASSUME ~Reached(v, x, total), above # {}, y = [x EXCEPT !.high = h]
      PROVE  Searched(v, total, n + 1, y)
  <2>1. h \in above /\ \A p \in above : h <= p
    <3>1. above \subseteq Int /\ IsFiniteSet(above)
      BY <1>1, FS_Subset DEF Above
    <3> QED
      BY <1>4, <3>1, Extremes
  <2>2. h \in D /\ h \in Int /\ h > x.high /\ \A p \in D : p > x.high => h <= p
    BY <1>1, <2>1 DEF Above
  <2> HIDE DEF h, y, above
  <2>3. y = [volumes |-> v, total |-> total, poc |-> x.poc, low |-> x.low, high |-> h]
    BY <1>1, <1>4
  <2>4. y.volumes = v /\ y.total = total /\ y.poc = x.poc /\ y.low = x.low /\ y.high = h
    BY <2>3
  <2>5. Covered(v, y) = Covered(v, x) \cup {h} /\ h \notin Covered(v, x)
    BY <1>1, <2>2, <2>4 DEF Covered
  <2>6. Cardinality(Covered(v, y)) > n + 1
    <3>1. Cardinality(Covered(v, x) \cup {h}) = Cardinality(Covered(v, x)) + 1
      BY <1>3, <2>5, FS_AddElement
    <3>2. Cardinality(Covered(v, x)) > n
      BY <1>3, <1>4
    <3> QED
      BY <1>3, <2>5, <3>1, <3>2
  <2>7. ~Reached(v, [y EXCEPT !.high = @ - 1], total)
    <3> DEFINE z == [y EXCEPT !.high = @ - 1]
    <3>1. z.low = x.low /\ z.high = h - 1
      BY <2>3
    <3> HIDE DEF z
    <3>2. Covered(v, z) = Covered(v, x)
      BY <1>1, <2>2, <3>1 DEF Covered
    <3> QED
      BY <1>4, <3>2, ReachedSame DEF z
  <2>8. y.high > y.poc
    BY <1>1, <2>2, <2>4
  <2>9. x.poc <= h
    BY <1>1, <2>2
  <2> QED
    BY <1>1, <2>2, <2>3, <2>4, <2>6, <2>7, <2>8, <2>9 DEF Searched, Tight
<1>5. ASSUME ~Reached(v, x, total), below # {}, y = [x EXCEPT !.low = l]
      PROVE  Searched(v, total, n + 1, y)
  <2>1. l \in below /\ \A p \in below : p <= l
    <3>1. below \subseteq Int /\ IsFiniteSet(below)
      BY <1>1, FS_Subset DEF Below
    <3> QED
      BY <1>5, <3>1, Extremes
  <2>2. l \in D /\ l \in Int /\ l < x.low /\ \A p \in D : p < x.low => p <= l
    BY <1>1, <2>1 DEF Below
  <2> HIDE DEF l, y, below
  <2>3. y = [volumes |-> v, total |-> total, poc |-> x.poc, low |-> l, high |-> x.high]
    BY <1>1, <1>5
  <2>4. y.volumes = v /\ y.total = total /\ y.poc = x.poc /\ y.low = l /\ y.high = x.high
    BY <2>3
  <2>5. Covered(v, y) = Covered(v, x) \cup {l} /\ l \notin Covered(v, x)
    BY <1>1, <2>2, <2>4 DEF Covered
  <2>6. Cardinality(Covered(v, y)) > n + 1
    <3>1. Cardinality(Covered(v, x) \cup {l}) = Cardinality(Covered(v, x)) + 1
      BY <1>3, <2>5, FS_AddElement
    <3>2. Cardinality(Covered(v, x)) > n
      BY <1>3, <1>5
    <3> QED
      BY <1>3, <2>5, <3>1, <3>2
  <2>7. ~Reached(v, [y EXCEPT !.low = @ + 1], total)
    <3> DEFINE z == [y EXCEPT !.low = @ + 1]
    <3>1. z.low = l + 1 /\ z.high = x.high
      BY <2>3
    <3> HIDE DEF z
    <3>2. Covered(v, z) = Covered(v, x)
      BY <1>1, <2>2, <3>1 DEF Covered
    <3> QED
      BY <1>5, <3>2, ReachedSame DEF z
  <2>8. y.low < y.poc
    BY <1>1, <2>2, <2>4
  <2>9. l <= x.poc
    BY <1>1, <2>2
  <2> QED
    BY <1>1, <2>2, <2>3, <2>4, <2>6, <2>7, <2>8, <2>9 DEF Searched, Tight
<1>6. ASSUME ~Reached(v, x, total), above \cup below # {}
      PROVE  (above # {} /\ y = [x EXCEPT !.high = h]) \/ (below # {} /\ y = [x EXCEPT !.low = l])
  <2>1. y = IF UpperIsThicker(v, x) /\ above # {} THEN [x EXCEPT !.high = h] ELSE [x EXCEPT !.low = l]
    BY <1>1, <1>6, Zenon DEF Widened
  <2>2. CASE UpperIsThicker(v, x) /\ above # {}
    BY <2>1, <2>2
  <2>3. CASE ~(UpperIsThicker(v, x) /\ above # {})
    <3>1. y = [x EXCEPT !.low = l]
      BY <2>1, <2>3
    <3>2. below # {}
      <4> SUFFICES ASSUME below = {} PROVE FALSE
        OBVIOUS
      <4>1. above # {} /\ ~UpperIsThicker(v, x)
        BY <1>6, <2>3
      <4>2. ~(v[h] >= 0)
        BY <4>1 DEF UpperIsThicker
      <4>3. h \in D
        <5>1. above \subseteq D /\ above \subseteq Int /\ IsFiniteSet(above)
          BY <1>1, FS_Subset DEF Above
        <5> QED
          BY <4>1, <5>1, Extremes
      <4>4. v[h] \in Nat
        BY <4>3 DEF Measured
      <4> QED
        BY <4>2, <4>4
    <3> QED
      BY <3>1, <3>2
  <2> QED
    BY <2>2, <2>3
<1> HIDE DEF y, above, below, h, l
<1> QED
  BY <1>2, <1>4, <1>5, <1>6 DEF y

LEMMA ProfileIsArea ==
  ASSUME NEW v, NEW total, Measured(v, total)
  PROVE  /\ IsValueArea(Profile(v, total), v, total)
         /\ Profile(v, total) \in [poc : Int, low : Int, high : Int]
<1> DEFINE D == DOMAIN v
           s == SetToSeq(D)
           k == Cardinality(D)
           x == FoldLeft(Widened, Started(v, total), s)
           V == [n \in Nat |-> {y \in [volumes : {v}, total : {total}, poc : D, low : D, high : D] :
                                  Searched(v, total, n, y)}]
<1>1. s \in Seq(D) /\ Len(s) = k /\ k \in Nat /\ IsFiniteSet(D) /\ D \subseteq Int
  BY InSequence DEF Measured
<1>2. ASSUME NEW n \in Nat, NEW y, Searched(v, total, n, y)
      PROVE  y \in V[n]
  <2>1. /\ y = [volumes |-> v, total |-> total, poc |-> y.poc, low |-> y.low, high |-> y.high]
        /\ y.poc \in D /\ y.low \in D /\ y.high \in D
    BY <1>2 DEF Searched, Thickest
  <2>2. y \in [volumes : {v}, total : {total}, poc : D, low : D, high : D]
    BY <2>1
  <2> QED
    BY <1>2, <2>2
<1>3. Started(v, total) \in V[0]
  BY <1>2, SearchStarts
<1>4. ASSUME NEW n \in Nat, NEW y \in V[n], NEW c \in D PROVE Widened(y, c) \in V[n + 1]
  <2>1. Searched(v, total, n, y)
    OBVIOUS
  <2>2. Searched(v, total, n + 1, Widened(y, c))
    BY <2>1, SearchGoesOn
  <2> HIDE DEF V
  <2> QED
    BY <1>2, <2>2
<1>5. x = Grown!Folded(Started(v, total), s)
  BY Zenon DEF Grown!Folded, FoldLeft, Grown!FoldLeft, MapThenFoldSet, Grown!MapThenFoldSet,
         Max, Grown!Max
<1>6. x \in V[k]
  <2> HIDE DEF V, s, x, D
  <2>1. Grown!Folded(Started(v, total), s) \in V[Len(s)]
    BY <1>1, <1>3, <1>4, Grown!FoldCounts
  <2> QED
    BY <1>1, <1>5, <2>1
<1>7. Searched(v, total, k, x)
  BY <1>1, <1>6
<1> HIDE DEF x
<1>8. Profile(v, total) = [poc |-> x.poc, low |-> x.low, high |-> x.high]
  <2>1. D # {} /\ total # 0
    BY DEF Measured
  <2> QED
    BY <2>1 DEF Profile, x, Started
<1>9. /\ x.poc \in Thickest(v) /\ x.low <= x.poc /\ x.poc <= x.high /\ Tight(v, total, x)
      /\ x.low \in Int /\ x.high \in Int /\ x.poc \in D
  BY <1>1, <1>7 DEF Searched, Thickest
<1>10. Reached(v, x, total)
  <2> SUFFICES ASSUME ~Reached(v, x, total) PROVE FALSE
    OBVIOUS
  <2>1. Covered(v, x) \subseteq D
    BY DEF Covered
  <2>2. ~(Cardinality(Covered(v, x)) > k)
    <3>1. Cardinality(Covered(v, x)) <= k /\ IsFiniteSet(Covered(v, x))
      BY <1>1, <2>1, FS_Subset
    <3>2. Cardinality(Covered(v, x)) \in Nat
      BY <3>1, FS_CardinalityType
    <3> QED
      BY <1>1, <3>1, <3>2
  <2>3. Above(v, x) \cup Below(v, x) = {}
    BY <1>7, <2>2 DEF Searched
  <2>4. Covered(v, x) = D
    <3>1. ASSUME NEW p \in D PROVE x.low <= p /\ p <= x.high
      <4>1. ~(p > x.high) /\ ~(p < x.low)
        BY <2>3 DEF Above, Below
      <4>2. p \in Int
        BY <1>1
      <4> QED
        BY <1>9, <4>1, <4>2
    <3> QED
      BY <2>1, <3>1 DEF Covered
  <2>5. Inside(v, x) = Sum(v)
    BY <2>4 DEF Covered, Inside, Sum
  <2>6. Sum(v) \in Nat
    BY <1>1, SumIsNatural DEF Measured, Sum
  <2>7. total \in Nat /\ total <= Sum(v)
    BY DEF Measured
  <2>8. 10 * Sum(v) >= 7 * total
    BY <2>6, <2>7
  <2> QED
    BY <2>5, <2>8 DEF Reached
<1> DEFINE a == Profile(v, total)
<1>11. a.poc = x.poc /\ a.low = x.low /\ a.high = x.high
  BY <1>8
<1>12. Reached(v, a, total)
  BY <1>10, <1>11, ReachedSame DEF Covered
<1>13. a.low < a.poc
       /\ ~Reached(v, [x EXCEPT !.low = @ + 1], total) => ~Reached(v, [a EXCEPT !.low = @ + 1], total)
  <2> DEFINE y == [x EXCEPT !.low = @ + 1]
             z == [a EXCEPT !.low = @ + 1]
  <2>1. y.low = x.low + 1 /\ y.high = x.high
    BY <1>7 DEF Searched
  <2>2. z.low = x.low + 1 /\ z.high = x.high
    BY <1>8
  <2> HIDE DEF y, z, a
  <2>3. Covered(v, y) = Covered(v, z)
    BY <2>1, <2>2 DEF Covered
  <2> QED
    BY <2>3, ReachedSame DEF y, z
<1>14. a.high > a.poc
       /\ ~Reached(v, [x EXCEPT !.high = @ - 1], total) => ~Reached(v, [a EXCEPT !.high = @ - 1], total)
  <2> DEFINE y == [x EXCEPT !.high = @ - 1]
             z == [a EXCEPT !.high = @ - 1]
  <2>1. y.low = x.low /\ y.high = x.high - 1
    BY <1>7 DEF Searched
  <2>2. z.low = x.low /\ z.high = x.high - 1
    BY <1>8
  <2> HIDE DEF y, z, a
  <2>3. Covered(v, y) = Covered(v, z)
    BY <2>1, <2>2 DEF Covered
  <2> QED
    BY <2>3, ReachedSame DEF y, z
<1> HIDE DEF a
<1>15. IsValueArea(a, v, total)
  BY <1>9, <1>11, <1>12, <1>13, <1>14 DEF IsValueArea, Tight, Thickest
<1>16. a \in [poc : Int, low : Int, high : Int]
  BY <1>1, <1>8, <1>9 DEF a
<1> QED
  BY <1>15, <1>16 DEF a

-----------------------------------------------------------------------------
(* What the order flow keeps.                                              *)

LevelsOf(l) == {p \in Prices : l[p] # Nothing}
FlowOf(l, S) == SumFunctionOnSet([p \in S |-> l[p].buy - l[p].sell], S)
VolumeAt(l) == [p \in Prices |-> IF l[p] = Nothing THEN 0 ELSE l[p].total]
VolumeOf(l, S) == SumFunctionOnSet(VolumeAt(l), S)
DeltaOf(t) == IF t.buy THEN t.quantity ELSE -t.quantity

LevelsInv ==
  /\ level \in [Prices -> LevelRows \cup {Nothing}] /\ IsFiniteSet(Levels)
  /\ cvd \in Int /\ bar \in [buy : Nat, sell : Nat]
  /\ trade \in Trades \cup {Nothing} /\ traded \in 0..MaxTrades
  /\ step \in {"rest", "level", "side", "total", "profile"} /\ (trade = Nothing <=> step = "rest")
  /\ step \in {"side", "total", "profile"} => trade.price \in Levels

(* The sums, but for what the trade under way has not reached yet.         *)
NetInv ==
  /\ bar.buy - bar.sell = FlowOf(level, Levels)
  /\ cvd = FlowOf(level, Levels) + IF step \in {"level", "side"} THEN DeltaOf(trade) ELSE 0
  /\ \A p \in Levels :
       level[p].buy + level[p].sell
         = level[p].total + IF step = "total" /\ p = trade.price THEN trade.quantity ELSE 0
  /\ step = "profile" => VolumeOf(level, Levels) > 0

SnapshotInv ==
  step = "rest" /\ snapshot # Nothing =>
    snapshot.cvd = cvd /\ IsValueArea(snapshot.profile, Volumes, Sum(Volumes))

Calls == [at : {"begin", "sum", "prices", "map", "done", "raised"}, levels : SUBSET Prices,
          left : SUBSET Prices, total : Nat, map : UNION {[S -> Nat] : S \in SUBSET Prices},
          counted : Nat, profile : [poc : Int, low : Int, high : Int] \cup {Nothing}]

(* A call that sums: what it has and what is left is at least what there   *)
(* was, and what it has is at most what there is.                          *)
Summing(c, l) ==
  /\ c.levels \subseteq LevelsOf(l) /\ c.left \subseteq c.levels /\ c.profile = Nothing
  /\ c.map = <<>>
  /\ c.counted <= c.total + VolumeOf(l, c.left)
  /\ c.total <= VolumeOf(l, c.levels \ c.left)

(* A call that reads the volumes: these and what is left are at least its  *)
(* total.                                                                  *)
Mapping(c, l) ==
  /\ c.levels \subseteq LevelsOf(l) /\ c.left \subseteq c.levels /\ c.profile = Nothing
  /\ c.left # {} /\ DOMAIN c.map = c.levels \ c.left
  /\ c.total > 0 /\ c.counted <= c.total
  /\ c.total <= Sum(c.map) + VolumeOf(l, c.left)

CallInv(c, l) ==
  /\ c.at \in {"sum", "prices"} => Summing(c, l)
  /\ c.at = "prices" => c.left = {} /\ c.total # 0
  /\ c.at = "map" => Mapping(c, l)
  /\ c.profile # Nothing => IsValueArea(c.profile, c.map, c.total) /\ c.total >= c.counted

CallsInv ==
  /\ asker \in [Askers -> Calls]
  /\ \A a \in Askers : CallInv(asker[a], level)

FlowInv == LevelsInv /\ NetInv /\ SnapshotInv /\ CallsInv

-----------------------------------------------------------------------------
(* A level is added or changed.                                            *)

Levelled(l) == l \in [Prices -> LevelRows \cup {Nothing}] /\ IsFiniteSet(LevelsOf(l))

Entry(l, p, r, k) ==
  /\ Levelled(l) /\ Levelled(k) /\ p \in Prices /\ r \in LevelRows
  /\ LevelsOf(k) = LevelsOf(l) \cup {p} /\ k[p] = r
  /\ \A q \in Prices \ {p} : k[q] = l[q]

LEMMA LevelIsSet ==
  ASSUME NEW l, Levelled(l), NEW p \in Prices, NEW r \in LevelRows
  PROVE  Entry(l, p, r, [l EXCEPT ![p] = r])
<1> DEFINE k == [l EXCEPT ![p] = r]
<1>1. /\ l \in [Prices -> LevelRows \cup {Nothing}] /\ IsFiniteSet(LevelsOf(l)) /\ r # Nothing
      /\ k \in [Prices -> LevelRows \cup {Nothing}] /\ k[p] = r /\ \A q \in Prices \ {p} : k[q] = l[q]
  BY TradesAssumption DEF Levelled
<1> HIDE DEF k
<1>2. LevelsOf(k) = LevelsOf(l) \cup {p}
  BY <1>1 DEF LevelsOf
<1>3. IsFiniteSet(LevelsOf(k))
  BY <1>1, <1>2, FS_AddElement
<1>4. Levelled(k)
  BY <1>1, <1>3 DEF Levelled
<1> QED
  BY <1>1, <1>2, <1>4 DEF Entry, k

LEMMA NetIs ==
  ASSUME NEW l, NEW p, NEW r, NEW k, Entry(l, p, r, k)
  PROVE  /\ FlowOf(l, LevelsOf(l)) \in Int
         /\ p \in LevelsOf(l) =>
              FlowOf(k, LevelsOf(k))
                = FlowOf(l, LevelsOf(l)) + ((r.buy - r.sell) - (l[p].buy - l[p].sell))
         /\ p \notin LevelsOf(l) => FlowOf(k, LevelsOf(k)) = FlowOf(l, LevelsOf(l)) + (r.buy - r.sell)
<1> DEFINE S == LevelsOf(l)
           U == LevelsOf(k)
           f == [q \in S |-> l[q].buy - l[q].sell]
           g == [q \in U |-> k[q].buy - k[q].sell]
<1>1. IsFiniteSet(S) /\ U = S \cup {p} /\ r \in LevelRows /\ k[p] = r
  BY DEF Entry, Levelled
<1>2. /\ \A q \in S : l[q] \in LevelRows
      /\ \A q \in S \ {p} : k[q] = l[q]
  BY DEF Entry, LevelsOf, Levelled
<1>3. /\ \A q \in S : f[q] = l[q].buy - l[q].sell /\ f[q] \in Int
      /\ g[p] = r.buy - r.sell /\ g[p] \in Int
      /\ \A q \in S \ {p} : g[q] = f[q]
  BY <1>1, <1>2 DEF LevelRows
<1>4. FlowOf(l, S) = SumFunctionOnSet(f, S) /\ FlowOf(k, U) = SumFunctionOnSet(g, U)
  BY DEF FlowOf
<1> HIDE DEF f, g, S, U
<1>5. /\ p \in S => SumFunctionOnSet(g, U) = SumFunctionOnSet(f, S) + (g[p] - f[p])
      /\ p \notin S => SumFunctionOnSet(g, U) = SumFunctionOnSet(f, S) + g[p]
  <2>1. Enters(p, f, S, g, U)
    BY <1>1, <1>3 DEF Enters
  <2> QED
    BY <2>1, SumEntered
<1>6. SumFunctionOnSet(f, S) \in Int
  BY <1>1, <1>3, SumOfOneMore
<1> QED
  BY <1>3, <1>4, <1>5, <1>6 DEF S, U

Moves(l, p, r, d) ==
  /\ p \in LevelsOf(l) => r.buy - r.sell = (l[p].buy - l[p].sell) + d
  /\ p \notin LevelsOf(l) => r.buy - r.sell = d

LEMMA NetMoves ==
  ASSUME NEW l, NEW p, NEW r, NEW k, Entry(l, p, r, k), NEW d \in Int, Moves(l, p, r, d)
  PROVE  FlowOf(k, LevelsOf(k)) = FlowOf(l, LevelsOf(l)) + d
<1>1. r.buy \in Int /\ r.sell \in Int /\ (p \in LevelsOf(l) => l[p].buy \in Int /\ l[p].sell \in Int)
  BY DEF Entry, Levelled, LevelsOf, LevelRows
<1> DEFINE M == FlowOf(l, LevelsOf(l))
           N == FlowOf(k, LevelsOf(k))
<1>2. /\ M \in Int
      /\ p \in LevelsOf(l) => N = M + ((r.buy - r.sell) - (l[p].buy - l[p].sell))
      /\ p \notin LevelsOf(l) => N = M + (r.buy - r.sell)
  BY NetIs
<1> HIDE DEF M, N
<1>3. p \in LevelsOf(l) => N = M + d
  BY <1>1, <1>2 DEF Moves
<1>4. p \notin LevelsOf(l) => N = M + d
  BY <1>1, <1>2 DEF Moves
<1> QED
  BY <1>3, <1>4 DEF M, N

(* The volumes of prices.                                                  *)
LEMMA VolumesAre ==
  ASSUME NEW l, Levelled(l), NEW S, S \subseteq Prices, IsFiniteSet(S)
  PROVE  /\ \A p \in Prices : VolumeAt(l)[p] \in Nat /\ (l[p] # Nothing => VolumeAt(l)[p] = l[p].total)
         /\ VolumeOf(l, S) \in Nat
         /\ \A p \in S : /\ VolumeOf(l, S) = VolumeAt(l)[p] + VolumeOf(l, S \ {p})
                         /\ VolumeOf(l, S \ {p}) \in Nat
<1>1. \A p \in Prices : VolumeAt(l)[p] \in Nat /\ (l[p] # Nothing => VolumeAt(l)[p] = l[p].total)
  BY DEF VolumeAt, Levelled, LevelRows
<1>2. \A T : T \subseteq S => VolumeOf(l, T) \in Nat
  <2> SUFFICES ASSUME NEW T, T \subseteq S PROVE VolumeOf(l, T) \in Nat
    OBVIOUS
  <2>1. IsFiniteSet(T) /\ \A p \in T : VolumeAt(l)[p] \in Nat
    BY <1>1, FS_Subset
  <2> QED
    BY <2>1, SumIsNatural DEF VolumeOf
<1>3. \A p \in S : VolumeAt(l)[p] \in Int
  BY <1>1
<1>4. \A p \in S : VolumeOf(l, S) = VolumeAt(l)[p] + VolumeOf(l, S \ {p})
  BY <1>3, SumOfOneMore DEF VolumeOf
<1> QED
  BY <1>1, <1>2, <1>4

(* Levels only appear, and their volumes only grow.                        *)
Later(l, k) ==
  /\ Levelled(l) /\ Levelled(k) /\ LevelsOf(l) \subseteq LevelsOf(k)
  /\ \A p \in Prices : VolumeAt(l)[p] <= VolumeAt(k)[p]

LEMMA VolumesGrow ==
  ASSUME NEW l, NEW k, Later(l, k), NEW S, S \subseteq LevelsOf(l)
  PROVE  /\ VolumeOf(l, S) <= VolumeOf(k, S) /\ VolumeOf(l, S) \in Nat /\ VolumeOf(k, S) \in Nat
         /\ S \subseteq Prices /\ IsFiniteSet(S)
<1>1. S \subseteq Prices /\ IsFiniteSet(S)
  BY FS_Subset DEF Later, Levelled, LevelsOf
<1>2. /\ \A p \in S : VolumeAt(l)[p] \in Int /\ VolumeAt(k)[p] \in Int
           /\ VolumeAt(l)[p] <= VolumeAt(k)[p]
      /\ VolumeOf(l, S) \in Nat /\ VolumeOf(k, S) \in Nat
  BY <1>1, VolumesAre DEF Later
<1>3. VolumeOf(l, S) <= VolumeOf(k, S)
  BY <1>1, <1>2, SumGrows DEF VolumeOf
<1> QED
  BY <1>1, <1>2, <1>3

LEMMA CallsGrow ==
  ASSUME NEW l, NEW k, Later(l, k), NEW c \in Calls
  PROVE  (Summing(c, l) => Summing(c, k)) /\ (Mapping(c, l) => Mapping(c, k))
<1>1. c.total \in Nat /\ c.counted \in Nat /\ LevelsOf(l) \subseteq LevelsOf(k)
  BY DEF Calls, Later
<1>2. ASSUME Summing(c, l) PROVE Summing(c, k)
  <2>1. c.left \subseteq LevelsOf(l) /\ c.levels \ c.left \subseteq LevelsOf(l)
    BY <1>2 DEF Summing
  <2>2. /\ VolumeOf(l, c.left) <= VolumeOf(k, c.left)
        /\ VolumeOf(l, c.left) \in Nat /\ VolumeOf(k, c.left) \in Nat
    BY <2>1, VolumesGrow
  <2>3. /\ VolumeOf(l, c.levels \ c.left) <= VolumeOf(k, c.levels \ c.left)
        /\ VolumeOf(l, c.levels \ c.left) \in Nat /\ VolumeOf(k, c.levels \ c.left) \in Nat
    BY <2>1, VolumesGrow
  <2> QED
    BY <1>1, <1>2, <2>2, <2>3 DEF Summing
<1>3. ASSUME Mapping(c, l) PROVE Mapping(c, k)
  <2>1. c.left \subseteq LevelsOf(l)
    BY <1>3 DEF Mapping
  <2>2. /\ VolumeOf(l, c.left) <= VolumeOf(k, c.left)
        /\ VolumeOf(l, c.left) \in Nat /\ VolumeOf(k, c.left) \in Nat
    BY <2>1, VolumesGrow
  <2>3. Sum(c.map) \in Nat
    <3>1. PICK S \in SUBSET Prices : c.map \in [S -> Nat]
      BY DEF Calls
    <3>2. DOMAIN c.map = S /\ \A p \in S : c.map[p] \in Nat
      BY <3>1
    <3>3. IsFiniteSet(S)
      <4>1. S \subseteq LevelsOf(l)
        BY <1>3, <3>2 DEF Mapping
      <4> QED
        BY <4>1, VolumesGrow
    <3> QED
      BY <3>2, <3>3, SumIsNatural DEF Sum
  <2> QED
    BY <1>1, <1>3, <2>2, <2>3 DEF Mapping
<1> QED
  BY <1>2, <1>3

LEMMA AskersGrow ==
  ASSUME CallsInv, Later(level, level'), UNCHANGED asker
  PROVE  CallsInv'
<1> DEFINE l == level
           k == level'
<1>1. ASSUME NEW a \in Askers PROVE CallInv(asker[a], k)
  <2> DEFINE c == asker[a]
  <2>1. Later(l, k) /\ c \in Calls /\ CallInv(c, l)
    BY DEF CallsInv
  <2> HIDE DEF c, l, k
  <2>2. (Summing(c, l) => Summing(c, k)) /\ (Mapping(c, l) => Mapping(c, k))
    BY <2>1, CallsGrow
  <2> QED
    BY <2>1, <2>2 DEF CallInv, c
<1> QED
  BY <1>1 DEF CallsInv

LEMMA LevelGrows ==
  ASSUME NEW l, NEW p, NEW r, NEW k, Entry(l, p, r, k), p \in LevelsOf(l) => l[p].total <= r.total
  PROVE  Later(l, k) /\ VolumeOf(k, LevelsOf(k)) >= r.total
<1>1. /\ Levelled(l) /\ Levelled(k) /\ p \in Prices /\ r \in LevelRows
      /\ LevelsOf(k) = LevelsOf(l) \cup {p} /\ k[p] = r
      /\ \A q \in Prices \ {p} : k[q] = l[q]
  BY DEF Entry
<1>2. ASSUME NEW q \in Prices PROVE VolumeAt(l)[q] <= VolumeAt(k)[q]
  <2>1. r # Nothing /\ r.total \in Nat
    BY <1>1, TradesAssumption DEF LevelRows
  <2>2. CASE q = p
    <3>1. VolumeAt(k)[p] = r.total
      BY <1>1, <2>1 DEF VolumeAt
    <3>2. VolumeAt(l)[p] <= r.total
      BY <1>1, <2>1 DEF VolumeAt, LevelsOf
    <3> QED
      BY <2>2, <3>1, <3>2
  <2>3. CASE q # p
    <3>1. VolumeAt(k)[q] = VolumeAt(l)[q]
      BY <1>1, <2>3 DEF VolumeAt
    <3>2. VolumeAt(l)[q] \in Nat
      BY <1>1 DEF VolumeAt, Levelled, LevelRows
    <3> QED
      BY <3>1, <3>2
  <2> QED
    BY <2>2, <2>3
<1>3. VolumeOf(k, LevelsOf(k)) >= r.total
  <2> DEFINE S == LevelsOf(k)
  <2>1. S \subseteq Prices /\ IsFiniteSet(S) /\ p \in S /\ Levelled(k)
    BY <1>1 DEF LevelsOf, Levelled
  <2> HIDE DEF S
  <2>2. /\ \A q \in Prices : k[q] # Nothing => VolumeAt(k)[q] = k[q].total
        /\ \A q \in S : VolumeOf(k, S) = VolumeAt(k)[q] + VolumeOf(k, S \ {q})
                       /\ VolumeOf(k, S \ {q}) \in Nat
    BY <2>1, VolumesAre
  <2>3. r # Nothing /\ r.total \in Nat
    BY <1>1, TradesAssumption DEF LevelRows
  <2>4. VolumeAt(k)[p] = r.total
    BY <1>1, <2>2, <2>3
  <2>5. VolumeOf(k, S) = VolumeAt(k)[p] + VolumeOf(k, S \ {p}) /\ VolumeOf(k, S \ {p}) \in Nat
    BY <2>1, <2>2
  <2>6. VolumeOf(k, S) >= r.total
    BY ONLY <2>3, <2>4, <2>5
  <2> QED
    BY <2>6 DEF S
<1> QED
  BY <1>1, <1>2, <1>3 DEF Later

(* The volumes by price, as the profile takes them.                        *)
VolumesOf(l) == [p \in LevelsOf(l) |-> l[p].total]

LEMMA VolumesMeasured ==
  ASSUME NEW l, Levelled(l)
  PROVE  /\ Sum(VolumesOf(l)) = VolumeOf(l, LevelsOf(l)) /\ Sum(VolumesOf(l)) \in Nat
         /\ Sum(VolumesOf(l)) > 0 => Measured(VolumesOf(l), Sum(VolumesOf(l)))
<1> DEFINE S == LevelsOf(l)
           v == VolumesOf(l)
           w == VolumeAt(l)
<1>1. IsFiniteSet(S) /\ S \subseteq Prices /\ S \subseteq Int
  BY TradesAssumption DEF Levelled, LevelsOf
<1>2. DOMAIN v = S /\ v = [p \in S |-> v[p]] /\ (\A p \in S : v[p] \in Nat) /\ \A p \in S : w[p] = v[p]
  BY DEF Levelled, LevelsOf, LevelRows, VolumesOf, VolumeAt
<1> HIDE DEF S, v, w
<1>3. Sum(v) = SumFunctionOnSet(v, S) /\ SumFunctionOnSet(v, S) \in Nat
  BY <1>1, <1>2, SumIsNatural DEF Sum
<1>4. SumFunctionOnSet(w, S) = SumFunctionOnSet(v, S)
  BY <1>1, <1>2, SumSame
<1>5. Sum(v) > 0 => S # {}
  BY <1>3, SumOfNone
<1>6. Sum(v) > 0 => Measured(v, Sum(v))
  BY <1>1, <1>2, <1>3, <1>5 DEF Measured
<1> QED
  BY <1>3, <1>4, <1>6 DEF S, v, w, VolumeOf

-----------------------------------------------------------------------------
(* A step of process_trade.                                                *)

LEMMA NoCallIs ==
  /\ NoCall \in Calls /\ NoCall.at = "begin" /\ NoCall.profile = Nothing
  /\ NoCall = [at |-> "begin", levels |-> {}, left |-> {}, total |-> 0, map |-> <<>>,
               counted |-> 0, profile |-> Nothing]
<1>1. <<>> \in [{} -> Nat]
  OBVIOUS
<1>2. <<>> \in UNION {[S -> Nat] : S \in SUBSET Prices}
  BY <1>1
<1> HIDE <1>1
<1> QED
  BY <1>2 DEF NoCall, Calls

LEMMA InitFlow == FlowInit => FlowInv
<1> SUFFICES ASSUME FlowInit PROVE FlowInv
  OBVIOUS
<1>1. level = [p \in Prices |-> Nothing] /\ Levels = {}
  BY DEF FlowInit, Levels
<1>2. LevelsInv
  BY <1>1, TradesAssumption, FS_EmptySet DEF FlowInit, LevelsInv
<1>3. NetInv
  <2>1. FlowOf(level, {}) = 0
    BY SumOfNone DEF FlowOf
  <2> QED
    BY <1>1, <2>1 DEF FlowInit, NetInv
<1>4. SnapshotInv
  BY DEF FlowInit, SnapshotInv
<1>6. CallsInv
  BY NoCallIs DEF FlowInit, CallsInv, CallInv
<1> QED
  BY <1>2, <1>3, <1>4, <1>6 DEF FlowInv

LEMMA TradeIs ==
  ASSUME LevelsInv, trade # Nothing
  PROVE  /\ trade \in Trades /\ trade.price \in Prices /\ trade.buy \in BOOLEAN
         /\ trade.quantity \in Nat \ {0} /\ DeltaOf(trade) \in Int
BY TradesAssumption DEF LevelsInv, DeltaOf

LEMMA StepIngest ==
  ASSUME FlowInv, NEW t \in Trades, Ingest(t)
  PROVE  FlowInv'
<1>1. t # Nothing /\ (IF t.buy THEN t.quantity ELSE -t.quantity) = DeltaOf(t) /\ DeltaOf(t) \in Int
  BY TradesAssumption DEF DeltaOf
<1>2. Levels' = Levels /\ level' = level /\ asker' = asker
  BY DEF Ingest, Levels
<1>3. LevelsInv'
  BY <1>1, <1>2, TradesAssumption DEF FlowInv, LevelsInv, Ingest
<1>4. cvd = FlowOf(level, Levels) /\ cvd \in Int
  BY DEF FlowInv, LevelsInv, NetInv, Ingest
<1>5. cvd' = FlowOf(level, Levels)' + DeltaOf(t)
  BY <1>1, <1>2, <1>4 DEF Ingest
<1>6. NetInv'
  BY <1>1, <1>2, <1>5 DEF FlowInv, NetInv, Ingest
<1>7. SnapshotInv'
  BY DEF Ingest, SnapshotInv
<1>8. CallsInv'
  BY <1>2 DEF FlowInv, CallsInv
<1> QED
  BY <1>3, <1>6, <1>7, <1>8 DEF FlowInv

LEMMA LevelIs ==
  ASSUME LevelsInv
  PROVE  /\ Levelled(level) /\ Levels = LevelsOf(level)
         /\ \A p \in Levels : p \in Prices /\ level[p] \in LevelRows
         /\ \A p \in Prices : p \notin Levels => level[p] = Nothing
BY DEF LevelsInv, Levelled, Levels, LevelsOf

(* A statement that writes a level keeps what the others read.             *)
LEMMA LevelWritten ==
  ASSUME FlowInv, trade # Nothing, NEW r, Entry(level, trade.price, r, level'),
         trade.price \in Levels => level[trade.price].total <= r.total,
         UNCHANGED <<trade, traded, asker>>, step' \in {"side", "total", "profile"},
         bar' \in [buy : Nat, sell : Nat], UNCHANGED cvd
  PROVE  LevelsInv' /\ SnapshotInv' /\ CallsInv'
<1> DEFINE p == trade.price
<1>1. Levels' = LevelsOf(level') /\ Levels = LevelsOf(level)
  BY DEF Levels, LevelsOf
<1>2. /\ level' \in [Prices -> LevelRows \cup {Nothing}] /\ IsFiniteSet(Levels') /\ p \in Levels'
  BY <1>1 DEF Entry, Levelled
<1>4. LevelsInv'
  BY <1>2 DEF FlowInv, LevelsInv
<1>5. SnapshotInv'
  BY DEF SnapshotInv
<1>6. Later(level, level')
  <2> DEFINE l == level
             k == level'
  <2>1. Entry(l, p, r, k) /\ (p \in LevelsOf(l) => l[p].total <= r.total)
    BY <1>1
  <2> HIDE DEF l, k, p
  <2>2. Later(l, k)
    BY <2>1, LevelGrows
  <2> QED
    BY <2>2 DEF l, k
<1> QED
  BY <1>4, <1>5, <1>6, AskersGrow DEF FlowInv

LEMMA StepFindLevel ==
  ASSUME FlowInv, FindLevel
  PROVE  FlowInv'
<1> DEFINE p == trade.price
           r == IF level[p] = Nothing THEN NewLevel ELSE level[p]
<1>1. LevelsInv /\ NetInv /\ step = "level" /\ trade # Nothing
  BY DEF FlowInv, FindLevel, LevelsInv
<1>2. trade \in Trades /\ p \in Prices /\ DeltaOf(trade) \in Int
  BY <1>1, TradeIs
<1>3. /\ Levelled(level) /\ Levels = LevelsOf(level)
      /\ \A q \in Levels : q \in Prices /\ level[q] \in LevelRows
      /\ \A q \in Prices : q \notin Levels => level[q] = Nothing
  BY <1>1, LevelIs
<1>4. /\ r \in LevelRows
      /\ p \in Levels => r = level[p]
      /\ p \notin Levels => r = NewLevel /\ r.buy = 0 /\ r.sell = 0 /\ r.total = 0
  <2>1. NewLevel \in LevelRows /\ NewLevel.buy = 0 /\ NewLevel.sell = 0 /\ NewLevel.total = 0
    BY DEF NewLevel, LevelRows
  <2> QED
    BY <1>2, <1>3, <2>1, TradesAssumption
<1>5. level' = [level EXCEPT ![p] = r]
  BY DEF FindLevel
<1> HIDE DEF r, p
<1>6. Entry(level, p, r, level')
  BY <1>2, <1>3, <1>4, <1>5, LevelIsSet
<1>7. p \in Levels => level[p].total <= r.total
  BY <1>3, <1>4 DEF LevelRows
<1>8. LevelsInv' /\ SnapshotInv' /\ CallsInv'
  BY <1>1, <1>6, <1>7, LevelWritten DEF p, FindLevel, LevelsInv
<1>9. Levels' = Levels \cup {p} /\ Levels' = LevelsOf(level')
  BY <1>3, <1>6 DEF Entry, Levels, LevelsOf
<1>10. FlowOf(level', Levels') = FlowOf(level, Levels)
  <2> DEFINE l == level
             k == level'
  <2>1. Entry(l, p, r, k) /\ Moves(l, p, r, 0)
    BY <1>3, <1>4, <1>6 DEF LevelRows, Moves
  <2> HIDE DEF l, k
  <2>2. FlowOf(k, LevelsOf(k)) = FlowOf(l, LevelsOf(l)) + 0 /\ FlowOf(l, LevelsOf(l)) \in Int
    BY <2>1, NetMoves, NetIs
  <2>3. FlowOf(k, LevelsOf(k)) = FlowOf(l, LevelsOf(l))
    BY <2>2
  <2> QED
    BY <1>3, <1>9, <2>3 DEF l, k
<1>11. cvd' = cvd /\ bar' = bar /\ trade' = trade /\ step' = "side"
  BY DEF FindLevel
<1>12. ASSUME NEW q \in Levels'
       PROVE  level'[q].buy + level'[q].sell = level'[q].total
  <2>1. CASE q = p
    <3>1. level'[q] = r
      BY <1>6, <2>1 DEF Entry
    <3>2. CASE p \in Levels
      BY <1>1, <1>3, <1>4, <2>1, <3>1, <3>2 DEF NetInv, LevelRows
    <3>3. CASE p \notin Levels
      BY <1>4, <3>1, <3>3
    <3> QED
      BY <3>2, <3>3
  <2>2. CASE q # p
    <3>1. q \in Levels /\ level'[q] = level[q]
      BY <1>3, <1>6, <1>9, <2>2 DEF Entry
    <3> QED
      BY <1>1, <1>3, <3>1 DEF NetInv, LevelRows
  <2> QED
    BY <2>1, <2>2
<1>13. NetInv'
  <2>1. FlowOf(level', Levels') = FlowOf(level, Levels)'
    OBVIOUS
  <2>2. \A q \in Levels' : level'[q].total \in Int
    BY <1>8 DEF LevelsInv, Levels, LevelRows
  <2> QED
    BY <1>1, <1>10, <1>11, <1>12, <2>2 DEF NetInv
<1> QED
  BY <1>8, <1>13 DEF FlowInv

LEMMA StepAddSide ==
  ASSUME FlowInv, AddSide
  PROVE  FlowInv'
<1> DEFINE p == trade.price
           n == trade.quantity
           o == level[p]
           r == [buy |-> IF trade.buy THEN o.buy + n ELSE o.buy,
                 sell |-> IF trade.buy THEN o.sell ELSE o.sell + n, total |-> o.total]
           d == DeltaOf(trade)
<1>1. LevelsInv /\ NetInv /\ step = "side" /\ trade # Nothing /\ p \in Levels
  BY DEF FlowInv, AddSide, LevelsInv
<1>2. /\ trade \in Trades /\ p \in Prices /\ trade.buy \in BOOLEAN /\ n \in Nat /\ d \in Int
      /\ d = IF trade.buy THEN n ELSE -n
  BY <1>1, TradeIs DEF DeltaOf
<1>3. /\ Levelled(level) /\ Levels = LevelsOf(level) /\ o \in LevelRows
      /\ \A q \in Levels : q \in Prices /\ level[q] \in LevelRows
  BY <1>1, LevelIs
<1>4. o = [buy |-> o.buy, sell |-> o.sell, total |-> o.total] /\ o.buy \in Nat
      /\ o.sell \in Nat /\ o.total \in Nat
  BY <1>3 DEF LevelRows
<1>5. level' = [level EXCEPT ![p] = r]
  <2>1. CASE trade.buy
    <3>1. level' = [level EXCEPT ![p]["buy"] = @ + n]
      BY <2>1 DEF AddSide
    <3>2. [o EXCEPT !["buy"] = @ + n] = r
      BY <1>4, <2>1
    <3> QED
      BY <3>1, <3>2
  <2>2. CASE ~trade.buy
    <3>1. level' = [level EXCEPT ![p]["sell"] = @ + n]
      BY <2>2 DEF AddSide
    <3>2. [o EXCEPT !["sell"] = @ + n] = r
      BY <1>4, <2>2
    <3> QED
      BY <3>1, <3>2
  <2> QED
    BY <2>1, <2>2
<1>6. /\ bar'.buy = IF trade.buy THEN bar.buy + n ELSE bar.buy
      /\ bar'.sell = IF trade.buy THEN bar.sell ELSE bar.sell + n
      /\ bar' \in [buy : Nat, sell : Nat] /\ bar.buy \in Nat /\ bar.sell \in Nat
  <2>1. bar = [buy |-> bar.buy, sell |-> bar.sell] /\ bar.buy \in Nat /\ bar.sell \in Nat
    BY <1>1 DEF LevelsInv
  <2>2. CASE trade.buy
    <3>1. bar' = [bar EXCEPT !["buy"] = @ + n]
      BY <2>2 DEF AddSide
    <3>2. bar' = [buy |-> bar.buy + n, sell |-> bar.sell]
      BY <2>1, <3>1
    <3> QED
      BY <1>2, <2>1, <2>2, <3>2
  <2>3. CASE ~trade.buy
    <3>1. bar' = [bar EXCEPT !["sell"] = @ + n]
      BY <2>3 DEF AddSide
    <3>2. bar' = [buy |-> bar.buy, sell |-> bar.sell + n]
      BY <2>1, <3>1
    <3> QED
      BY <1>2, <2>1, <2>3, <3>2
  <2> QED
    BY <2>2, <2>3
<1>7. /\ r \in LevelRows /\ r.total = o.total /\ r.buy - r.sell = (o.buy - o.sell) + d
      /\ r.buy + r.sell = (o.buy + o.sell) + n
  <2>1. CASE trade.buy
    BY <1>2, <1>4, <2>1 DEF LevelRows
  <2>2. CASE ~trade.buy
    BY <1>2, <1>4, <2>2 DEF LevelRows
  <2> QED
    BY <2>1, <2>2
<1>8. trade' = trade /\ traded' = traded /\ asker' = asker /\ cvd' = cvd /\ step' = "total"
  BY DEF AddSide
<1> HIDE DEF r
<1>9. Entry(level, p, r, level')
  BY <1>2, <1>3, <1>5, <1>7, LevelIsSet
<1>10. LevelsInv' /\ SnapshotInv' /\ CallsInv'
  <2>1. level[p].total <= r.total
    BY <1>4, <1>7
  <2> QED
    BY <1>1, <1>6, <1>8, <1>9, <2>1, LevelWritten
<1>11. Levels' = Levels /\ Levels' = LevelsOf(level')
  BY <1>1, <1>3, <1>9 DEF Entry, Levels, LevelsOf
<1>12. FlowOf(level', Levels') = FlowOf(level, Levels) + d /\ FlowOf(level, Levels) \in Int
  <2> DEFINE l == level
             k == level'
  <2>1. Entry(l, p, r, k) /\ Moves(l, p, r, d)
    BY <1>1, <1>3, <1>7, <1>9 DEF Moves
  <2> HIDE DEF l, k, d, p
  <2>2. FlowOf(k, LevelsOf(k)) = FlowOf(l, LevelsOf(l)) + d /\ FlowOf(l, LevelsOf(l)) \in Int
    BY <1>2, <2>1, NetMoves, NetIs
  <2> QED
    BY <1>3, <1>11, <2>2 DEF l, k
<1>13. ASSUME NEW q \in Levels'
       PROVE  level'[q].buy + level'[q].sell = level'[q].total + IF q = p THEN n ELSE 0
  <2>1. CASE q = p
    <3>1. level'[q] = r
      BY <1>9, <2>1 DEF Entry
    <3>2. o.buy + o.sell = o.total
      BY <1>1, <1>4 DEF NetInv
    <3> QED
      BY <1>2, <1>4, <1>7, <2>1, <3>1, <3>2
  <2>2. CASE q # p
    <3>1. q \in Levels /\ level'[q] = level[q]
      BY <1>3, <1>9, <1>11, <2>2 DEF Entry
    <3> QED
      BY <1>1, <1>3, <2>2, <3>1 DEF NetInv, LevelRows
  <2> QED
    BY <2>1, <2>2
<1>14. bar'.buy - bar'.sell = (bar.buy - bar.sell) + d
  <2>1. CASE trade.buy
    BY <1>2, <1>6, <2>1
  <2>2. CASE ~trade.buy
    BY <1>2, <1>6, <2>2
  <2> QED
    BY <2>1, <2>2
<1>15. cvd = FlowOf(level, Levels) + d /\ bar.buy - bar.sell = FlowOf(level, Levels)
  BY <1>1 DEF NetInv
<1>16. NetInv'
  <2>1. cvd' = FlowOf(level', Levels') /\ cvd' \in Int /\ bar'.buy - bar'.sell = FlowOf(level', Levels')
    BY <1>2, <1>8, <1>12, <1>14, <1>15
  <2> HIDE DEF d, n, o, p
  <2> QED
    BY <1>8, <1>13, <2>1 DEF NetInv, n, p
<1> QED
  BY <1>10, <1>16 DEF FlowInv

LEMMA StepAddTotal ==
  ASSUME FlowInv, AddTotal
  PROVE  FlowInv'
<1> DEFINE p == trade.price
           n == trade.quantity
           o == level[p]
           r == [buy |-> o.buy, sell |-> o.sell, total |-> o.total + n]
<1>1. LevelsInv /\ NetInv /\ step = "total" /\ trade # Nothing /\ p \in Levels
  BY DEF FlowInv, AddTotal, LevelsInv
<1>2. trade \in Trades /\ p \in Prices /\ n \in Nat \ {0}
  BY <1>1, TradeIs
<1>3. /\ Levelled(level) /\ Levels = LevelsOf(level) /\ o \in LevelRows
      /\ \A q \in Levels : q \in Prices /\ level[q] \in LevelRows
  BY <1>1, LevelIs
<1>4. o = [buy |-> o.buy, sell |-> o.sell, total |-> o.total] /\ o.buy \in Nat
      /\ o.sell \in Nat /\ o.total \in Nat
  BY <1>3 DEF LevelRows
<1>5. level' = [level EXCEPT ![p] = r]
  <2>1. level' = [level EXCEPT ![p].total = @ + n]
    BY DEF AddTotal
  <2>2. [o EXCEPT !.total = @ + n] = r
    BY <1>4
  <2> QED
    BY <2>1, <2>2
<1>6. /\ r \in LevelRows /\ r.total = o.total + n /\ r.total > 0 /\ o.total <= r.total
      /\ r.buy = o.buy /\ r.sell = o.sell
  BY <1>2, <1>4 DEF LevelRows
<1>7. trade' = trade /\ traded' = traded /\ asker' = asker /\ cvd' = cvd /\ bar' = bar
      /\ step' = "profile"
  BY DEF AddTotal
<1> HIDE DEF r
<1>8. Entry(level, p, r, level')
  BY <1>2, <1>3, <1>5, <1>6, LevelIsSet
<1>9. LevelsInv' /\ SnapshotInv' /\ CallsInv'
  BY <1>1, <1>6, <1>7, <1>8, LevelWritten DEF LevelsInv
<1>10. Levels' = Levels /\ Levels' = LevelsOf(level')
  BY <1>1, <1>3, <1>8 DEF Entry, Levels, LevelsOf
<1>11. FlowOf(level', Levels') = FlowOf(level, Levels) /\ VolumeOf(level', Levels') > 0
  <2> DEFINE l == level
             k == level'
  <2>1. /\ Entry(l, p, r, k) /\ Moves(l, p, r, 0) /\ l[p].total <= r.total
        /\ Levelled(k) /\ IsFiniteSet(LevelsOf(k)) /\ LevelsOf(k) \subseteq Prices
    BY <1>1, <1>3, <1>4, <1>6, <1>8 DEF Moves, Entry, Levelled, LevelsOf
  <2> HIDE DEF l, k, p
  <2>2. FlowOf(k, LevelsOf(k)) = FlowOf(l, LevelsOf(l)) + 0 /\ FlowOf(l, LevelsOf(l)) \in Int
    BY <2>1, NetMoves, NetIs
  <2>3. FlowOf(k, LevelsOf(k)) = FlowOf(l, LevelsOf(l))
    BY <2>2
  <2>4. VolumeOf(k, LevelsOf(k)) >= r.total
    BY <2>1, LevelGrows
  <2>5. VolumeOf(k, LevelsOf(k)) \in Nat
    BY <2>1, VolumesAre
  <2>6. VolumeOf(k, LevelsOf(k)) > 0
    BY <1>4, <1>2, <1>6, <2>4, <2>5
  <2> QED
    BY <1>3, <1>10, <2>3, <2>6 DEF l, k
<1>12. ASSUME NEW q \in Levels'
       PROVE  level'[q].buy + level'[q].sell = level'[q].total /\ level'[q].total \in Int
  <2>1. CASE q = p
    <3>1. level'[q] = r
      BY <1>8, <2>1 DEF Entry
    <3>2. o.buy + o.sell = o.total + n
      BY <1>1, <1>4 DEF NetInv
    <3> QED
      BY <1>2, <1>4, <1>6, <3>1, <3>2
  <2>2. CASE q # p
    <3>1. q \in Levels /\ level'[q] = level[q]
      BY <1>3, <1>8, <1>10, <2>2 DEF Entry
    <3> QED
      BY <1>1, <1>3, <2>2, <3>1 DEF NetInv, LevelRows
  <2> QED
    BY <2>1, <2>2
<1>13. NetInv'
  BY <1>1, <1>7, <1>11, <1>12 DEF NetInv
<1> QED
  BY <1>9, <1>13 DEF FlowInv

LEMMA StepTakeSnapshot ==
  ASSUME FlowInv, TakeSnapshot
  PROVE  FlowInv'
<1>1. LevelsInv /\ NetInv /\ step = "profile"
  BY DEF FlowInv, TakeSnapshot
<1>2. /\ Levels' = Levels /\ level' = level /\ asker' = asker /\ cvd' = cvd /\ bar' = bar
      /\ traded' = traded /\ step' = "rest" /\ trade' = Nothing
      /\ snapshot' = [cvd |-> cvd, profile |-> Profile(Volumes, Sum(Volumes))] /\ Volumes' = Volumes
  BY DEF TakeSnapshot, Levels, Volumes
<1>3. LevelsInv'
  BY <1>1, <1>2 DEF LevelsInv
<1>4. NetInv'
  <2>1. FlowOf(level, Levels) \in Int /\ \A p \in Levels : level[p].total \in Int
    <3>1. cvd = FlowOf(level, Levels) /\ bar.buy - bar.sell = FlowOf(level, Levels)
          /\ bar.buy \in Int /\ bar.sell \in Int
      BY <1>1 DEF NetInv, LevelsInv
    <3> QED
      BY <1>1, <3>1, LevelIs DEF LevelRows
  <2> QED
    BY <1>1, <1>2 DEF NetInv
<1>5. IsValueArea(Profile(Volumes, Sum(Volumes)), Volumes, Sum(Volumes))
  <2>1. Levelled(level) /\ Levels = LevelsOf(level) /\ VolumeOf(level, Levels) > 0
    BY <1>1, LevelIs DEF NetInv
  <2>2. Volumes = VolumesOf(level)
    BY <2>1 DEF Volumes, VolumesOf
  <2>3. Measured(Volumes, Sum(Volumes))
    BY <2>1, <2>2, VolumesMeasured
  <2> QED
    BY <2>3, ProfileIsArea
<1>6. SnapshotInv'
  BY <1>2, <1>5 DEF SnapshotInv
<1>7. CallsInv'
  BY <1>2 DEF FlowInv, CallsInv
<1> QED
  BY <1>3, <1>4, <1>6, <1>7 DEF FlowInv

-----------------------------------------------------------------------------
(* A step of a call of the endpoint.                                       *)

LEMMA CallsChange ==
  ASSUME FlowInv, NEW a \in Askers, \E d \in Calls : CallInv(d, level) /\ Advance(a, d)
  PROVE  FlowInv'
<1>1. PICK d \in Calls : CallInv(d, level) /\ Advance(a, d)
  OBVIOUS
<1>2. /\ asker' = [asker EXCEPT ![a] = d]
      /\ level' = level /\ cvd' = cvd /\ bar' = bar /\ trade' = trade /\ step' = step
      /\ traded' = traded /\ snapshot' = snapshot
      /\ Levels' = Levels /\ Volumes' = Volumes
  BY <1>1 DEF Advance, Levels, Volumes
<1>3. LevelsInv' /\ NetInv' /\ SnapshotInv'
  BY <1>2 DEF FlowInv, LevelsInv, NetInv, SnapshotInv
<1>4. asker \in [Askers -> Calls] /\ \A b \in Askers : CallInv(asker[b], level)
  BY DEF FlowInv, CallsInv
<1>5. asker' \in [Askers -> Calls] /\ asker'[a] = d /\ \A b \in Askers \ {a} : asker'[b] = asker[b]
  BY <1>1, <1>2, <1>4
<1>6. ASSUME NEW b \in Askers PROVE CallInv(asker'[b], level')
  BY <1>1, <1>2, <1>4, <1>5, Zenon
<1>7. CallsInv'
  BY <1>5, <1>6 DEF CallsInv
<1> QED
  BY <1>3, <1>7 DEF FlowInv

LEMMA CallFields ==
  ASSUME NEW c \in Calls
  PROVE  /\ c = [at |-> c.at, levels |-> c.levels, left |-> c.left, total |-> c.total, map |-> c.map,
                 counted |-> c.counted, profile |-> c.profile]
         /\ c.levels \in SUBSET Prices /\ c.left \in SUBSET Prices /\ c.total \in Nat
         /\ c.counted \in Nat
         /\ c.map \in UNION {[S -> Nat] : S \in SUBSET Prices}
         /\ c.profile \in [poc : Int, low : Int, high : Int] \cup {Nothing}
BY DEF Calls

LEMMA CallAsks ==
  ASSUME NEW c \in Calls, NEW S, NEW n
  PROVE  [c EXCEPT !.at = "sum", !.levels = S, !.left = S, !.counted = n]
           = [at |-> "sum", levels |-> S, left |-> S, total |-> c.total, map |-> c.map,
              counted |-> n, profile |-> c.profile]
<1> DEFINE d == [c EXCEPT !.at = "sum", !.levels = S, !.left = S, !.counted = n]
           h == [at |-> "sum", levels |-> S, left |-> S, total |-> c.total, map |-> c.map,
                 counted |-> n, profile |-> c.profile]
           D == {"at", "levels", "left", "total", "map", "counted", "profile"}
<1>1. DOMAIN c = D
  BY CallFields
<1>2. DOMAIN d = D /\ d = [x \in D |-> d[x]]
  BY <1>1
<1>3. DOMAIN h = D /\ h = [x \in D |-> h[x]]
  OBVIOUS
<1>4. \A x \in D : d[x] = h[x]
  <2>1. d.at = "sum" /\ d.levels = S /\ d.left = S /\ d.counted = n
    BY <1>1
  <2>2. d.total = c.total /\ d.map = c.map /\ d.profile = c.profile
    BY <1>1
  <2>3. h.at = "sum" /\ h.levels = S /\ h.left = S /\ h.counted = n
    OBVIOUS
  <2>4. h.total = c.total /\ h.map = c.map /\ h.profile = c.profile
    OBVIOUS
  <2> HIDE DEF d, h
  <2> QED
    BY <2>1, <2>2, <2>3, <2>4
<1> HIDE DEF d, h
<1> QED
  BY <1>2, <1>3, <1>4 DEF d, h

LEMMA StepAsk ==
  ASSUME FlowInv, NEW a \in Askers, Ask(a)
  PROVE  FlowInv'
<1>1. LevelsInv /\ Levelled(level) /\ Levels = LevelsOf(level)
  BY LevelIs DEF FlowInv
<1>2. CASE Levels = {}
  <2> DEFINE d == [NoCall EXCEPT !.at = "done"]
  <2>1. d = [at |-> "done", levels |-> NoCall.levels, left |-> NoCall.left, total |-> NoCall.total,
             map |-> NoCall.map, counted |-> NoCall.counted, profile |-> NoCall.profile]
    <3>1. PICK c \in Calls : c = NoCall
      BY NoCallIs
    <3>2. [c EXCEPT !.at = "done"] = [at |-> "done", levels |-> c.levels, left |-> c.left,
             total |-> c.total, map |-> c.map, counted |-> c.counted, profile |-> c.profile]
      <4>1. c = [at |-> c.at, levels |-> c.levels, left |-> c.left, total |-> c.total, map |-> c.map,
                 counted |-> c.counted, profile |-> c.profile]
        BY CallFields
      <4> QED
        BY ONLY <4>1
    <3> QED
      BY <3>1, <3>2
  <2>2. d \in Calls /\ d.at = "done" /\ d.profile = Nothing
    BY <2>1, NoCallIs, CallFields DEF Calls
  <2>3. Advance(a, d)
    BY <1>2 DEF Ask
  <2> HIDE DEF d
  <2>4. CallInv(d, level)
    BY <2>2 DEF CallInv
  <2> QED
    BY <2>2, <2>3, <2>4, CallsChange
<1>3. CASE Levels # {}
  <2> DEFINE n == Sum(Volumes)
             d == [NoCall EXCEPT !.at = "sum", !.levels = Levels, !.left = Levels, !.counted = n]
  <2>1. Advance(a, d)
    BY <1>3 DEF Ask
  <2>2. n = VolumeOf(level, Levels) /\ n \in Nat
    <3>1. Volumes = VolumesOf(level)
      BY <1>1 DEF Volumes, VolumesOf
    <3> QED
      BY <1>1, <3>1, VolumesMeasured
  <2> HIDE DEF n
  <2>3. d = [at |-> "sum", levels |-> Levels, left |-> Levels, total |-> 0, map |-> <<>>,
             counted |-> n, profile |-> Nothing]
    <3>1. d = [at |-> "sum", levels |-> Levels, left |-> Levels, total |-> NoCall.total,
               map |-> NoCall.map,
               counted |-> n, profile |-> NoCall.profile]
      <4>1. PICK c \in Calls : c = NoCall
        BY NoCallIs
      <4> QED
        BY <4>1, CallAsks
    <3>2. NoCall.total = 0 /\ NoCall.map = <<>> /\ NoCall.profile = Nothing
      BY DEF NoCall
    <3> QED
      BY <3>1, <3>2
  <2>4. /\ d.at = "sum" /\ d.levels = Levels /\ d.left = Levels /\ d.total = 0 /\ d.map = <<>>
        /\ d.counted = n /\ d.profile = Nothing
    BY <2>3
  <2>5. d \in Calls
    <3>1. Levels \in SUBSET Prices
      BY DEF Levels
    <3> QED
      BY <2>2, <2>3, <3>1, NoCallIs DEF Calls
  <2> HIDE DEF d
  <2>6. VolumeOf(level, Levels \ Levels) \in Nat
    <3> DEFINE S == Levels \ Levels
               l == level
    <3>1. Levelled(l) /\ S \subseteq Prices /\ IsFiniteSet(S)
      BY <1>1, FS_EmptySet
    <3> HIDE DEF S, l
    <3>2. VolumeOf(l, S) \in Nat
      BY <3>1, VolumesAre
    <3> QED
      BY <3>2 DEF S, l
  <2>7. Summing(d, level)
    BY <1>1, <2>2, <2>4, <2>6 DEF Summing
  <2>8. CallInv(d, level)
    BY <2>4, <2>7 DEF CallInv
  <2> QED
    BY <2>1, <2>5, <2>8, CallsChange
<1> QED
  BY <1>2, <1>3

LEMMA SetsOfPrices ==
  ASSUME NEW l, Levelled(l), NEW S, S \subseteq LevelsOf(l)
  PROVE  S \subseteq Prices /\ S \subseteq Int /\ IsFiniteSet(S) /\ VolumeOf(l, S) \in Nat
         /\ \A p \in S : /\ VolumeOf(l, S) = l[p].total + VolumeOf(l, S \ {p})
                         /\ VolumeOf(l, S \ {p}) \in Nat /\ l[p].total \in Nat
<1>1. S \subseteq Prices /\ IsFiniteSet(S)
  BY FS_Subset DEF LevelsOf, Levelled
<1>2. \A p \in S : l[p] # Nothing /\ l[p].total \in Nat
  BY DEF LevelsOf, Levelled, LevelRows
<1>3. /\ \A p \in Prices : l[p] # Nothing => VolumeAt(l)[p] = l[p].total
      /\ VolumeOf(l, S) \in Nat
      /\ \A p \in S : /\ VolumeOf(l, S) = VolumeAt(l)[p] + VolumeOf(l, S \ {p})
                      /\ VolumeOf(l, S \ {p}) \in Nat
  BY <1>1, VolumesAre
<1> QED
  BY <1>1, <1>2, <1>3, TradesAssumption

(* The sum goes on with the level p.                                       *)
LEMMA Counted ==
  ASSUME NEW l, Levelled(l), NEW c \in Calls, Summing(c, l), c.at = "sum", NEW p \in c.left,
         NEW d, d = [c EXCEPT !.total = @ + l[p].total, !.left = @ \ {p}]
  PROVE  d \in Calls /\ CallInv(d, l)
<1> DEFINE left == c.left \ {p}
           total == c.total + l[p].total
           done == c.levels \ c.left
<1>1. /\ c.levels \subseteq LevelsOf(l) /\ c.left \subseteq c.levels /\ c.profile = Nothing
      /\ c.map = <<>>
      /\ c.counted <= c.total + VolumeOf(l, c.left) /\ c.total <= VolumeOf(l, done)
  BY DEF Summing
<1>2. c.total \in Nat /\ c.counted \in Nat
  BY CallFields
<1>3. /\ VolumeOf(l, c.left) = l[p].total + VolumeOf(l, left) /\ VolumeOf(l, left) \in Nat
      /\ l[p].total \in Nat /\ c.left \subseteq Prices
  <2>1. c.left \subseteq LevelsOf(l)
    BY <1>1
  <2> QED
    BY <2>1, SetsOfPrices
<1>4. VolumeOf(l, c.levels \ left) = l[p].total + VolumeOf(l, done) /\ VolumeOf(l, done) \in Nat
  <2> DEFINE S == c.levels \ left
  <2>1. S \subseteq LevelsOf(l) /\ p \in S /\ S \ {p} = done
    BY <1>1
  <2> HIDE DEF S, done, left
  <2>2. VolumeOf(l, S) = l[p].total + VolumeOf(l, S \ {p}) /\ VolumeOf(l, S \ {p}) \in Nat
    BY <2>1, SetsOfPrices
  <2> QED
    BY <2>1, <2>2 DEF S
<1>5. d = [at |-> c.at, levels |-> c.levels, left |-> left, total |-> total, map |-> c.map,
           counted |-> c.counted, profile |-> c.profile]
  <2>1. c = [at |-> c.at, levels |-> c.levels, left |-> c.left, total |-> c.total, map |-> c.map,
             counted |-> c.counted, profile |-> c.profile]
    BY CallFields
  <2> QED
    BY <2>1
<1>6. total \in Nat /\ left \in SUBSET Prices
  BY <1>2, <1>3
<1> HIDE DEF left, total
<1>7. d \in Calls
  <2>1. /\ c.levels \in SUBSET Prices /\ c.total \in Nat /\ c.counted \in Nat
        /\ c.map \in UNION {[S -> Nat] : S \in SUBSET Prices}
        /\ c.profile \in [poc : Int, low : Int, high : Int] \cup {Nothing}
    BY CallFields
  <2>2. c.at \in {"begin", "sum", "prices", "map", "done", "raised"}
    BY DEF Calls
  <2> QED
    BY ONLY <1>5, <1>6, <2>1, <2>2 DEF Calls
<1>8. /\ d.at = "sum" /\ d.levels = c.levels /\ d.left = left /\ d.total = total /\ d.map = <<>>
      /\ d.counted = c.counted /\ d.profile = Nothing
  BY ONLY <1>1, <1>5, c.at = "sum"
<1>9. left \subseteq c.levels
  BY <1>1 DEF left
<1>10. c.counted <= total + VolumeOf(l, left)
  BY <1>1, <1>2, <1>3 DEF total
<1>11. total <= VolumeOf(l, c.levels \ left)
  BY <1>1, <1>2, <1>3, <1>4 DEF total
<1>12. Summing(d, l)
  BY <1>1, <1>8, <1>9, <1>10, <1>11 DEF Summing
<1> QED
  BY <1>7, <1>8, <1>12 DEF CallInv

(* More prices have no less volume. *)
LEMMA VolumeOfMore ==
  ASSUME NEW l, Levelled(l), NEW S, S \subseteq LevelsOf(l)
  PROVE  VolumeOf(l, S) <= VolumeOf(l, LevelsOf(l))
<1> DEFINE T == LevelsOf(l)
           f == VolumeAt(l)
           h == [p \in T |-> IF p \in S THEN f[p] ELSE 0]
<1>1. T \subseteq Prices /\ IsFiniteSet(T) /\ S \subseteq T /\ \A p \in T : f[p] \in Nat
  <2>1. T \subseteq Prices /\ IsFiniteSet(T)
    BY DEF LevelsOf, Levelled
  <2>2. \A p \in Prices : f[p] \in Nat
    BY <2>1, VolumesAre
  <2> QED
    BY <2>1, <2>2
<1>2. /\ \A p \in T : h[p] \in Int /\ f[p] \in Int /\ h[p] <= f[p]
      /\ \A p \in S : f[p] = h[p]
      /\ \A p \in T \ S : h[p] = 0
  BY <1>1
<1> HIDE DEF h, f, T
<1>3. SumFunctionOnSet(f, S) = SumFunctionOnSet(h, T)
  BY <1>1, <1>2, SumWithoutZeros
<1>4. SumFunctionOnSet(h, T) <= SumFunctionOnSet(f, T)
  BY <1>1, <1>2, SumGrows
<1> QED
  BY <1>3, <1>4 DEF VolumeOf, f, T

(* All levels are summed, and the volumes are read next.                   *)
LEMMA MapBegins ==
  ASSUME NEW l, Levelled(l), NEW c \in Calls, Summing(c, l), c.left = {}, c.total # 0,
         NEW d, d = [c EXCEPT !.at = "map", !.levels = LevelsOf(l), !.left = LevelsOf(l)]
  PROVE  d \in Calls /\ CallInv(d, l)
<1> DEFINE S == LevelsOf(l)
<1>1. /\ c.profile = Nothing /\ c.map = <<>> /\ c.counted <= c.total + VolumeOf(l, {})
      /\ c.total <= VolumeOf(l, S)
  <2>1. /\ c.levels \ c.left = c.levels /\ c.levels \subseteq S /\ c.total <= VolumeOf(l, c.levels)
        /\ c.profile = Nothing /\ c.map = <<>> /\ c.counted <= c.total + VolumeOf(l, {})
    BY DEF Summing
  <2>2. VolumeOf(l, c.levels) <= VolumeOf(l, S)
    BY <2>1, VolumeOfMore
  <2>3. VolumeOf(l, c.levels) \in Nat /\ VolumeOf(l, S) \in Nat /\ c.total \in Nat
    <3>1. S \subseteq LevelsOf(l)
      OBVIOUS
    <3> QED
      BY <2>1, <3>1, SetsOfPrices, CallFields
  <2> HIDE DEF S
  <2> QED
    BY <2>1, <2>2, <2>3
<1>2. VolumeOf(l, {}) = 0 /\ Sum(<<>>) = 0
  <2>1. DOMAIN <<>> = {}
    OBVIOUS
  <2> QED
    BY <2>1, SumOfNone DEF VolumeOf, Sum
<1>3. c.total \in Nat \ {0} /\ c.counted \in Nat
  BY CallFields
<1>4. S # {}
  <2> SUFFICES ASSUME S = {} PROVE FALSE
    OBVIOUS
  <2>1. c.total <= 0
    BY <1>1, <1>2
  <2> QED
    BY <1>3, <2>1
<1>5. d = [at |-> "map", levels |-> S, left |-> S, total |-> c.total, map |-> c.map,
           counted |-> c.counted, profile |-> c.profile]
  <2>1. c = [at |-> c.at, levels |-> c.levels, left |-> c.left, total |-> c.total, map |-> c.map,
             counted |-> c.counted, profile |-> c.profile]
    BY CallFields
  <2> QED
    BY <2>1
<1>6. VolumeOf(l, S) \in Nat /\ S \in SUBSET Prices
  <2>1. S \subseteq LevelsOf(l)
    OBVIOUS
  <2> QED
    BY <2>1, SetsOfPrices
<1>7. S \ S = {} /\ DOMAIN <<>> = {}
  OBVIOUS
<1> HIDE DEF S
<1>8. d \in Calls
  <2>1. /\ c.total \in Nat /\ c.counted \in Nat
        /\ c.map \in UNION {[T -> Nat] : T \in SUBSET Prices}
        /\ c.profile \in [poc : Int, low : Int, high : Int] \cup {Nothing}
    BY CallFields
  <2> QED
    BY ONLY <1>5, <1>6, <2>1 DEF Calls
<1>9. /\ d.at = "map" /\ d.levels = S /\ d.left = S /\ d.total = c.total /\ d.map = <<>>
      /\ d.counted = c.counted /\ d.profile = Nothing
  BY ONLY <1>1, <1>5
<1>10. c.counted <= c.total /\ c.total > 0 /\ c.total <= Sum(<<>>) + VolumeOf(l, S)
  BY <1>1, <1>2, <1>3, <1>6
<1>11. Mapping(d, l)
  BY <1>4, <1>7, <1>9, <1>10 DEF Mapping, S
<1> QED
  BY <1>8, <1>9, <1>11 DEF CallInv

LEMMA StepCountLevel ==
  ASSUME FlowInv, NEW a \in Askers, CountLevel(a)
  PROVE  FlowInv'
<1> DEFINE c == asker[a]
<1>1. LevelsInv /\ Levelled(level) /\ Levels = LevelsOf(level)
  BY LevelIs DEF FlowInv
<1>2. c \in Calls /\ c.at = "sum" /\ Summing(c, level)
  BY DEF FlowInv, CallsInv, CallInv, CountLevel
<1>3. ASSUME NEW at \in {"raised", "done"}
      PROVE  [c EXCEPT !.at = at] \in Calls /\ CallInv([c EXCEPT !.at = at], level)
  <2> DEFINE d == [c EXCEPT !.at = at]
  <2>1. c = [at |-> c.at, levels |-> c.levels, left |-> c.left, total |-> c.total, map |-> c.map,
             counted |-> c.counted, profile |-> c.profile]
    BY <1>2, CallFields
  <2>2. d = [at |-> at, levels |-> c.levels, left |-> c.left, total |-> c.total, map |-> c.map,
             counted |-> c.counted, profile |-> c.profile]
    BY <2>1
  <2>3. c.profile = Nothing
    BY <1>2 DEF Summing
  <2>4. d \in Calls /\ d.at = at /\ d.profile = Nothing
    BY <1>2, <2>2, <2>3 DEF Calls
  <2> HIDE DEF d
  <2>5. CallInv(d, level)
    BY <2>4 DEF CallInv
  <2> QED
    BY <2>4, <2>5 DEF d
<1>4. CASE Levels # c.levels
  <2>1. Advance(a, [c EXCEPT !.at = "raised"])
    BY <1>4 DEF CountLevel
  <2> QED
    BY <1>3, <2>1, CallsChange
<1>5. CASE Levels = c.levels /\ c.left = {} /\ c.total = 0
  <2>1. Advance(a, [c EXCEPT !.at = "done"])
    BY <1>5 DEF CountLevel
  <2> QED
    BY <1>3, <2>1, CallsChange
<1>6. CASE Levels = c.levels /\ c.left = {} /\ c.total # 0
  <2> DEFINE d == [c EXCEPT !.at = "prices"]
  <2>1. Advance(a, d)
    BY <1>6 DEF CountLevel
  <2>2. c = [at |-> c.at, levels |-> c.levels, left |-> c.left, total |-> c.total, map |-> c.map,
             counted |-> c.counted, profile |-> c.profile]
    BY <1>2, CallFields
  <2>3. d = [at |-> "prices", levels |-> c.levels, left |-> c.left, total |-> c.total, map |-> c.map,
             counted |-> c.counted, profile |-> c.profile]
    BY <2>2
  <2>4. /\ d \in Calls /\ d.at = "prices" /\ d.levels = c.levels /\ d.left = c.left
        /\ d.total = c.total /\ d.map = c.map /\ d.counted = c.counted /\ d.profile = c.profile
    BY <1>2, <2>3 DEF Calls
  <2> HIDE DEF d
  <2>5. Summing(d, level) /\ d.profile = Nothing
    BY <1>2, <2>4 DEF Summing
  <2>6. CallInv(d, level)
    BY <1>6, <2>4, <2>5 DEF CallInv
  <2> QED
    BY <2>1, <2>4, <2>6, CallsChange
<1>7. CASE Levels = c.levels /\ c.left # {}
  <2>1. PICK p \in c.left : Advance(a, [c EXCEPT !.total = @ + level[p].total, !.left = @ \ {p}])
    BY <1>7 DEF CountLevel
  <2> DEFINE d == [c EXCEPT !.total = @ + level[p].total, !.left = @ \ {p}]
  <2>2. d \in Calls /\ CallInv(d, level)
    <3> DEFINE l == level
    <3>1. /\ Levelled(l) /\ c \in Calls /\ Summing(c, l) /\ c.at = "sum" /\ p \in c.left
          /\ d = [c EXCEPT !.total = @ + l[p].total, !.left = @ \ {p}]
      BY <1>1, <1>2
    <3> HIDE DEF c, d, l
    <3>2. d \in Calls /\ CallInv(d, l)
      BY <3>1, Counted
    <3> QED
      BY <3>2 DEF l
  <2> QED
    BY <2>1, <2>2, CallsChange
<1> QED
  BY <1>4, <1>5, <1>6, <1>7

LEMMA StepSortPrices ==
  ASSUME FlowInv, NEW a \in Askers, SortPrices(a)
  PROVE  FlowInv'
<1> DEFINE c == asker[a]
           l == level
           d == [c EXCEPT !.at = "map", !.levels = Levels, !.left = Levels]
<1>1. Levelled(level) /\ Levels = LevelsOf(level)
  BY LevelIs DEF FlowInv
<1>2. c \in Calls /\ c.at = "prices" /\ Summing(c, level) /\ c.left = {} /\ c.total # 0
  BY DEF FlowInv, CallsInv, CallInv, SortPrices
<1>3. Advance(a, d)
  BY DEF SortPrices
<1>4. /\ Levelled(l) /\ c \in Calls /\ Summing(c, l) /\ c.left = {} /\ c.total # 0
      /\ d = [c EXCEPT !.at = "map", !.levels = LevelsOf(l), !.left = LevelsOf(l)]
  BY <1>1, <1>2
<1> HIDE DEF c, d, l
<1>5. d \in Calls /\ CallInv(d, l)
  BY <1>4, MapBegins
<1> QED
  BY <1>3, <1>5, CallsChange DEF l

(* The volume of the lowest price that is left is read.                    *)
Reads(l, c, p, read) ==
  /\ Levelled(l) /\ Mapping(c, l) /\ p = Min(c.left)
  /\ read = [q \in DOMAIN c.map \cup {p} |-> IF q = p THEN l[p].total ELSE c.map[q]]

HasRead(l, c, p, read) ==
  /\ p \in c.left /\ c.left \subseteq Prices
  /\ DOMAIN read = (c.levels \ c.left) \cup {p} /\ IsFiniteSet(DOMAIN read)
  /\ DOMAIN read \subseteq Prices
  /\ read \in [DOMAIN read -> Nat] /\ Sum(read) \in Nat
  /\ VolumeOf(l, c.left \ {p}) \in Nat
  /\ c.total <= Sum(read) + VolumeOf(l, c.left \ {p})

LEMMA VolumeRead ==
  ASSUME NEW l, NEW c \in Calls, NEW p, NEW read, Reads(l, c, p, read)
  PROVE  HasRead(l, c, p, read)
<1> DEFINE D == c.levels \ c.left
           U == D \cup {p}
           m == c.map
<1>0. Levelled(l) /\ p = Min(c.left)
      /\ read = [q \in DOMAIN m \cup {p} |-> IF q = p THEN l[p].total ELSE m[q]]
  BY DEF Reads
<1>1. /\ c.levels \subseteq LevelsOf(l) /\ c.left \subseteq c.levels /\ c.left # {} /\ DOMAIN m = D
      /\ c.total <= Sum(m) + VolumeOf(l, c.left) /\ c.total \in Nat
  BY CallFields DEF Mapping, Reads
<1>2. c.left \subseteq Int /\ IsFiniteSet(c.left) /\ c.left \subseteq Prices
  <2>1. c.left \subseteq LevelsOf(l)
    BY <1>1
  <2> QED
    BY <1>0, <2>1, SetsOfPrices
<1>3. p \in c.left
  BY <1>0, <1>1, <1>2, Extremes
<1>4. /\ VolumeOf(l, c.left) = l[p].total + VolumeOf(l, c.left \ {p})
      /\ VolumeOf(l, c.left \ {p}) \in Nat
      /\ l[p].total \in Nat
  <2>1. c.left \subseteq LevelsOf(l)
    BY <1>1
  <2>2. \A q \in c.left : /\ VolumeOf(l, c.left) = l[q].total + VolumeOf(l, c.left \ {q})
                          /\ VolumeOf(l, c.left \ {q}) \in Nat /\ l[q].total \in Nat
    BY <1>0, <2>1, SetsOfPrices
  <2> QED
    BY ONLY <1>3, <2>2
<1>5. \A q \in D : m[q] \in Nat
  <2>1. PICK S \in SUBSET Prices : m \in [S -> Nat]
    BY CallFields
  <2> QED
    BY <1>1, <2>1
<1>6. IsFiniteSet(D) /\ IsFiniteSet(U) /\ U \subseteq Prices
  <2>1. U \subseteq LevelsOf(l) /\ D \subseteq LevelsOf(l)
    BY <1>1, <1>3
  <2> HIDE DEF U, D
  <2> QED
    BY <1>0, <2>1, SetsOfPrices
<1>7. /\ DOMAIN read = U /\ read[p] = l[p].total /\ p \notin D
      /\ \A q \in D : read[q] = m[q]
      /\ read = [q \in U |-> read[q]]
  BY <1>0, <1>1, <1>3
<1> HIDE DEF D, U, m
<1>8. Enters(p, m, D, read, U)
  <2>1. U = D \cup {p}
    BY DEF U
  <2>2. \A q \in D : m[q] \in Int
    BY <1>5
  <2>3. \A q \in D \ {p} : read[q] = m[q]
    BY <1>7
  <2>4. read[p] \in Int
    BY <1>4, <1>7
  <2> QED
    BY ONLY <1>6, <2>1, <2>2, <2>3, <2>4 DEF Enters
<1>9. SumFunctionOnSet(read, U) = SumFunctionOnSet(m, D) + l[p].total
  BY <1>7, <1>8, SumEntered
<1>10. Sum(read) = Sum(m) + l[p].total
  BY <1>1, <1>7, <1>9 DEF Sum
<1>11. Sum(m) \in Nat
  BY <1>1, <1>5, <1>6, SumIsNatural DEF Sum
<1>12. read \in [U -> Nat]
  <2>1. \A q \in U : read[q] \in Nat
    BY <1>4, <1>5, <1>7 DEF U
  <2> QED
    BY <1>7, <2>1
<1>13. c.total <= Sum(read) + VolumeOf(l, c.left \ {p}) /\ Sum(read) \in Nat
  BY <1>1, <1>4, <1>10, <1>11
<1> QED
  BY <1>2, <1>3, <1>4, <1>6, <1>7, <1>12, <1>13 DEF HasRead, U, D

LEMMA CallReads ==
  ASSUME NEW c \in Calls, NEW read, NEW left
  PROVE  [c EXCEPT !.map = read, !.left = left]
           = [at |-> c.at, levels |-> c.levels, left |-> left, total |-> c.total, map |-> read,
              counted |-> c.counted, profile |-> c.profile]
<1> DEFINE d == [c EXCEPT !.map = read, !.left = left]
           h == [at |-> c.at, levels |-> c.levels, left |-> left, total |-> c.total, map |-> read,
                 counted |-> c.counted, profile |-> c.profile]
           D == {"at", "levels", "left", "total", "map", "counted", "profile"}
<1>1. DOMAIN c = D
  BY CallFields
<1>2. DOMAIN d = D /\ d = [x \in D |-> d[x]]
  BY <1>1
<1>3. DOMAIN h = D /\ h = [x \in D |-> h[x]]
  OBVIOUS
<1>4. \A x \in D : d[x] = h[x]
  <2>1. d.map = read /\ d.left = left /\ d.at = c.at /\ d.levels = c.levels
    BY <1>1
  <2>2. d.total = c.total /\ d.counted = c.counted /\ d.profile = c.profile
    BY <1>1
  <2>3. h.map = read /\ h.left = left /\ h.at = c.at /\ h.levels = c.levels
    OBVIOUS
  <2>4. h.total = c.total /\ h.counted = c.counted /\ h.profile = c.profile
    OBVIOUS
  <2> HIDE DEF d, h
  <2> QED
    BY <2>1, <2>2, <2>3, <2>4
<1> HIDE DEF d, h
<1> QED
  BY <1>2, <1>3, <1>4 DEF d, h

LEMMA MapGoesOn ==
  ASSUME NEW l, NEW c \in Calls, NEW p, NEW read, Reads(l, c, p, read),
         c.at = "map", c.left # {p}, NEW d, d = [c EXCEPT !.map = read, !.left = @ \ {p}]
  PROVE  d \in Calls /\ CallInv(d, l)
<1> DEFINE left == c.left \ {p}
<1>1. /\ p \in c.left /\ c.left \subseteq Prices
      /\ DOMAIN read = (c.levels \ c.left) \cup {p} /\ DOMAIN read \subseteq Prices
      /\ read \in [DOMAIN read -> Nat] /\ c.total <= Sum(read) + VolumeOf(l, left)
  <2>1. HasRead(l, c, p, read)
    BY VolumeRead
  <2> QED
    BY ONLY <2>1 DEF HasRead
<1>2. /\ c.levels \subseteq LevelsOf(l) /\ c.left \subseteq c.levels /\ c.profile = Nothing
      /\ c.total > 0 /\ c.counted <= c.total
  BY DEF Mapping, Reads
<1>3. left # {} /\ left \subseteq c.levels /\ left \in SUBSET Prices /\ DOMAIN read = c.levels \ left
  BY <1>1, <1>2
<1>4. d = [at |-> c.at, levels |-> c.levels, left |-> left, total |-> c.total, map |-> read,
           counted |-> c.counted, profile |-> c.profile]
  <2>1. d = [c EXCEPT !.map = read, !.left = left]
    OBVIOUS
  <2> HIDE DEF left
  <2> QED
    BY ONLY <2>1, c \in Calls, CallReads
<1> HIDE DEF left
<1>5. read \in UNION {[S -> Nat] : S \in SUBSET Prices}
  <2> DEFINE D == DOMAIN read
  <2>1. D \in SUBSET Prices /\ read \in [D -> Nat]
    BY <1>1
  <2> HIDE DEF D
  <2> QED
    BY ONLY <2>1
<1>6. c.levels \in SUBSET Prices /\ c.total \in Nat /\ c.counted \in Nat
  BY CallFields
<1>7. d \in Calls
  <2> HIDE <1>1
  <2> QED
    BY ONLY <1>2, <1>3, <1>4, <1>5, <1>6, c.at = "map" DEF Calls
<1>8. /\ d.at = "map" /\ d.levels = c.levels /\ d.left = left /\ d.total = c.total /\ d.map = read
      /\ d.counted = c.counted /\ d.profile = Nothing
  BY ONLY <1>2, <1>4, c.at = "map"
<1>9. Mapping(d, l)
  BY <1>1, <1>2, <1>3, <1>8 DEF Mapping
<1> QED
  BY <1>7, <1>8, <1>9 DEF CallInv

(* The last volume is read: the profile is of the volumes that were read.  *)
LEMMA MapEnds ==
  ASSUME NEW l, NEW c \in Calls, NEW p, NEW read, Reads(l, c, p, read), c.left = {p}, NEW d,
         d = [c EXCEPT !.at = "done", !.map = read, !.left = {}, !.profile = Profile(read, c.total)]
  PROVE  d \in Calls /\ CallInv(d, l)
<1>1. /\ p \in c.left /\ IsFiniteSet(DOMAIN read) /\ DOMAIN read \subseteq Prices /\ p \in DOMAIN read
      /\ read \in [DOMAIN read -> Nat] /\ Sum(read) \in Nat
      /\ c.total <= Sum(read) + VolumeOf(l, c.left \ {p})
  <2>1. HasRead(l, c, p, read)
    BY VolumeRead
  <2> QED
    BY ONLY <2>1 DEF HasRead
<1>2. c.total > 0 /\ c.counted <= c.total
  BY DEF Mapping, Reads
<1>3. c.levels \in SUBSET Prices /\ c.total \in Nat /\ c.counted \in Nat
  BY CallFields
<1>4. VolumeOf(l, c.left \ {p}) = 0
  <2>1. c.left \ {p} = {}
    OBVIOUS
  <2> QED
    BY ONLY <2>1, SumOfNone DEF VolumeOf
<1>5. Measured(read, c.total)
  <2>1. c.total \in Nat \ {0} /\ c.total <= Sum(read)
    BY ONLY <1>1, <1>2, <1>3, <1>4
  <2>2. DOMAIN read \subseteq Int
    BY <1>1, TradesAssumption
  <2>3. read = [q \in DOMAIN read |-> read[q]] /\ \A q \in DOMAIN read : read[q] \in Nat
    BY <1>1
  <2> QED
    BY ONLY <1>1, <2>1, <2>2, <2>3 DEF Measured
<1> DEFINE a == Profile(read, c.total)
<1>6. IsValueArea(a, read, c.total) /\ a \in [poc : Int, low : Int, high : Int]
  BY <1>5, ProfileIsArea
<1> HIDE DEF a
<1>7. d = [at |-> "done", levels |-> c.levels, left |-> {}, total |-> c.total, map |-> read,
           counted |-> c.counted, profile |-> a]
  <2> DEFINE h == [at |-> "done", levels |-> c.levels, left |-> {}, total |-> c.total, map |-> read,
                   counted |-> c.counted, profile |-> a]
             D == {"at", "levels", "left", "total", "map", "counted", "profile"}
  <2>1. DOMAIN c = D
    BY CallFields
  <2>2. d = [c EXCEPT !.at = "done", !.map = read, !.left = {}, !.profile = a]
    BY DEF a
  <2>3. DOMAIN d = D /\ d = [x \in D |-> d[x]]
    BY ONLY <2>1, <2>2
  <2>4. DOMAIN h = D /\ h = [x \in D |-> h[x]]
    OBVIOUS
  <2>5. d.at = "done" /\ d.map = read /\ d.left = {} /\ d.profile = a
    BY ONLY <2>1, <2>2
  <2>6. d.total = c.total /\ d.levels = c.levels /\ d.counted = c.counted
    BY ONLY <2>1, <2>2
  <2>7. h.at = "done" /\ h.map = read /\ h.left = {} /\ h.profile = a
    OBVIOUS
  <2>8. h.total = c.total /\ h.levels = c.levels /\ h.counted = c.counted
    OBVIOUS
  <2> HIDE DEF h
  <2>9. \A x \in D : d[x] = h[x]
    BY ONLY <2>5, <2>6, <2>7, <2>8
  <2> HIDE DEF D
  <2> QED
    BY ONLY <2>3, <2>4, <2>9 DEF h
<1>8. read \in UNION {[S -> Nat] : S \in SUBSET Prices}
  <2> DEFINE D == DOMAIN read
  <2>1. D \in SUBSET Prices /\ read \in [D -> Nat]
    BY <1>1
  <2> HIDE DEF D
  <2> QED
    BY ONLY <2>1
<1>9. d \in Calls
  BY ONLY <1>3, <1>6, <1>7, <1>8 DEF Calls
<1>10. d.at = "done" /\ d.profile = a /\ d.map = read /\ d.total = c.total /\ d.counted = c.counted
  BY ONLY <1>7
<1>11. d.total >= d.counted
  BY ONLY <1>2, <1>3, <1>10
<1> QED
  BY <1>6, <1>9, <1>10, <1>11 DEF CallInv

LEMMA StepMapLevel ==
  ASSUME FlowInv, NEW a \in Askers, MapLevel(a)
  PROVE  FlowInv'
<1> DEFINE c == asker[a]
           p == Min(c.left)
           read == [q \in DOMAIN c.map \cup {p} |-> IF q = p THEN level[p].total ELSE c.map[q]]
           l == level
<1>1. Levelled(level)
  BY LevelIs DEF FlowInv
<1>2. c \in Calls /\ c.at = "map" /\ Mapping(c, level)
  BY DEF FlowInv, CallsInv, CallInv, MapLevel
<1>3. Reads(l, c, p, read)
  BY <1>1, <1>2 DEF Reads
<1>4. CASE c.left = {p}
  <2> DEFINE d == [c EXCEPT !.at = "done", !.map = read, !.left = {},
                            !.profile = Profile(read, c.total)]
  <2>1. Advance(a, d)
    BY <1>4 DEF MapLevel
  <2>2. /\ Reads(l, c, p, read) /\ c \in Calls /\ c.left = {p}
        /\ d = [c EXCEPT !.at = "done", !.map = read, !.left = {}, !.profile = Profile(read, c.total)]
    BY <1>2, <1>3, <1>4
  <2> HIDE DEF c, p, read, l, d
  <2>3. d \in Calls /\ CallInv(d, l)
    BY ONLY <2>2, MapEnds
  <2> QED
    BY <2>1, <2>3, CallsChange DEF l
<1>5. CASE c.left # {p}
  <2> DEFINE d == [c EXCEPT !.map = read, !.left = @ \ {p}]
  <2>1. Advance(a, d)
    BY <1>5 DEF MapLevel
  <2>2. /\ Reads(l, c, p, read) /\ c \in Calls /\ c.at = "map" /\ c.left # {p}
        /\ d = [c EXCEPT !.map = read, !.left = @ \ {p}]
    BY <1>2, <1>3, <1>5
  <2> HIDE DEF c, p, read, l, d
  <2>3. d \in Calls /\ CallInv(d, l)
    BY ONLY <2>2, MapGoesOn
  <2> QED
    BY <2>1, <2>3, CallsChange DEF l
<1> QED
  BY <1>4, <1>5

-----------------------------------------------------------------------------

LEMMA FlowSteps ==
  ASSUME FlowInv, [FlowNext]_flowVars
  PROVE  FlowInv'
<1>1. CASE UNCHANGED flowVars
  <2>1. /\ level' = level /\ cvd' = cvd /\ bar' = bar /\ trade' = trade /\ step' = step
        /\ traded' = traded /\ snapshot' = snapshot /\ asker' = asker
        /\ Levels' = Levels /\ Volumes' = Volumes
    BY <1>1 DEF flowVars, Levels, Volumes
  <2>2. LevelsInv' /\ NetInv' /\ SnapshotInv'
    BY <2>1 DEF FlowInv, LevelsInv, NetInv, SnapshotInv
  <2>3. CallsInv'
    BY <2>1 DEF FlowInv, CallsInv
  <2> QED
    BY <2>2, <2>3 DEF FlowInv
<1>2. CASE FlowNext
  <2>1. ASSUME NEW t \in Trades, Ingest(t) PROVE FlowInv'
    BY <2>1, StepIngest
  <2>2. ASSUME NEW a \in Askers, Ask(a) \/ CountLevel(a) \/ SortPrices(a) \/ MapLevel(a)
        PROVE  FlowInv'
    BY <2>2, StepAsk, StepCountLevel, StepSortPrices, StepMapLevel
  <2> QED
    BY <1>2, <2>1, <2>2, StepFindLevel, StepAddSide, StepAddTotal, StepTakeSnapshot DEF FlowNext
<1> QED
  BY <1>1, <1>2

LEMMA FlowPart == Spec => FlowInit /\ [][FlowNext]_flowVars
<1>1. Init => FlowInit
  BY DEF Init
<1>2. [Next]_vars => [FlowNext]_flowVars
  BY DEF Next, vars
<1> QED
  BY <1>1, <1>2, PTL DEF Spec

LEMMA FlowAlways == Spec => []FlowInv
<1>1. FlowInit => FlowInv
  BY InitFlow
<1>2. FlowInv /\ [FlowNext]_flowVars => FlowInv'
  BY FlowSteps
<1> QED
  BY <1>1, <1>2, FlowPart, PTL

(* FlowAddsUp: between trades the running sums are those of the footprint, *)
(* and a volume profile is a value area of the volumes it was made from,   *)
(* also when trades come in while a thread reads them                      *)
(* (microstructure.py, get_microstructure in main.py).                     *)
THEOREM FlowHolds == Spec => []FlowAddsUp
<1>1. FlowInv => FlowAddsUp
  <2> SUFFICES ASSUME FlowInv PROVE SumsAgree /\ ProfileCovers
    BY DEF FlowAddsUp
  <2>1. LevelsInv /\ NetInv /\ SnapshotInv /\ CallsInv
    BY DEF FlowInv
  <2>2. SumsAgree
    <3> SUFFICES ASSUME step = "rest"
                 PROVE  /\ cvd = FlowOf(level, Levels) /\ cvd = bar.buy - bar.sell
                        /\ \A p \in Levels : level[p].total = level[p].buy + level[p].sell
                        /\ snapshot # Nothing => snapshot.cvd = cvd
      BY DEF SumsAgree, FlowOf
    <3>1. bar.buy - bar.sell = FlowOf(level, Levels) /\ bar.buy \in Int /\ bar.sell \in Int
      BY <2>1 DEF NetInv, LevelsInv
    <3>2. cvd = FlowOf(level, Levels) + 0
      BY <2>1 DEF NetInv
    <3>3. \A p \in Levels : level[p] \in LevelRows
      BY <2>1, LevelIs
    <3>4. \A p \in Levels : level[p].total = level[p].buy + level[p].sell
      BY <2>1, <3>3 DEF NetInv, LevelRows
    <3> QED
      BY <2>1, <3>1, <3>2, <3>4 DEF SnapshotInv
  <2>3. ProfileCovers
    <3>1. step = "rest" /\ snapshot # Nothing => IsValueArea(snapshot.profile, Volumes, Sum(Volumes))
      BY <2>1 DEF SnapshotInv
    <3>2. \A a \in Askers : asker[a].profile # Nothing =>
            IsValueArea(asker[a].profile, asker[a].map, asker[a].total)
            /\ asker[a].total >= asker[a].counted
      BY <2>1 DEF CallsInv, CallInv
    <3> QED
      BY <3>1, <3>2 DEF ProfileCovers
  <2> QED
    BY <2>2, <2>3
<1> QED
  BY <1>1, FlowAlways, PTL

LEMMA FlowTyped == FlowInv => FlowTypeOK
<1> SUFFICES ASSUME FlowInv PROVE FlowTypeOK
  OBVIOUS
<1>1. ASSUME NEW a \in Askers PROVE asker[a].at \in {"begin", "sum", "prices", "map", "done", "raised"}
  <2>1. asker[a] \in Calls
    BY DEF FlowInv, CallsInv
  <2> QED
    BY <2>1 DEF Calls
<1> QED
  BY <1>1 DEF FlowInv, LevelsInv, FlowTypeOK

-----------------------------------------------------------------------------
(* All of it.                                                              *)

LEMMA PortfolioTyped == PortfolioInv => PortfolioTypeOK
<1> SUFFICES ASSUME PortfolioInv PROVE PortfolioTypeOK
  OBVIOUS
<1>1. \A s \in Symbols : position[s] # None => s \in KnownIn(position) /\ FlatAtZero(position[s])
  BY DEF PortfolioInv, RowsInv, KnownIn
<1>2. position \in [Symbols -> Rows \cup {None}] /\ marked \subseteq Symbols
  BY DEF PortfolioInv, RowsInv, MarksInv, Positions, KnownIn
<1> QED
  BY <1>1, <1>2 DEF PortfolioInv, BooksInv, ReadersInv, PortfolioTypeOK, FlatAtZero

(* TypeOK: whatever part is looked at.                                     *)
THEOREM TypesHold == Spec => []TypeOK
<1>1. Spec => [](part \in Parts)
  <2>1. Init => part \in Parts
    BY DEF Init
  <2>2. part \in Parts /\ [Next]_vars => (part \in Parts)'
    BY DEF Next, vars
  <2> QED
    BY <2>1, <2>2, PTL DEF Spec
<1>2. AuditTypeOK /\ RawInv /\ PortfolioInv /\ FlowInv /\ part \in Parts => TypeOK
  BY RawFileIs, PortfolioTyped, FlowTyped DEF TypeOK
<1> QED
  BY <1>1, <1>2, AuditTyped, RawAlways, PortfolioAlways, FlowAlways, PTL
=============================================================================
