------------------------------ MODULE RawChain ------------------------------
(***************************************************************************)
(* TamperEvidentRawWriter and verify_tamper_chain: the JSONL file of raw   *)
(* messages.                                                               *)
(*                                                                         *)
(* The bytes of a line are two halves and a newline, so that a write can   *)
(* stop in the middle of a record and just before its newline.  What a     *)
(* flush could not write stays in the handle and goes out with the next    *)
(* one, or is lost with the process.                                       *)
(***************************************************************************)
EXTENDS HashChain

CONSTANTS
  Messages,    \* what the venue sends (with its time of receipt)
  Malformed,   \* a line that json.loads refuses
  MaxMessages, \* number of appends (a bound of the model)
  MaxAccidents, \* number of failed appends and deaths (a bound of the model)
  MaxChanges   \* number of changes to the closed file (a bound of the model)

ASSUME RawAssumption == MaxMessages \in Nat /\ MaxAccidents \in Nat /\ MaxChanges \in Nat

VARIABLES
  text,        \* the file
  pending,     \* what the handle holds and the file does not
  writer,      \* sequence_num and current_hash of the writer, or NoWriter
  handed,      \* history: every record handed to the handle
  returned,    \* history: those whose append returned
  rawFailed,   \* history: an append raised
  torn,        \* history: a writer died with part of its text not in the file
  accidents,   \* history: number of appends that raised and of deaths
  changes      \* history: number of changes from outside

rawVars == <<text, pending, writer, handed, returned, rawFailed, torn, accidents, changes>>

NoWriter == [num |-> -1, hash |-> Genesis]

Line(r) == <<<<r, "head">>, <<r, "tail">>, <<r, "newline">>>>

(* The non-blank lines of a file, and what json.loads makes of each.       *)
Split(lines, c) ==
  IF c[2] # "newline" THEN [lines EXCEPT !.open = Append(@, c)]
  ELSE IF lines.open = <<>> THEN lines
  ELSE [whole |-> Append(lines.whole, lines.open), open |-> <<>>]

SplitUp(t) == FoldLeft(Split, [whole |-> <<>>, open |-> <<>>], t)

Lines(t) ==
  IF SplitUp(t).open = <<>> THEN SplitUp(t).whole ELSE Append(SplitUp(t).whole, SplitUp(t).open)

Parsed(line) ==
  LET r == Head(line)[1] IN IF line = Front(Line(r)) THEN r ELSE Malformed

Records(t) == [i \in 1..Len(Lines(t)) |-> Parsed(Lines(t)[i])]
Readable(t) == Malformed \notin Range(Records(t))

(* verify_tamper_chain. *)
RawVerifies(t) == Readable(t) /\ Verifies(Records(t))

RawTypeOK ==
  /\ writer = NoWriter \/ writer.num \in 0..MaxMessages
  /\ writer = NoWriter => pending = <<>>
  /\ returned \subseteq handed /\ \A r \in handed : r.num \in 1..MaxMessages
  /\ rawFailed \in BOOLEAN /\ torn \in BOOLEAN
  /\ accidents \in 0..MaxAccidents /\ changes \in 0..MaxChanges

RawInit ==
  /\ text = <<>> /\ pending = <<>> /\ writer = NoWriter
  /\ handed = {} /\ returned = {} /\ rawFailed = FALSE /\ torn = FALSE
  /\ accidents = 0 /\ changes = 0

-----------------------------------------------------------------------------
(* Slip: the number is taken from the file and the hash is not. *)
ResumeNumber ==
  /\ writer = NoWriter /\ Readable(text)
  /\ writer' = [num |-> Len(Records(text)), hash |-> Genesis]
  /\ UNCHANGED <<text, pending, handed, returned, rawFailed, torn, accidents, changes>>

(* __init__ and _init_or_resume: a line that does not parse raises.        *)
Resume ==
  /\ writer = NoWriter /\ Readable(text)
  /\ writer' = [num |-> IF Records(text) = <<>> THEN 0 ELSE Last(Records(text)).num,
                hash |-> HeadHash(Records(text))]
  /\ UNCHANGED <<text, pending, handed, returned, rawFailed, torn, accidents, changes>>

NextRecord(m) == Row(writer.num + 1, writer.hash, m)
Room == writer # NoWriter /\ writer.num < MaxMessages

(* Slip: the line is left to the next flush. *)
AppendUnflushed(m) ==
  /\ Room
  /\ LET r == NextRecord(m)
     IN  /\ pending' = pending \o Line(r)
         /\ writer' = [num |-> r.num, hash |-> r.hash]
         /\ handed' = handed \cup {r} /\ returned' = returned \cup {r}
  /\ UNCHANGED <<text, rawFailed, torn, accidents, changes>>

(* append_raw_message. *)
AppendMessage(m) ==
  /\ Room
  /\ LET r == NextRecord(m)
     IN  /\ text' = text \o pending \o Line(r) /\ pending' = <<>>
         /\ writer' = [num |-> r.num, hash |-> r.hash]
         /\ handed' = handed \cup {r} /\ returned' = returned \cup {r}
  /\ UNCHANGED <<rawFailed, torn, accidents, changes>>

Accident == accidents < MaxAccidents /\ accidents' = accidents + 1

(* The flush raises after the first k bytes: the number is used up, the    *)
(* hash is not.                                                            *)
AppendFails(m) ==
  /\ Room
  /\ LET r == NextRecord(m)
         bytes == pending \o Line(r)
     IN  /\ \E k \in 0..(Len(bytes) - 1) :
              /\ text' = text \o SubSeq(bytes, 1, k)
              /\ pending' = SubSeq(bytes, k + 1, Len(bytes))
         /\ writer' = [writer EXCEPT !.num = r.num]
         /\ handed' = handed \cup {r}
  /\ rawFailed' = TRUE
  /\ Accident
  /\ UNCHANGED <<returned, torn, changes>>

Close ==
  /\ writer # NoWriter /\ writer' = NoWriter
  /\ text' = text \o pending /\ pending' = <<>>
  /\ UNCHANGED <<handed, returned, rawFailed, torn, accidents, changes>>

(* The handle is gone with its first k bytes written. *)
Cut(bytes) ==
  /\ writer # NoWriter /\ writer' = NoWriter /\ pending' = <<>>
  /\ \E k \in 0..Len(bytes) :
       text' = text \o SubSeq(bytes, 1, k) /\ torn' = (torn \/ k < Len(bytes))
  /\ Accident
  /\ UNCHANGED <<returned, rawFailed, changes>>

(* The process dies, in an append or not; a close that fails does the same.*)
Die ==
  \/ Cut(pending) /\ UNCHANGED handed
  \/ /\ Room
     /\ \E m \in Messages : /\ Cut(pending \o Line(NextRecord(m)))
                           /\ handed' = handed \cup {NextRecord(m)}

-----------------------------------------------------------------------------
AddLine(t, r) == t \o Line(r)

(* Somebody changes the closed file: a payload, a line left out, two lines *)
(* exchanged.                                                              *)
Rewrite(records) ==
  /\ writer = NoWriter /\ Readable(text) /\ changes < MaxChanges
  /\ text' = FoldLeft(AddLine, <<>>, records)
  /\ changes' = changes + 1
  /\ UNCHANGED <<pending, writer, handed, returned, rawFailed, torn, accidents>>

Tamper ==
  \E i \in 1..Len(Records(text)) :
    \/ \E m \in Messages : Rewrite([Records(text) EXCEPT ![i].content = m])
    \/ Rewrite(RemoveAt(Records(text), i))
    \/ i > 1 /\ Rewrite([Records(text) EXCEPT ![i] = Records(text)[i - 1],
                                             ![i - 1] = Records(text)[i]])

RawNext ==
  \/ Resume \/ Close \/ Die \/ Tamper
  \/ \E m \in Messages : AppendMessage(m) \/ AppendFails(m)

-----------------------------------------------------------------------------
(* A file that nobody changed and no append failed on verifies, as long as *)
(* it can be read: a death alone, and resuming after it, never looks like  *)
(* tampering.                                                              *)
DeathIsNotTampering ==
  changes = 0 /\ ~rawFailed /\ Readable(text) => Verifies(Records(text))

(* What append_raw_message returned is in the file, also after appends     *)
(* that failed halfway, unless a death tore a line.                        *)
ReturnedIsKept == changes = 0 /\ ~torn => returned \subseteq Range(Records(text))

(* In a file that verifies every record is as it was written. *)
ChangeIsSeen == RawVerifies(text) => Range(Records(text)) \subseteq handed

(* The three of them: what a raw message file is worth as evidence. *)
RawFileKept == DeathIsNotTampering /\ ReturnedIsKept /\ ChangeIsSeen
=============================================================================
