----------------------------- MODULE HashChain -----------------------------
(***************************************************************************)
(* The hash chain of the audit table (AuditEngine) and of the raw message  *)
(* files (TamperEvidentRawWriter): numbered rows, each with the hash of    *)
(* the row before it.                                                      *)
(*                                                                         *)
(* A content stands for everything that is hashed (timestamp, signature,   *)
(* details, payload); a hash is the pair of what was hashed, so two hashes *)
(* are equal only if their inputs are.                                     *)
(***************************************************************************)
EXTENDS Naturals, Sequences, SequencesExt

Genesis == <<>>
Hash(prev, content) == <<prev, content>>

Row(n, prev, c) == [num |-> n, prev |-> prev, content |-> c, hash |-> Hash(prev, c)]

(* What the chain expects before row i. *)
Before(t, i) == IF i = 1 THEN Genesis ELSE t[i - 1].hash

HeadHash(t) == Before(t, Len(t) + 1)

-----------------------------------------------------------------------------
(* verify_audit_chain_integrity and verify_tamper_chain.                   *)

(* Slip: the numbers are not looked at, and a row is measured by the       *)
(* previous hash it names itself.                                          *)
HoldsByItself(t, i) == t[i].hash = Hash(t[i].prev, t[i].content)

(* Slip: only the links are followed. *)
HoldsByLinks(t, i) == t[i].prev = Before(t, i) /\ t[i].num = i

Holds(t, i) ==
  /\ t[i].num = i
  /\ t[i].prev = Before(t, i)
  /\ t[i].hash = Hash(Before(t, i), t[i].content)

Verifies(t) == \A i \in 1..Len(t) : Holds(t, i)
=============================================================================
