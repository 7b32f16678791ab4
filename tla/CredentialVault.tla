-------------------------- MODULE CredentialVault --------------------------
(***************************************************************************)
(* CredentialVault: three files (salt, master key, encrypted data) and the *)
(* singleton that reads and rewrites them, on Windows, where DPAPI refuses *)
(* a master key that is not whole.                                         *)
(*                                                                         *)
(* A file is rewritten in place: truncated, then filled.  Random bytes are *)
(* named after the thread that drew them, the plaintext is the set of      *)
(* exchanges with an entry, and what is encrypted names the salt and key   *)
(* it was encrypted under.  Salt and key are read together with the data   *)
(* they open; they change only while the vault is being built.             *)
(***************************************************************************)
EXTENDS Requests

CONSTANT Exchanges

Encrypted == [holds : SUBSET Exchanges, under : (Threads \cup {Torn}) \X Threads]

ASSUME ExchangesAssumption ==
  /\ \A entries \in SUBSET Exchanges : entries # None
  /\ Absent \notin Encrypted

VARIABLES
  salt, key,   \* the two files of root entropy
  data,        \* credentials.enc
  vault,       \* _VAULT_INSTANCE: the thread that built it, or None
  sick,        \* the instances whose _vault_error_state is set
  expected     \* history: the exchanges that calls stored and did not remove

vaultVars == <<salt, key, data, vault, sick, expected>>

RootKey == <<salt, key>>
Opens(file) == file \in Encrypted /\ file.under = RootKey

VaultTypeOK ==
  /\ salt \in {Absent, Torn} \cup Threads /\ key \in {Absent, Torn} \cup Threads
  /\ data \in {Absent, Torn} \cup Encrypted
  /\ vault \in Threads \cup {None} /\ sick \subseteq Threads
  /\ expected \subseteq Exchanges

VaultInit ==
  /\ salt = Absent /\ key = Absent /\ data = Absent
  /\ vault = None /\ sick = {} /\ expected = {}

VaultCall(t) ==
  /\ \E op \in {"store", "remove", "status"} : Begin(t, op, None, "vault")
  /\ UNCHANGED vaultVars

-----------------------------------------------------------------------------
(* get_credential_vault and _ensure_root_entropy.                          *)

Reads(t) == IF Runs(t, "certify") THEN "health" ELSE "load"

GetVault(t) ==
  /\ At(t, "vault")
  /\ IF vault = None THEN Goto(t, "salt") ELSE Assign(t, [self |-> vault], Reads(t))
  /\ UNCHANGED vaultVars

LookForSalt(t) ==
  /\ At(t, "salt")
  /\ Goto(t, IF salt = Absent THEN "open_salt" ELSE "key")
  /\ UNCHANGED vaultVars

OpenSalt(t) ==
  /\ At(t, "open_salt") /\ salt' = Torn /\ Goto(t, "write_salt")
  /\ UNCHANGED <<key, data, vault, sick, expected>>

WriteSalt(t) ==
  /\ At(t, "write_salt") /\ salt' = t /\ Goto(t, "key")
  /\ UNCHANGED <<key, data, vault, sick, expected>>

(* Slip: the key is renewed with every instance. *)
RenewKey(t) == At(t, "key") /\ Goto(t, "open_key") /\ UNCHANGED vaultVars

LookForKey(t) ==
  /\ At(t, "key")
  /\ Goto(t, IF key = Absent THEN "open_key" ELSE "install")
  /\ UNCHANGED vaultVars

OpenKey(t) ==
  /\ At(t, "open_key") /\ key' = Torn /\ Goto(t, "write_key")
  /\ UNCHANGED <<salt, data, vault, sick, expected>>

WriteKey(t) ==
  /\ At(t, "write_key") /\ key' = t /\ Goto(t, "install")
  /\ UNCHANGED <<salt, data, vault, sick, expected>>

InstallVault(t) ==
  /\ At(t, "install") /\ vault' = t /\ Assign(t, [self |-> t], Reads(t))
  /\ UNCHANGED <<salt, key, data, sick, expected>>

-----------------------------------------------------------------------------
(* _load_all.                                                              *)

(* Slip: what cannot be opened counts as empty. *)
OpenedOrEmpty(file) == IF Opens(file) THEN file.holds ELSE {}

(* The entries of the file, or None: the call raises.                      *)
Loaded(file) == IF file = Absent THEN {} ELSE IF Opens(file) THEN file.holds ELSE None

(* What a call may come to: reading a file that is there, its salt or its  *)
(* key can fail whatever it holds.                                         *)
Readings == {Loaded(data)} \cup IF data = Absent THEN {} ELSE {None}

(* Any exception sets the error state of the instance, which nothing       *)
(* resets: also when the file opens the next time.                         *)
Load(t) ==
  /\ At(t, "load")
  /\ \E entries \in Readings :
       IF entries = None THEN sick' = sick \cup {Local(t, "self")} /\ Return(t)
       ELSE Assign(t, [entries |-> entries], call[t].op) /\ UNCHANGED sick
  /\ UNCHANGED <<salt, key, data, vault, expected>>

-----------------------------------------------------------------------------
(* The calls, once the entries are loaded.                                 *)

(* get_credentials, get_status, list_all_status *)
AnswerStatus(t) == At(t, "status") /\ Return(t) /\ UNCHANGED vaultVars

(* _encrypt, for which salt and key must be read and DPAPI must give the   *)
(* master key; the change is to the entry of exchange e.                   *)
Encrypt(t, entries, e) ==
  /\ \/ Return(t) /\ UNCHANGED sick
     \/ key = Torn /\ sick' = sick \cup {Local(t, "self")} /\ Return(t)
     \/ /\ key # Torn
        /\ Assign(t, [payload |-> [holds |-> entries, under |-> RootKey], exchange |-> e],
                  "open_data")
        /\ UNCHANGED sick
  /\ UNCHANGED <<salt, key, data, vault, expected>>

StoreEntry(t) ==
  /\ At(t, "store")
  /\ \E e \in Exchanges : Encrypt(t, Local(t, "entries") \cup {e}, e)

RemoveEntry(t) ==
  /\ At(t, "remove")
  /\ \E e \in Exchanges :
       IF e \in Local(t, "entries") THEN Encrypt(t, Local(t, "entries") \ {e}, e)
       ELSE Return(t) /\ UNCHANGED vaultVars

OpenData(t) ==
  /\ At(t, "open_data") /\ data' = Torn /\ Goto(t, "write_data")
  /\ UNCHANGED <<salt, key, vault, sick, expected>>

(* Over what another thread wrote since this one opened the file, a        *)
(* shorter text leaves the end of the longer one.                          *)
WriteData(t) ==
  /\ At(t, "write_data")
  /\ data' \in {Local(t, "payload")} \cup IF data = Torn THEN {} ELSE {Torn}
  /\ expected' = IF Runs(t, "store") THEN expected \cup {Local(t, "exchange")}
                 ELSE expected \ {Local(t, "exchange")}
  /\ Return(t)
  /\ UNCHANGED <<salt, key, vault, sick>>

(* The disk is full: the file stays truncated. *)
VaultWriteFails(t) ==
  /\ At(t, "write_salt") \/ At(t, "write_key") \/ At(t, "write_data")
  /\ Break(t, "vault")
  /\ UNCHANGED vaultVars

VaultStep(t) ==
  \/ VaultCall(t) \/ GetVault(t) \/ LookForSalt(t) \/ OpenSalt(t) \/ WriteSalt(t)
  \/ LookForKey(t) \/ OpenKey(t) \/ WriteKey(t) \/ InstallVault(t)
  \/ Load(t) \/ AnswerStatus(t) \/ StoreEntry(t) \/ RemoveEntry(t)
  \/ OpenData(t) \/ WriteData(t) \/ VaultWriteFails(t)

WritesVault(t) == At(t, "write_salt") \/ At(t, "write_key") \/ At(t, "write_data")

VaultForgotten == vault' = None /\ sick' = {} /\ UNCHANGED <<salt, key, data, expected>>

-----------------------------------------------------------------------------
(* As long as the vault's calls come one after another and no write is cut *)
(* short, the file opens and holds exactly what was stored, after any      *)
(* restart and any failed reads.  (An instance whose read failed once      *)
(* still says VAULT_ERROR of that file.)                                   *)
VaultKeeps ==
  Undisturbed("vault") /\ (\A t \in Threads : ~WritesVault(t)) =>
    IF data = Absent THEN expected = {} ELSE Opens(data) /\ data.holds = expected

Broken == data # Absent /\ ~Opens(data) /\ \A t \in Threads : ~At(t, "write_data")

(* A file that does not open is never opened for writing by a call that    *)
(* came alone: what is left of the credentials is not replaced by an empty *)
(* vault.                                                                  *)
VaultFailsClosed ==
  [][Broken /\ "vault" \notin overlapped' =>
       data' = data /\ \A t \in Threads : call'[t].at # "write_data"]_<<requestVars, vaultVars>>
=============================================================================
