--------------------------- MODULE OperatorToken ---------------------------
(***************************************************************************)
(* OperatorAuthManager: the operator's session token, in memory and in     *)
(* data/vault/operator.token.  get_or_create_token runs in the endpoint    *)
(* that hands the token to the frontend and in the check of every request  *)
(* that needs it.  A token is the number of its generation.                *)
(***************************************************************************)
EXTENDS Requests

VARIABLES
  token,      \* OperatorAuthManager._token: None, Torn or a token
  tokenFile,  \* Absent, Torn or a token
  generated,  \* number of tokens generated
  given       \* history: the tokens callers were given

tokenVars == <<token, tokenFile, generated, given>>

TokenTypeOK ==
  /\ generated \in 0..MaxCalls
  /\ token \in {None, Torn} \cup 1..generated
  /\ tokenFile \in {Absent, Torn} \cup 1..generated
  /\ given \subseteq {None, Torn} \cup 1..generated

TokenInit == token = None /\ tokenFile = Absent /\ generated = 0 /\ given = {}

GetToken(t) == Begin(t, "token", None, "token") /\ UNCHANGED tokenVars

(* if cls._token: return cls._token; what is returned is read again. *)
LookInMemory(t) ==
  /\ At(t, "token")
  /\ Goto(t, IF token = None THEN "token_file" ELSE "answer_token")
  /\ UNCHANGED tokenVars

(* Slip: the length of what was read is not looked at. *)
LookInFileOfAnyLength(t) ==
  /\ At(t, "token_file")
  /\ IF tokenFile = Absent THEN token' = token /\ Goto(t, "generate")
     ELSE token' = tokenFile /\ Goto(t, "answer_token")
  /\ UNCHANGED <<tokenFile, generated, given>>

(* What is read becomes the token before its length is looked at; a torn   *)
(* file is empty, which counts as no token, or too short.                  *)
LookInFile(t) ==
  /\ At(t, "token_file")
  /\ \/ tokenFile = Absent /\ token' = token /\ Goto(t, "generate")
     \/ tokenFile = Torn /\ token' \in {None, Torn} /\ Goto(t, "generate")
     \/ tokenFile \notin {Absent, Torn} /\ token' = tokenFile /\ Goto(t, "answer_token")
  /\ UNCHANGED <<tokenFile, generated, given>>

(* The read raises, and the exception is swallowed: a token that the file  *)
(* holds whole is about to be replaced as if there were none.              *)
TokenUnread(t) ==
  /\ At(t, "token_file") /\ tokenFile # Absent
  /\ Spoil(t, "token_read", "generate")
  /\ UNCHANGED tokenVars

Generate(t) ==
  /\ At(t, "generate")
  /\ generated' = generated + 1 /\ token' = generated'
  /\ Assign(t, [text |-> generated'], "open_token")
  /\ UNCHANGED <<tokenFile, given>>

OpenTokenFile(t) ==
  /\ At(t, "open_token")
  /\ tokenFile' = Torn /\ Goto(t, "write_token")
  /\ UNCHANGED <<token, generated, given>>

(* Slip: what is written is what the token is by now. *)
WriteLatestToken(t) ==
  /\ At(t, "write_token")
  /\ tokenFile' = token /\ Goto(t, "answer_token")
  /\ UNCHANGED <<token, generated, given>>

WriteTokenFile(t) ==
  /\ At(t, "write_token")
  /\ tokenFile' = Local(t, "text") /\ Goto(t, "answer_token")
  /\ UNCHANGED <<token, generated, given>>

(* The file cannot be opened or written; that is logged, and the token     *)
(* given all the same.                                                     *)
TokenNotSaved(t) ==
  /\ At(t, "open_token") \/ At(t, "write_token")
  /\ Spoil(t, "token", "answer_token")
  /\ UNCHANGED tokenVars

(* return cls._token: the one in memory now. *)
AnswerToken(t) ==
  /\ At(t, "answer_token")
  /\ given' = given \cup {token} /\ Return(t)
  /\ UNCHANGED <<token, tokenFile, generated>>

TokenStep(t) ==
  \/ GetToken(t) \/ LookInMemory(t) \/ LookInFile(t) \/ TokenUnread(t) \/ Generate(t)
  \/ OpenTokenFile(t) \/ WriteTokenFile(t) \/ TokenNotSaved(t) \/ AnswerToken(t)

TokenForgotten == token' = None /\ UNCHANGED <<tokenFile, generated, given>>

-----------------------------------------------------------------------------
(* As long as the calls come one after another and the file can be         *)
(* written, memory and file agree on the token, also after the process     *)
(* died anywhere.  If no read of the file has failed either, every caller  *)
(* was given that same whole token: the frontend's token stays valid.  The *)
(* condition is needed: one read that raises, and a fresh token replaces   *)
(* the whole one in the file (credentials.py:46-55).                       *)
TokenLasts ==
  Undisturbed("token") =>
    /\ "token_read" \notin cut => given \subseteq {tokenFile} \ {Torn}
    /\ Quiet("token") => token \in {None, tokenFile}
=============================================================================
