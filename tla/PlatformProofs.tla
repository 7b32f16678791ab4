--------------------------- MODULE PlatformProofs ---------------------------
(***************************************************************************)
(* Proofs about Platform, for any number of threads, calls, failures and   *)
(* deaths.                                                                 *)
(***************************************************************************)
EXTENDS Platform, FiniteSetTheorems, TLAPS

(* A call in full; its local variables may be any. *)
CallShape ==
  /\ call = [t \in Threads |-> call[t]]
  /\ \A t \in Threads : call[t] = [op |-> call[t].op, arg |-> call[t].arg,
                                   at |-> call[t].at, local |-> call[t].local]

(* The statements a call comes to. *)
VaultBuild == {"vault", "salt", "open_salt", "write_salt", "key", "open_key", "write_key", "install"}
RegistryBuild == {"registry", "register", "insert_strategy", "insert_version", "install_registry"}

Labels ==
  [store    |-> VaultBuild \cup {"load", "store", "open_data", "write_data"},
   remove   |-> VaultBuild \cup {"load", "remove", "open_data", "write_data"},
   status   |-> VaultBuild \cup {"load", "status"},
   token    |-> {"token", "token_file", "generate", "open_token", "write_token", "answer_token"},
   consult  |-> RegistryBuild \cup {"consult"},
   freeze   |-> RegistryBuild \cup {"freeze", "freeze_version"},
   register |-> {"parquet", "insert_dataset", "manifest"},
   seal     |-> {"seal"},
   research |-> RegistryBuild \cup {"research", "dataset", "load_dataset", "violation", "read"},
   certify  |-> VaultBuild \cup RegistryBuild
                  \cup {"health", "data", "certify", "coinbase", "alpaca", "save"}]
Operations == DOMAIN Uses

Placed(c) == c.at = "idle" \/ (c.op \in Operations /\ c.at \in Labels[c.op])

(* Unless two calls used a part at once, one call at a time does. *)
Alone ==
  \A part \in {"token", "vault", "strategies", "datasets", "reports"} :
    part \notin overlapped =>
      \A t, u \in Busy : part \in Uses[call[t].op] /\ part \in Uses[call[u].op] => t = u

CallInv == CallShape /\ (\A t \in Threads : Placed(call[t])) /\ Alone

-----------------------------------------------------------------------------
(* How a call gets on: thread t stands at `from' and goes to one of `to',  *)
(* or the call is over; the other calls stay where they are.               *)
GoesOn(t, from, to) ==
  /\ call[t].at = from
  /\ call' = [u \in Threads |-> call'[u]]
  /\ \A u \in Threads \ {t} : call'[u] = call[u]
  /\ \/ call'[t] = Idle
     \/ /\ call'[t].op = call[t].op /\ call'[t].at \in to
        /\ call'[t] = [op |-> call'[t].op, arg |-> call'[t].arg,
                       at |-> call'[t].at, local |-> call'[t].local]
  /\ overlapped' = overlapped /\ cut \subseteq cut'

LEMMA GotoGoesOn ==
  ASSUME CallShape, NEW t \in Threads, NEW from, At(t, from), NEW to, Goto(t, to)
  PROVE  GoesOn(t, from, {to}) /\ call'[t].local = call[t].local /\ call'[t].at = to /\ cut' = cut
BY DEF CallShape, At, Goto, GoesOn

LEMMA AssignGoesOn ==
  ASSUME CallShape, NEW t \in Threads, NEW from, At(t, from), NEW to, NEW values,
         Assign(t, values, to)
  PROVE  /\ GoesOn(t, from, {to}) /\ call'[t].local = Updated(call[t].local, values)
         /\ call'[t].at = to /\ cut' = cut
BY DEF CallShape, At, Assign, GoesOn

LEMMA EnterGoesOn ==
  ASSUME CallShape, NEW t \in Threads, NEW from, At(t, from), NEW to, NEW values,
         Enter(t, values, to)
  PROVE  GoesOn(t, from, {to})
BY DEF CallShape, At, Enter, GoesOn

LEMMA ReturnGoesOn ==
  ASSUME CallShape, NEW t \in Threads, NEW from, At(t, from), Return(t)
  PROVE  GoesOn(t, from, {}) /\ call'[t] = Idle /\ cut' = cut
BY DEF CallShape, At, Return, GoesOn, Idle

LEMMA BreakGoesOn ==
  ASSUME CallShape, NEW t \in Threads, NEW from, At(t, from), NEW part, Break(t, part)
  PROVE  GoesOn(t, from, {}) /\ call'[t] = Idle /\ cut' = cut \cup {part}
BY DEF CallShape, At, Break, GoesOn, Idle

LEMMA SpoilGoesOn ==
  ASSUME CallShape, NEW t \in Threads, NEW from, At(t, from), NEW part, NEW to, Spoil(t, part, to)
  PROVE  GoesOn(t, from, {to})
BY DEF CallShape, At, Spoil, GoesOn

(* What a step leaves of the calls: thread t stands at `to' with the local *)
(* variables `local', and the other calls are where they were.             *)
Moves(t, to, local) ==
  /\ call'[t] = [op |-> call[t].op, arg |-> call[t].arg, at |-> to, local |-> local]
  /\ call'[t].op = call[t].op /\ call'[t].arg = call[t].arg
  /\ call'[t].at = to /\ call'[t].local = local
  /\ \A u \in Threads \ {t} : call'[u] = call[u]
  /\ made' = made /\ overlapped' = overlapped

LEMMA GotoMoves ==
  ASSUME CallShape, NEW t \in Threads, NEW to, Goto(t, to)
  PROVE  Moves(t, to, call[t].local) /\ cut' = cut
BY DEF CallShape, Goto, Moves

LEMMA AssignMoves ==
  ASSUME CallShape, NEW t \in Threads, NEW values, NEW to, Assign(t, values, to)
  PROVE  Moves(t, to, Updated(call[t].local, values)) /\ cut' = cut
BY DEF CallShape, Assign, Moves

LEMMA EnterMoves ==
  ASSUME CallShape, NEW t \in Threads, NEW values, NEW to, Enter(t, values, to)
  PROVE  Moves(t, to, values) /\ cut' = cut
BY DEF CallShape, Enter, Moves

LEMMA SpoilMoves ==
  ASSUME CallShape, NEW t \in Threads, NEW part, NEW to, Spoil(t, part, to)
  PROVE  Moves(t, to, call[t].local) /\ cut' = cut \cup {part}
BY DEF CallShape, Spoil, Moves

(* The call is over. *)
Ends(t) ==
  /\ call'[t] = Idle /\ call'[t].at = "idle"
  /\ \A u \in Threads \ {t} : call'[u] = call[u]
  /\ made' = made /\ overlapped' = overlapped

LEMMA ReturnEnds ==
  ASSUME CallShape, NEW t \in Threads, Return(t)
  PROVE  Ends(t) /\ cut' = cut
BY DEF CallShape, Return, Ends, Idle

LEMMA BreakEnds ==
  ASSUME CallShape, NEW t \in Threads, NEW part, Break(t, part)
  PROVE  Ends(t) /\ cut' = cut \cup {part}
BY DEF CallShape, Break, Ends, Idle

(* What an assignment sets, and what it leaves. *)
Has(c, name) == name \in DOMAIN c.local

LEMMA UpdatedAt ==
  ASSUME NEW local, NEW values, NEW name
  PROVE  /\ name \in DOMAIN values =>
              name \in DOMAIN Updated(local, values) /\ Updated(local, values)[name] = values[name]
         /\ name \in DOMAIN local /\ name \notin DOMAIN values =>
              name \in DOMAIN Updated(local, values) /\ Updated(local, values)[name] = local[name]
BY DEF Updated

LEMMA IdlePlaced == Placed(Idle)
<1>1. Idle.at = "idle"
  BY DEF Idle
<1> QED
  BY <1>1 DEF Placed

(* A statement of its own operation keeps the calls in order. *)
LEMMA GoesOnKeeps ==
  ASSUME CallInv, NEW t \in Threads, call[t].at # "idle",
         GoesOn(t, call[t].at, Labels[call[t].op])
  PROVE  CallInv'
<1> USE DEF CallInv, GoesOn
<1>1. CallShape'
  BY DEF CallShape, Idle
<1>2. \A u \in Threads : Placed(call'[u])
  <2>1. Placed(Idle)
    BY IdlePlaced
  <2>2. call'[t] # Idle => Placed(call'[t])
    BY DEF Placed
  <2>3. \A u \in Threads \ {t} : Placed(call'[u])
    OBVIOUS
  <2> QED
    BY <2>1, <2>2, <2>3
<1>3. Alone'
  <2>1. \A u \in Threads : call'[u] # Idle => call[u] # Idle /\ call'[u].op = call[u].op
    BY DEF Idle
  <2> QED
    BY <2>1 DEF Alone, Busy
<1> QED
  BY <1>1, <1>2, <1>3 DEF Placed

(* A call that begins is alone, or recorded as having met another. *)
LEMMA BeginKeeps ==
  ASSUME CallInv, NEW t \in Threads, NEW op \in Operations, NEW arg, NEW label \in Labels[op],
         Begin(t, op, arg, label)
  PROVE  /\ CallInv'
         /\ call[t] = Idle /\ \A u \in Threads \ {t} : call'[u] = call[u]
         /\ call'[t] = [op |-> op, arg |-> arg, at |-> label, local |-> NoLocals]
         /\ overlapped \subseteq overlapped' /\ cut' = cut
<1>1. /\ call[t] = Idle /\ \A u \in Threads \ {t} : call'[u] = call[u]
      /\ call'[t] = [op |-> op, arg |-> arg, at |-> label, local |-> NoLocals]
      /\ overlapped' = overlapped \cup (Uses[op] \cap UNION {Uses[call[u].op] : u \in Busy})
      /\ cut' = cut /\ t \notin Busy
  BY DEF Begin, CallInv, CallShape, Busy
<1>2. CallShape'
  BY <1>1 DEF Begin, CallInv, CallShape
<1>3. \A u \in Threads : Placed(call'[u])
  BY <1>1 DEF Placed, CallInv
<1>4. Alone'
  <2> SUFFICES ASSUME NEW part \in {"token", "vault", "strategies", "datasets", "reports"},
                      part \notin overlapped',
                      NEW u \in Threads, NEW v \in Threads, call'[u] # Idle, call'[v] # Idle,
                      part \in Uses[call'[u].op], part \in Uses[call'[v].op]
               PROVE  u = v
    BY DEF Alone, Busy
  <2>1. part \notin overlapped
    BY <1>1
  <2>2. part \in Uses[op] => \A w \in Busy : part \notin Uses[call[w].op]
    BY <1>1
  <2>3. CASE u # t /\ v # t
    BY <1>1, <2>1, <2>3 DEF CallInv, Alone, Busy
  <2>4. CASE u = t /\ v # t
    BY <1>1, <2>2, <2>4 DEF Busy
  <2>5. CASE u # t /\ v = t
    BY <1>1, <2>2, <2>5 DEF Busy
  <2> QED
    BY <2>3, <2>4, <2>5
<1> QED
  BY <1>1, <1>2, <1>3, <1>4 DEF CallInv

-----------------------------------------------------------------------------
(* Which operation stands at which statement. *)
TokenLabels == Labels["token"]
DatasetLabels == {"parquet", "insert_dataset", "manifest", "seal",
                  "research", "dataset", "load_dataset", "violation", "read"}
VaultLabels == VaultBuild \cup {"load", "store", "remove", "status", "open_data", "write_data"}
CertificationLabels == {"health", "data", "certify", "coinbase", "alpaca", "save"}
StrategyLabels == RegistryBuild \cup {"consult", "freeze", "freeze_version"}

LEMMA OperationsAre ==
  Operations = {"store", "remove", "status", "token", "consult", "freeze",
                "register", "seal", "research", "certify"}
BY DEF Operations, Uses

LEMMA Placement ==
  ASSUME NEW c, c.at # "idle", Placed(c)
  PROVE  /\ c.at \in TokenLabels => c.op = "token"
         /\ c.at \in VaultLabels => c.op \in {"store", "remove", "status", "certify"}
         /\ c.at = "load" => c.op \in {"store", "remove", "status"}
         /\ c.at \in {"open_data", "write_data"} => c.op \in {"store", "remove"}
         /\ c.at \in StrategyLabels => c.op \in {"consult", "freeze", "research", "certify"}
         /\ c.at \in CertificationLabels => c.op = "certify"
         /\ c.at \in {"store", "remove", "status", "consult", "freeze", "seal"} => c.op = c.at
         /\ c.at = "freeze_version" => c.op = "freeze"
         /\ c.at \in {"parquet", "insert_dataset", "manifest"} => c.op = "register"
         /\ c.at \in {"research", "dataset", "load_dataset", "violation", "read"} =>
              c.op = "research"
BY OperationsAre
   DEF Placed, Labels, TokenLabels, VaultLabels, StrategyLabels, CertificationLabels, VaultBuild,
       RegistryBuild

(* A call that stands at a part's statement uses the part. *)
LEMMA UsesAt ==
  ASSUME NEW c, Placed(c)
  PROVE  /\ c.at \in TokenLabels => c # Idle /\ "token" \in Uses[c.op]
         /\ c.at \in VaultLabels \cup CertificationLabels => c # Idle /\ "vault" \in Uses[c.op]
         /\ c.at \in StrategyLabels \cup {"research", "certify"} =>
              c # Idle /\ "strategies" \in Uses[c.op]
         /\ c.at \in DatasetLabels => c # Idle /\ "datasets" \in Uses[c.op]
         /\ c.at \in CertificationLabels => c # Idle /\ "reports" \in Uses[c.op]
<1>1. c.at = "idle" => /\ c.at \notin TokenLabels \cup VaultLabels \cup CertificationLabels
                       /\ c.at \notin StrategyLabels \cup DatasetLabels
  BY DEF TokenLabels, VaultLabels, VaultBuild, CertificationLabels, StrategyLabels, RegistryBuild,
         DatasetLabels, Labels
<1>2. SUFFICES ASSUME c.at # "idle" PROVE
         /\ c.at \in TokenLabels => "token" \in Uses[c.op]
         /\ c.at \in VaultLabels \cup CertificationLabels => "vault" \in Uses[c.op]
         /\ c.at \in StrategyLabels \cup {"research", "certify"} => "strategies" \in Uses[c.op]
         /\ c.at \in DatasetLabels => "datasets" \in Uses[c.op]
         /\ c.at \in CertificationLabels => "reports" \in Uses[c.op]
  BY <1>1 DEF Idle
<1>3. /\ c.at \in TokenLabels => c.op = "token"
      /\ c.at \in VaultLabels \cup CertificationLabels =>
           c.op \in {"store", "remove", "status", "certify"}
      /\ c.at \in StrategyLabels \cup {"research", "certify"} =>
           c.op \in {"consult", "freeze", "research", "certify"}
      /\ c.at \in DatasetLabels => c.op \in {"register", "seal", "research"}
      /\ c.at \in CertificationLabels => c.op = "certify"
  BY <1>2, Placement DEF DatasetLabels, CertificationLabels
<1> QED
  BY <1>3 DEF Uses

(* One call at a time stands at the statements of a part whose calls did   *)
(* not overlap.                                                            *)
OneAt(part, labels) ==
  part \notin overlapped =>
    \A t, u \in Threads : call[t].at \in labels /\ call[u].at \in labels => t = u

LEMMA OneAtATime ==
  CallInv => /\ OneAt("token", TokenLabels)
             /\ OneAt("vault", VaultLabels \cup CertificationLabels)
             /\ OneAt("strategies", StrategyLabels \cup {"research", "certify"})
             /\ OneAt("datasets", DatasetLabels)
             /\ OneAt("reports", CertificationLabels)
<1> SUFFICES ASSUME CallInv PROVE
             /\ OneAt("token", TokenLabels)
             /\ OneAt("vault", VaultLabels \cup CertificationLabels)
             /\ OneAt("strategies", StrategyLabels \cup {"research", "certify"})
             /\ OneAt("datasets", DatasetLabels)
             /\ OneAt("reports", CertificationLabels)
  OBVIOUS
<1>1. ASSUME NEW part \in {"token", "vault", "strategies", "datasets", "reports"}, NEW labels,
             \A t \in Threads : call[t].at \in labels => call[t] # Idle /\ part \in Uses[call[t].op]
      PROVE  OneAt(part, labels)
  BY <1>1 DEF OneAt, CallInv, Alone, Busy
<1>2. \A t \in Threads : Placed(call[t])
  BY DEF CallInv
<1>3. OneAt("token", TokenLabels)
  BY <1>1, <1>2, UsesAt
<1>4. OneAt("vault", VaultLabels \cup CertificationLabels)
  BY <1>1, <1>2, UsesAt
<1>5. OneAt("strategies", StrategyLabels \cup {"research", "certify"})
  BY <1>1, <1>2, UsesAt
<1>6. OneAt("datasets", DatasetLabels)
  BY <1>1, <1>2, UsesAt
<1>7. OneAt("reports", CertificationLabels)
  BY <1>1, <1>2, UsesAt
<1> QED
  BY <1>3, <1>4, <1>5, <1>6, <1>7

LEMMA OneAtATimeNext ==
  CallInv' => /\ OneAt("token", TokenLabels)'
              /\ OneAt("vault", VaultLabels \cup CertificationLabels)'
              /\ OneAt("strategies", StrategyLabels \cup {"research", "certify"})'
              /\ OneAt("datasets", DatasetLabels)'
              /\ OneAt("reports", CertificationLabels)'
BY OneAtATime, PTL

(* What a statement other than a call's first does: thread t comes from    *)
(* `from' to `to', or its call ends.                                       *)
Statement(t, from, to) ==
  /\ At(t, from)
  /\ \/ Goto(t, to)
     \/ \E values : Assign(t, values, to)
     \/ \E values : Enter(t, values, to)
     \/ Return(t)
     \/ \E part : Break(t, part)
     \/ \E part : Spoil(t, part, to)

LEMMA StatementMoves ==
  ASSUME CallShape, NEW t \in Threads, NEW from, NEW to, Statement(t, from, to)
  PROVE  At(t, from) /\ (Ends(t) \/ \E local : Moves(t, to, local))
<1>1. CASE Goto(t, to)
  BY <1>1, GotoMoves DEF Statement
<1>2. CASE \E values : Assign(t, values, to)
  BY <1>2, AssignMoves DEF Statement
<1>3. CASE \E values : Enter(t, values, to)
  BY <1>3, EnterMoves DEF Statement
<1>4. CASE Return(t)
  BY <1>4, ReturnEnds DEF Statement
<1>5. CASE \E part : Break(t, part)
  BY <1>5, BreakEnds DEF Statement
<1>6. CASE \E part : Spoil(t, part, to)
  BY <1>6, SpoilMoves DEF Statement
<1> QED
  BY <1>1, <1>2, <1>3, <1>4, <1>5, <1>6 DEF Statement

(* The statements of load_dataset and of its caller. *)
ReadLabels == {"dataset", "load_dataset", "violation", "read"}

LEMMA StatementKeeps ==
  ASSUME CallInv, NEW t \in Threads, NEW from, from # "idle",
         NEW to \in Labels[call[t].op], Statement(t, from, to)
  PROVE  CallInv' /\ GoesOn(t, from, {to})
<1>1. CallShape
  BY DEF CallInv
<1>2. GoesOn(t, from, {to})
  <2>1. CASE Goto(t, to)
    BY <1>1, <2>1, GotoGoesOn DEF Statement
  <2>2. ASSUME NEW values, Assign(t, values, to) PROVE GoesOn(t, from, {to})
    BY <1>1, <2>2, AssignGoesOn DEF Statement
  <2>3. ASSUME NEW values, Enter(t, values, to) PROVE GoesOn(t, from, {to})
    BY <1>1, <2>3, EnterGoesOn DEF Statement
  <2>4. CASE Return(t)
    <3>1. GoesOn(t, from, {})
      BY <1>1, <2>4, ReturnGoesOn DEF Statement
    <3> QED
      BY <3>1 DEF GoesOn
  <2>5. ASSUME NEW part, Break(t, part) PROVE GoesOn(t, from, {to})
    <3>1. GoesOn(t, from, {})
      BY <1>1, <2>5, BreakGoesOn DEF Statement
    <3> QED
      BY <3>1 DEF GoesOn
  <2>6. ASSUME NEW part, Spoil(t, part, to) PROVE GoesOn(t, from, {to})
    BY <1>1, <2>6, SpoilGoesOn DEF Statement
  <2> QED
    BY <2>1, <2>2, <2>3, <2>4, <2>5, <2>6 DEF Statement
<1>3. GoesOn(t, call[t].at, Labels[call[t].op])
  BY <1>2 DEF GoesOn
<1> QED
  BY <1>2, <1>3, GoesOnKeeps DEF GoesOn

(* Each part's statements follow each other within the part. *)
LEMMA TokenFlow ==
  ASSUME NEW t \in Threads, TokenStep(t)
  PROVE  \/ Begin(t, "token", None, "token")
         \/ \E from, to \in TokenLabels : Statement(t, from, to)
<1> USE DEF TokenLabels, Labels
<1>1. CASE GetToken(t)
  BY <1>1 DEF GetToken
<1>2. CASE LookInMemory(t)
  BY <1>2 DEF LookInMemory, Statement
<1>3. CASE LookInFile(t)
  BY <1>3 DEF LookInFile, Statement
<1>4. CASE Generate(t)
  <2>1. At(t, "generate") /\ \E values : Assign(t, values, "open_token")
    BY <1>4 DEF Generate
  <2> QED
    BY <2>1 DEF Statement
<1>5. CASE OpenTokenFile(t)
  BY <1>5 DEF OpenTokenFile, Statement
<1>6. CASE WriteTokenFile(t)
  BY <1>6 DEF WriteTokenFile, Statement
<1>7. CASE TokenNotSaved(t)
  BY <1>7 DEF TokenNotSaved, Statement
<1>8. CASE AnswerToken(t)
  BY <1>8 DEF AnswerToken, Statement
<1>9. CASE TokenUnread(t)
  BY <1>9 DEF TokenUnread, Statement
<1> QED
  BY <1>1, <1>2, <1>3, <1>4, <1>5, <1>6, <1>7, <1>8, <1>9 DEF TokenStep

LEMMA VaultFlow ==
  ASSUME NEW t \in Threads, VaultStep(t)
  PROVE  \/ \E op \in {"store", "remove", "status"} : Begin(t, op, None, "vault")
         \/ \E from, to \in VaultBuild : Statement(t, from, to)
         \/ (GetVault(t) \/ InstallVault(t)) /\ \E from \in VaultBuild : Statement(t, from, Reads(t))
         \/ Statement(t, "load", call[t].op)
         \/ \E from \in {"store", "remove"} : Statement(t, from, "open_data")
         \/ Statement(t, "open_data", "write_data")
         \/ \E from \in VaultLabels : Statement(t, from, from)
<1> USE DEF VaultLabels, VaultBuild
<1>1. CASE VaultCall(t)
  BY <1>1 DEF VaultCall, Statement
<1>2. CASE GetVault(t)
  BY <1>2 DEF GetVault, Statement
<1>3. CASE LookForSalt(t)
  BY <1>3 DEF LookForSalt, Statement
<1>4. CASE OpenSalt(t)
  BY <1>4 DEF OpenSalt, Statement
<1>5. CASE WriteSalt(t)
  BY <1>5 DEF WriteSalt, Statement
<1>6. CASE LookForKey(t)
  BY <1>6 DEF LookForKey, Statement
<1>7. CASE OpenKey(t)
  BY <1>7 DEF OpenKey, Statement
<1>8. CASE WriteKey(t)
  BY <1>8 DEF WriteKey, Statement
<1>9. CASE InstallVault(t)
  BY <1>9 DEF InstallVault, Statement
<1>10. CASE Load(t)
  <2>1. At(t, "load") /\ (Return(t) \/ \E values : Assign(t, values, call[t].op))
    BY <1>10 DEF Load
  <2> QED
    BY <2>1 DEF Statement
<1>11. CASE AnswerStatus(t)
  BY <1>11 DEF AnswerStatus, Statement
<1>12. CASE StoreEntry(t)
  <2>1. At(t, "store") /\ (Return(t) \/ \E values : Assign(t, values, "open_data"))
    BY <1>12 DEF StoreEntry, Encrypt
  <2> QED
    BY <2>1 DEF Statement
<1>13. CASE RemoveEntry(t)
  <2>1. At(t, "remove") /\ (Return(t) \/ \E values : Assign(t, values, "open_data"))
    BY <1>13 DEF RemoveEntry, Encrypt
  <2> QED
    BY <2>1 DEF Statement
<1>14. CASE OpenData(t)
  BY <1>14 DEF OpenData, Statement
<1>15. CASE WriteData(t)
  BY <1>15 DEF WriteData, Statement
<1>16. CASE VaultWriteFails(t)
  BY <1>16 DEF VaultWriteFails, Statement
<1> QED
  BY <1>1, <1>2, <1>3, <1>4, <1>5, <1>6, <1>7, <1>8, <1>9, <1>10, <1>11, <1>12,
     <1>13, <1>14, <1>15, <1>16 DEF VaultStep

LEMMA StrategyFlow ==
  ASSUME NEW t \in Threads, StrategyStep(t)
  PROVE  \/ \E op \in {"consult", "freeze"} : Begin(t, op, None, "registry")
         \/ \E from, to \in RegistryBuild : Statement(t, from, to)
         \/ \E from \in RegistryBuild : Statement(t, from, call[t].op)
         \/ Statement(t, "freeze", "freeze_version")
         \/ \E from \in {"consult", "freeze_version"} : Statement(t, from, from)
<1> USE DEF RegistryBuild
<1>1. CASE StrategyCall(t)
  BY <1>1 DEF StrategyCall, Statement
<1>2. CASE GetRegistry(t)
  BY <1>2 DEF GetRegistry, Statement
<1>3. CASE Register(t)
  BY <1>3 DEF Register, Statement
<1>4. CASE InsertStrategy(t)
  BY <1>4 DEF InsertStrategy, Statement
<1>5. CASE InsertVersion(t)
  BY <1>5 DEF InsertVersion, Statement
<1>6. CASE RegisterFails(t)
  BY <1>6 DEF RegisterFails, Statement
<1>7. CASE InstallRegistry(t)
  BY <1>7 DEF InstallRegistry, Statement
<1>8. CASE ListStrategies(t)
  BY <1>8 DEF ListStrategies, Statement
<1>9. CASE Freeze(t)
  BY <1>9 DEF Freeze, Statement
<1>10. CASE FreezeVersion(t)
  BY <1>10 DEF FreezeVersion, Statement
<1>11. CASE FreezeFails(t)
  BY <1>11 DEF FreezeFails, Statement
<1>12. CASE Promote(t)
  BY <1>12 DEF Promote, Statement
<1>13. CASE LookupFails(t)
  BY <1>13 DEF LookupFails, Statement
<1> QED
  BY <1>1, <1>2, <1>3, <1>4, <1>5, <1>6, <1>7, <1>8, <1>9, <1>10, <1>11, <1>12, <1>13
     DEF StrategyStep

LEMMA DatasetFlow ==
  ASSUME NEW t \in Threads, DatasetStep(t)
  PROVE  \/ Begin(t, "register", None, "parquet")
         \/ \E d \in listed : Begin(t, "seal", d, "seal")
         \/ Begin(t, "research", None, "registry")
         \/ \E from, to \in {"parquet", "insert_dataset", "manifest"} : Statement(t, from, to)
         \/ \E from, to \in {"research"} \cup ReadLabels : Statement(t, from, to)
         \/ Statement(t, "seal", "seal")
<1> USE DEF ReadLabels
<1>1. CASE DatasetCall(t)
  BY <1>1 DEF DatasetCall, Statement
<1>2. CASE WriteParquet(t)
  BY <1>2 DEF WriteParquet, Statement
<1>3. CASE InsertDataset(t)
  BY <1>3 DEF InsertDataset, Statement
<1>4. CASE InsertDatasetFails(t)
  BY <1>4 DEF InsertDatasetFails, Statement
<1>5. CASE ManifestRaises(t)
  BY <1>5 DEF ManifestRaises, Statement
<1>6. CASE SealDataset(t)
  BY <1>6 DEF SealDataset, Statement
<1>7. CASE FindStrategy(t)
  BY <1>7 DEF FindStrategy, Statement
<1>8. CASE FindDataset(t)
  BY <1>8 DEF FindDataset, Statement
<1>9. CASE LoadDataset(t)
  BY <1>9 DEF LoadDataset, Statement
<1>10. CASE LogViolation(t)
  BY <1>10 DEF LogViolation, Statement
<1>11. CASE LogViolationFails(t)
  BY <1>11 DEF LogViolationFails, Statement
<1>12. CASE ReadParquet(t)
  BY <1>12 DEF ReadParquet, Statement
<1> QED
  BY <1>1, <1>2, <1>3, <1>4, <1>5, <1>6, <1>7, <1>8, <1>9, <1>10, <1>11, <1>12 DEF DatasetStep

LEMMA CertificationFlow ==
  ASSUME NEW t \in Threads, CertificationStep(t)
  PROVE  \/ Begin(t, "certify", made + 1, "vault")
         \/ \E from \in CertificationLabels,
              to \in CertificationLabels \ {"certify"} : Statement(t, from, to)
         \/ Statement(t, "data", "registry")
<1> USE DEF CertificationLabels
<1>1. CASE Certify(t)
  BY <1>1 DEF Certify, Statement
<1>2. CASE VaultHealth(t)
  BY <1>2 DEF VaultHealth, Evaluated, Statement
<1>3. CASE EvaluateData(t)
  BY <1>3 DEF EvaluateData, Statement
<1>4. CASE CountStrategies(t)
  BY <1>4 DEF CountStrategies, Evaluated, Statement
<1>5. CASE LookForCoinbase(t)
  <2>1. At(t, "coinbase") /\ (Return(t) \/ \E values : Assign(t, values, "alpaca"))
    BY <1>5 DEF LookForCoinbase, VaultRaises
  <2> QED
    BY <2>1 DEF Statement
<1>6. CASE LookForAlpaca(t)
  <2>1. At(t, "alpaca") /\ (Return(t) \/ \E values : Enter(t, values, "save"))
    BY <1>6 DEF LookForAlpaca, VaultRaises
  <2> QED
    BY <2>1 DEF Statement
<1>7. CASE SaveReport(t)
  BY <1>7 DEF SaveReport, Statement
<1>8. CASE SaveReportFails(t)
  BY <1>8 DEF SaveReportFails, Statement
<1>9. CASE AnswerCertificate(t)
  BY <1>9 DEF AnswerCertificate, Statement
<1> QED
  BY <1>1, <1>2, <1>3, <1>4, <1>5, <1>6, <1>7, <1>8, <1>9 DEF CertificationStep

-----------------------------------------------------------------------------
(* The statements that change the credentials. *)
WriteLabels == {"store", "remove", "open_data", "write_data"}

(* Thread t takes a step that is neither from nor to one of `labels'. *)
PassesBy(t, labels) ==
  /\ CallInv' /\ overlapped \subseteq overlapped' /\ cut \subseteq cut'
  /\ \A u \in Threads \ {t} : call'[u] = call[u]
  /\ call[t].at \notin labels /\ call'[t].at \notin labels

(* The statements each part's steps have nothing to do with. *)
TokenAway == VaultLabels \cup StrategyLabels \cup DatasetLabels \cup CertificationLabels
VaultAway == TokenLabels \cup StrategyLabels \cup DatasetLabels \cup (CertificationLabels \ {"health"})
StrategyAway ==
  TokenLabels \cup VaultLabels \cup (DatasetLabels \ {"research"})
    \cup (CertificationLabels \ {"certify"})
DatasetAway ==
  TokenLabels \cup VaultLabels \cup (StrategyLabels \ {"registry"}) \cup CertificationLabels
CertificationAway ==
  TokenLabels \cup (VaultLabels \ {"vault"}) \cup (StrategyLabels \ {"registry"}) \cup DatasetLabels

LEMMA PassesByFewer ==
  ASSUME NEW t \in Threads, NEW labels, PassesBy(t, labels), NEW fewer \in SUBSET labels
  PROVE  PassesBy(t, fewer)
BY DEF PassesBy

LEMMA BeginPassesBy ==
  ASSUME CallInv, NEW t \in Threads, NEW op \in Operations, NEW arg, NEW label \in Labels[op],
         Begin(t, op, arg, label), NEW labels, label \notin labels, "idle" \notin labels
  PROVE  PassesBy(t, labels)
<1>1. Idle.at = "idle"
  BY DEF Idle
<1>2. /\ CallInv'
      /\ call[t] = Idle /\ \A u \in Threads \ {t} : call'[u] = call[u]
      /\ call'[t] = [op |-> op, arg |-> arg, at |-> label, local |-> NoLocals]
      /\ overlapped \subseteq overlapped' /\ cut' = cut
  BY BeginKeeps
<1>3. call'[t].at = label
  BY <1>2
<1> QED
  BY <1>1, <1>2, <1>3 DEF PassesBy

LEMMA StatementPassesBy ==
  ASSUME CallInv, NEW t \in Threads, NEW from, from # "idle",
         NEW to \in Labels[call[t].op], Statement(t, from, to),
         NEW labels, from \notin labels, to \notin labels, "idle" \notin labels
  PROVE  PassesBy(t, labels)
<1>1. Idle.at = "idle"
  BY DEF Idle
<1>2. CallInv' /\ GoesOn(t, from, {to})
  BY StatementKeeps
<1> QED
  BY <1>1, <1>2 DEF PassesBy, GoesOn

(* Until HIDE, every set of statements is spelled out. *)
USE DEF TokenLabels, VaultLabels, VaultBuild, StrategyLabels,
        RegistryBuild, DatasetLabels, CertificationLabels

LEMMA TokenPassesBy ==
  ASSUME CallInv, NEW t \in Threads, TokenStep(t)
  PROVE  PassesBy(t, TokenAway)
<1> DEFINE away == TokenAway
<1>1. CASE Begin(t, "token", None, "token")
  <2>1. "token" \in Operations /\ "token" \in Labels["token"] /\ "token" \notin away
        /\ "idle" \notin away
    BY OperationsAre DEF TokenAway, Labels
  <2> QED
    BY <1>1, <2>1, BeginPassesBy
<1>2. ASSUME NEW from \in TokenLabels, NEW to \in TokenLabels, Statement(t, from, to)
      PROVE  PassesBy(t, away)
  <2>1. from # "idle" /\ from \notin away /\ to \notin away /\ "idle" \notin away
    BY DEF TokenAway, Labels
  <2>2. Placed(call[t]) /\ call[t].at = from
    BY <1>2 DEF CallInv, Statement, At
  <2>3. call[t].op = "token"
    BY <2>1, <2>2, Placement
  <2> QED
    BY <1>2, <2>1, <2>3, StatementPassesBy
<1> QED
  BY <1>1, <1>2, TokenFlow

LEMMA StrategyPassesBy ==
  ASSUME CallInv, NEW t \in Threads, StrategyStep(t)
  PROVE  PassesBy(t, StrategyAway)
<1> DEFINE away == StrategyAway
<1>1. ASSUME NEW op \in {"consult", "freeze"}, Begin(t, op, None, "registry")
      PROVE  PassesBy(t, away)
  <2>1. op \in Operations /\ "registry" \in Labels[op] /\ "registry" \notin away
        /\ "idle" \notin away
    BY OperationsAre DEF StrategyAway, Labels
  <2> QED
    BY <1>1, <2>1, BeginPassesBy
<1>2. ASSUME NEW from \in StrategyLabels, NEW to, Statement(t, from, to),
             to \in StrategyLabels \cup {call[t].op},
             from \in {"freeze"} => to = "freeze_version",
             from = "consult" => to = "consult",
             from = "freeze_version" => to = "freeze_version",
             to \in {"consult", "freeze", "freeze_version"} =>
               to = call[t].op \/ from \in {"consult", "freeze", "freeze_version"}
      PROVE  PassesBy(t, away)
  <2>1. from # "idle" /\ from \notin away /\ "idle" \notin away
    BY DEF StrategyAway, Labels
  <2>2. Placed(call[t]) /\ call[t].at = from
    BY <1>2 DEF CallInv, Statement, At
  <2>3. /\ call[t].op \in {"consult", "freeze", "research", "certify"}
        /\ from = "freeze" => call[t].op = "freeze"
        /\ from = "freeze_version" => call[t].op = "freeze"
        /\ from = "consult" => call[t].op = "consult"
    BY <2>1, <2>2, Placement
  <2>4. to \notin away
    BY <1>2, <2>3 DEF StrategyAway, Labels
  <2>5. to \in Labels[call[t].op]
    BY <1>2, <2>3 DEF Labels
  <2> QED
    BY <1>2, <2>1, <2>4, <2>5, StatementPassesBy
<1>3. ASSUME NEW from \in RegistryBuild, NEW to \in RegistryBuild, Statement(t, from, to)
      PROVE  PassesBy(t, away)
  BY <1>2, <1>3
<1>4. ASSUME NEW from \in RegistryBuild, Statement(t, from, call[t].op)
      PROVE  PassesBy(t, away)
  BY <1>2, <1>4
<1>5. CASE Statement(t, "freeze", "freeze_version")
  BY <1>2, <1>5
<1>6. ASSUME NEW from \in {"consult", "freeze_version"}, Statement(t, from, from)
      PROVE  PassesBy(t, away)
  BY <1>2, <1>6
<1> QED
  BY <1>1, <1>3, <1>4, <1>5, <1>6, StrategyFlow

LEMMA CertificationPassesBy ==
  ASSUME CallInv, NEW t \in Threads, CertificationStep(t)
  PROVE  PassesBy(t, CertificationAway) /\ call'[t].at # "certify"
<1> DEFINE away == CertificationAway
<1>1. CASE Begin(t, "certify", made + 1, "vault")
  <2>1. "certify" \in Operations /\ "vault" \in Labels["certify"] /\ "vault" \notin away
        /\ "idle" \notin away
    BY OperationsAre DEF CertificationAway, Labels
  <2>2. PassesBy(t, away)
    BY <1>1, <2>1, BeginPassesBy
  <2>3. call'[t] = [op |-> "certify", arg |-> made + 1, at |-> "vault", local |-> NoLocals]
    BY <1>1, <2>1, BeginKeeps
  <2> QED
    BY <2>2, <2>3
<1>2. ASSUME NEW from \in CertificationLabels,
             NEW to \in (CertificationLabels \ {"certify"}) \cup {"registry"},
             Statement(t, from, to)
      PROVE  PassesBy(t, away) /\ call'[t].at # "certify"
  <2>1. from # "idle" /\ from \notin away /\ to \notin away /\ "idle" \notin away
    BY DEF CertificationAway, Labels
  <2>2. Placed(call[t]) /\ call[t].at = from
    BY <1>2 DEF CallInv, Statement, At
  <2>3. call[t].op = "certify"
    BY <2>1, <2>2, Placement
  <2>4. to \in Labels[call[t].op]
    BY <2>3 DEF Labels
  <2>5. PassesBy(t, away)
    BY <1>2, <2>1, <2>4, StatementPassesBy
  <2>6. call'[t] = Idle \/ call'[t].at = to
    <3>1. GoesOn(t, from, {to})
      BY <1>2, <2>1, <2>4, StatementKeeps
    <3> QED
      BY <3>1 DEF GoesOn
  <2> QED
    BY <2>5, <2>6 DEF Idle
<1> QED
  BY <1>1, <1>2, CertificationFlow

LEMMA VaultPassesBy ==
  ASSUME CallInv, NEW t \in Threads, VaultStep(t)
  PROVE  PassesBy(t, VaultAway)
<1>1. ASSUME NEW op \in {"store", "remove", "status"}, Begin(t, op, None, "vault")
      PROVE  PassesBy(t, VaultAway)
  <2>1. op \in Operations /\ "vault" \in Labels[op] /\ "vault" \notin VaultAway
        /\ "idle" \notin VaultAway
    BY OperationsAre DEF Labels, VaultAway
  <2> QED
    BY <1>1, <2>1, BeginPassesBy
<1>2. ASSUME NEW from \in VaultLabels, NEW to \in Labels[call[t].op], to \notin VaultAway,
             Statement(t, from, to)
      PROVE  PassesBy(t, VaultAway)
  <2>1. from # "idle" /\ from \notin VaultAway /\ "idle" \notin VaultAway
    BY DEF VaultAway, Labels
  <2> QED
    BY <1>2, <2>1, StatementPassesBy
<1>3. ASSUME NEW from \in VaultLabels, NEW to, Statement(t, from, to)
      PROVE  /\ call[t].op \in {"store", "remove", "status", "certify"}
             /\ from \in Labels[call[t].op] /\ from \notin VaultAway
             /\ from = "load" => call[t].op # "certify"
             /\ from \in {"store", "remove", "status"} => call[t].op = from
             /\ from = "open_data" => call[t].op \in {"store", "remove"}
  <2>1. from # "idle" /\ from \notin VaultAway
    BY DEF VaultAway, Labels
  <2>2. Placed(call[t]) /\ call[t].at = from
    BY <1>3 DEF CallInv, Statement, At
  <2> QED
    BY <2>1, <2>2, Placement DEF Placed
<1>4. ASSUME NEW from \in VaultBuild, NEW to \in VaultBuild, Statement(t, from, to)
      PROVE  PassesBy(t, VaultAway)
  BY <1>2, <1>3, <1>4 DEF Labels, VaultAway
<1>5. ASSUME NEW from \in VaultBuild, Statement(t, from, Reads(t))
      PROVE  PassesBy(t, VaultAway)
  BY <1>2, <1>3, <1>5 DEF Labels, Reads, Runs, VaultAway
<1>6. CASE Statement(t, "load", call[t].op)
  BY <1>2, <1>3, <1>6 DEF Labels, VaultAway
<1>7. ASSUME NEW from \in {"store", "remove"}, Statement(t, from, "open_data")
      PROVE  PassesBy(t, VaultAway)
  BY <1>2, <1>3, <1>7 DEF Labels, VaultAway
<1>8. CASE Statement(t, "open_data", "write_data")
  BY <1>2, <1>3, <1>8 DEF Labels, VaultAway
<1>9. ASSUME NEW from \in VaultLabels, Statement(t, from, from)
      PROVE  PassesBy(t, VaultAway)
  BY <1>2, <1>3, <1>9
<1> QED
  BY <1>1, <1>4, <1>5, <1>6, <1>7, <1>8, <1>9, VaultFlow

LEMMA DatasetPassesBy ==
  ASSUME CallInv, NEW t \in Threads, DatasetStep(t)
  PROVE  PassesBy(t, DatasetAway)
<1>1. ASSUME NEW op \in {"register", "seal", "research"}, NEW arg,
             NEW label \in {"parquet", "seal", "registry"}, label \in Labels[op],
             Begin(t, op, arg, label)
      PROVE  PassesBy(t, DatasetAway)
  <2>1. op \in Operations /\ label \notin DatasetAway /\ "idle" \notin DatasetAway
    BY OperationsAre DEF DatasetAway, Labels
  <2> QED
    BY <1>1, <2>1, BeginPassesBy
<1>2. ASSUME NEW from \in DatasetLabels, NEW to \in Labels[call[t].op], to \notin DatasetAway,
             Statement(t, from, to)
      PROVE  PassesBy(t, DatasetAway)
  <2>1. from # "idle" /\ from \notin DatasetAway /\ "idle" \notin DatasetAway
    BY DEF DatasetAway, Labels
  <2> QED
    BY <1>2, <2>1, StatementPassesBy
<1>3. ASSUME NEW from \in DatasetLabels, NEW to, Statement(t, from, to)
      PROVE  /\ from = "seal" => call[t].op = "seal"
             /\ from \in {"parquet", "insert_dataset", "manifest"} => call[t].op = "register"
             /\ from \in {"research"} \cup ReadLabels => call[t].op = "research"
  <2>1. from # "idle"
    OBVIOUS
  <2>2. Placed(call[t]) /\ call[t].at = from
    BY <1>3 DEF CallInv, Statement, At
  <2> QED
    BY <2>1, <2>2, Placement DEF ReadLabels
<1>4. ASSUME NEW from \in {"parquet", "insert_dataset", "manifest"},
             NEW to \in {"parquet", "insert_dataset", "manifest"}, Statement(t, from, to)
      PROVE  PassesBy(t, DatasetAway)
  BY <1>2, <1>3, <1>4 DEF Labels, DatasetAway
<1>5. ASSUME NEW from \in {"research"} \cup ReadLabels, NEW to \in {"research"} \cup ReadLabels,
             Statement(t, from, to)
      PROVE  PassesBy(t, DatasetAway)
  BY <1>2, <1>3, <1>5 DEF Labels, DatasetAway, ReadLabels
<1>6. CASE Statement(t, "seal", "seal")
  BY <1>2, <1>3, <1>6 DEF Labels, DatasetAway
<1>7. CASE Begin(t, "register", None, "parquet")
  BY <1>1, <1>7 DEF Labels
<1>8. ASSUME NEW d \in listed, Begin(t, "seal", d, "seal")
      PROVE  PassesBy(t, DatasetAway)
  BY <1>1, <1>8 DEF Labels
<1>9. CASE Begin(t, "research", None, "registry")
  BY <1>1, <1>9 DEF Labels
<1> QED
  BY <1>4, <1>5, <1>6, <1>7, <1>8, <1>9, DatasetFlow

HIDE DEF TokenLabels, VaultLabels, VaultBuild, StrategyLabels,
         RegistryBuild, DatasetLabels, CertificationLabels

(* When the process dies, so do its calls, and what was half done is cut. *)
LEMMA CrashKeeps ==
  ASSUME CallInv, Crash
  PROVE  /\ CallInv' /\ overlapped' = overlapped /\ cut \subseteq cut'
         /\ \A t \in Threads : call'[t] = Idle
         /\ \A t \in Busy : Half(t) \subseteq cut'
<1>1. /\ call' = [t \in Threads |-> Idle] /\ overlapped' = overlapped
      /\ cut' = cut \cup UNION {[t \in Busy |-> Half(t)][u] : u \in Busy}
  BY DEF Crash, CallsDie
<1>2. /\ \A t \in Threads : call'[t] = Idle
      /\ \A t \in Busy : Half(t) \subseteq cut'
  BY <1>1
<1>3. CallShape'
  BY <1>1 DEF CallShape, Idle
<1>4. \A t \in Threads : Placed(call'[t])
  BY <1>2, IdlePlaced
<1>5. Alone'
  BY <1>2 DEF Alone, Busy
<1>6. CallInv'
  BY <1>3, <1>4, <1>5 DEF CallInv
<1> QED
  BY <1>1, <1>2, <1>6

-----------------------------------------------------------------------------
(* The seal.                                                               *)

(* A call that looks for a dataset knows what was sealed when it began to, *)
(* and one that reads its file knows that it was not.                      *)
Informed(c, nowSealed) ==
  /\ c.at \in {"dataset", "load_dataset"} =>
       "sealedBefore" \in DOMAIN c.local /\ c.local["sealedBefore"] \subseteq nowSealed
  /\ c.at = "read" => c.local["dataset"] \notin c.local["sealedBefore"]

(* Every load that met a seal is in risk_events, or the one call that is   *)
(* about to write it there stands before that statement.                   *)
Logging == {t \in Threads : At(t, "violation")}
Counted ==
  "datasets" \notin overlapped \cup cut =>
    IF Logging = {} THEN violations = refused ELSE refused = violations + 1

SealInv == (\A t \in Threads : Informed(call[t], sealed)) /\ Counted

(* The other parts' steps do not touch it. *)
LEMMA PassesBySeal ==
  ASSUME SealInv, NEW t \in Threads, PassesBy(t, ReadLabels), UNCHANGED datasetVars
  PROVE  SealInv'
<1>1. /\ \A u \in Threads \ {t} : call'[u] = call[u]
      /\ call[t].at \notin ReadLabels /\ call'[t].at \notin ReadLabels
      /\ overlapped \subseteq overlapped' /\ cut \subseteq cut'
  BY DEF PassesBy
<1>2. sealed' = sealed /\ violations' = violations /\ refused' = refused
  BY DEF datasetVars
<1>3. \A u \in Threads : Informed(call'[u], sealed')
  <2>1. Informed(call'[t], sealed')
    BY <1>1 DEF Informed, ReadLabels
  <2> QED
    BY <1>1, <1>2, <2>1 DEF SealInv
<1>4. Logging' = Logging
  BY <1>1 DEF Logging, At, ReadLabels
<1>5. Counted'
  BY <1>1, <1>2, <1>4 DEF SealInv, Counted
<1> QED
  BY <1>3, <1>5 DEF SealInv

LEMMA BystandersInformed ==
  ASSUME SealInv, NEW t \in Threads, \A u \in Threads \ {t} : call'[u] = call[u],
         sealed \subseteq sealed'
  PROVE  \A u \in Threads \ {t} : Informed(call'[u], sealed')
BY DEF SealInv, Informed

(* Only one call at a time can be about to log, where calls do not overlap. *)
LEMMA LoggingAlone ==
  ASSUME CallInv, "datasets" \notin overlapped, NEW t \in Threads, NEW u \in Threads,
         call[t].at \in ReadLabels, call[u].at \in ReadLabels
  PROVE  t = u
<1>1. \A v \in Threads : call[v].at \in ReadLabels => call[v].op = "research" /\ call[v] # Idle
  <2> SUFFICES ASSUME NEW v \in Threads, call[v].at \in ReadLabels
               PROVE  call[v].op = "research" /\ call[v] # Idle
    OBVIOUS
  <2>1. call[v].at # "idle" /\ Placed(call[v])
    BY DEF CallInv, ReadLabels
  <2>2. call[v].op = "research"
    BY <2>1, Placement DEF ReadLabels
  <2> QED
    BY <2>1, <2>2 DEF Idle
<1>2. "datasets" \in Uses["research"]
  BY DEF Uses
<1> QED
  BY <1>1, <1>2 DEF CallInv, Alone, Busy

LEMMA DatasetStepKeepsSeal ==
  ASSUME CallInv, SealInv, NEW t \in Threads, DatasetStep(t)
  PROVE  SealInv'
<1>1. /\ CallShape /\ \A u \in Threads \ {t} : call'[u] = call[u]
      /\ overlapped \subseteq overlapped' /\ cut \subseteq cut'
      /\ Informed(call[t], sealed) /\ Idle.at = "idle"
  BY DatasetPassesBy DEF PassesBy, CallInv, SealInv, Idle
<1>2. ASSUME sealed \subseteq sealed', Informed(call'[t], sealed'), Counted'
      PROVE  SealInv'
  BY <1>1, <1>2, BystandersInformed DEF SealInv
<1>3. ASSUME call[t].at # "violation", call'[t].at # "violation",
             violations' = violations, refused' = refused
      PROVE  Counted'
  <2>1. Logging' = Logging
    BY <1>1, <1>3 DEF Logging, At
  <2> QED
    BY <1>1, <1>3, <2>1 DEF SealInv, Counted
<1>4. ASSUME call'[t].at \notin ReadLabels
      PROVE  Informed(call'[t], sealed')
  BY <1>4 DEF Informed, ReadLabels
\* The steps that neither look for a dataset nor log.
<1>5. ASSUME call[t].at # "violation", call'[t].at \notin ReadLabels, sealed \subseteq sealed',
             violations' = violations, refused' = refused
      PROVE  SealInv'
  BY <1>2, <1>3, <1>4, <1>5 DEF ReadLabels
<1>6. ASSUME At(t, "read") \/ At(t, "manifest") \/ At(t, "insert_dataset") \/ At(t, "seal")
               \/ At(t, "research") \/ At(t, "dataset"),
             Return(t), sealed \subseteq sealed', violations' = violations, refused' = refused
      PROVE  SealInv'
  <2>1. call'[t] = Idle
    BY <1>1, <1>6, ReturnGoesOn
  <2> QED
    BY <1>1, <1>5, <1>6, <2>1 DEF At, ReadLabels
<1>7. CASE DatasetCall(t)
  <2>1. ASSUME NEW op \in Operations, NEW arg, NEW label \in Labels[op],
               label \in {"parquet", "seal", "registry"}, Begin(t, op, arg, label)
        PROVE  SealInv'
    <3>1. call[t] = Idle /\ call'[t] = [op |-> op, arg |-> arg, at |-> label, local |-> NoLocals]
      BY <2>1, BeginKeeps
    <3> QED
      BY <1>1, <1>5, <1>7, <2>1, <3>1 DEF DatasetCall, datasetVars, ReadLabels
  <2>2. /\ {"register", "seal", "research"} \subseteq Operations
        /\ "parquet" \in Labels["register"] /\ "seal" \in Labels["seal"]
        /\ "registry" \in Labels["research"]
    BY OperationsAre DEF Labels, RegistryBuild
  <2>3. CASE Begin(t, "register", None, "parquet")
    BY <2>1, <2>2, <2>3
  <2>4. ASSUME NEW d \in listed, Begin(t, "seal", d, "seal")
        PROVE  SealInv'
    BY <2>1, <2>2, <2>4
  <2>5. CASE Begin(t, "research", None, "registry")
    BY <2>1, <2>2, <2>5
  <2> QED
    BY <1>7, <2>3, <2>4, <2>5 DEF DatasetCall
<1>8. CASE WriteParquet(t)
  <2>1. PICK values : At(t, "parquet") /\ Assign(t, values, "insert_dataset")
    BY <1>8 DEF WriteParquet
  <2>2. call'[t].at = "insert_dataset"
    BY <1>1, <2>1, AssignGoesOn
  <2> QED
    BY <1>5, <1>8, <2>1, <2>2 DEF WriteParquet, At, ReadLabels
<1>9. CASE InsertDataset(t)
  <2>1. At(t, "insert_dataset") /\ Goto(t, "manifest")
    BY <1>9 DEF InsertDataset
  <2>2. call'[t].at = "manifest"
    BY <1>1, <2>1, GotoGoesOn
  <2> QED
    BY <1>5, <1>9, <2>1, <2>2 DEF InsertDataset, At, ReadLabels
<1>10. CASE InsertDatasetFails(t) \/ ManifestRaises(t) \/ ReadParquet(t)
  BY <1>6, <1>10 DEF InsertDatasetFails, ManifestRaises, ReadParquet, datasetVars
<1>11. CASE SealDataset(t)
  BY <1>6, <1>11 DEF SealDataset
<1>12. CASE FindStrategy(t)
  <2>1. /\ At(t, "research") /\ UNCHANGED datasetVars
        /\ Assign(t, [sealedBefore |-> sealed], "dataset") \/ Return(t)
    BY <1>12 DEF FindStrategy
  <2>2. CASE Assign(t, [sealedBefore |-> sealed], "dataset")
    <3>1. /\ call'[t].at = "dataset"
          /\ call'[t].local = Updated(call[t].local, [sealedBefore |-> sealed])
      BY <1>1, <2>1, <2>2, AssignGoesOn
    <3>2. "sealedBefore" \in DOMAIN call'[t].local /\ call'[t].local["sealedBefore"] = sealed
      <4>1. PICK values : values = [sealedBefore |-> sealed]
        OBVIOUS
      <4>2. "sealedBefore" \in DOMAIN values /\ values["sealedBefore"] = sealed
        BY <4>1
      <4>3. call'[t].local = Updated(call[t].local, values)
        BY <3>1, <4>1
      <4> QED
        BY <4>2, <4>3 DEF Updated
    <3> QED
      BY <1>2, <1>3, <2>1, <3>1, <3>2 DEF Informed, At, datasetVars
  <2> QED
    BY <1>6, <2>1, <2>2 DEF datasetVars
<1>13. CASE FindDataset(t)
  <2>1. /\ At(t, "dataset") /\ UNCHANGED datasetVars
        /\ Return(t) \/ \E d : Assign(t, [dataset |-> d], "load_dataset")
    BY <1>13 DEF FindDataset
  <2>2. ASSUME NEW d, Assign(t, [dataset |-> d], "load_dataset")
        PROVE  SealInv'
    <3>1. /\ call'[t].at = "load_dataset"
          /\ call'[t].local = Updated(call[t].local, [dataset |-> d])
      BY <1>1, <2>1, <2>2, AssignGoesOn
    <3>2. "sealedBefore" \in DOMAIN call[t].local /\ call[t].local["sealedBefore"] \subseteq sealed
      BY <1>1, <2>1 DEF Informed, At
    <3>3. /\ "sealedBefore" \in DOMAIN call'[t].local
          /\ call'[t].local["sealedBefore"] = call[t].local["sealedBefore"]
      <4>1. PICK values : values = [dataset |-> d]
        OBVIOUS
      <4>2. "sealedBefore" \notin DOMAIN values
        BY <4>1
      <4>3. call'[t].local = Updated(call[t].local, values)
        BY <3>1, <4>1
      <4> QED
        BY <3>2, <4>2, <4>3 DEF Updated
    <3> QED
      BY <1>2, <1>3, <2>1, <3>1, <3>2, <3>3 DEF Informed, At, datasetVars
  <2> QED
    BY <1>6, <2>1, <2>2 DEF datasetVars
<1>14. CASE LoadDataset(t)
  <2>1. /\ At(t, "load_dataset") /\ sealed' = sealed /\ violations' = violations
        /\ \/ refused' = refused + 1 /\ Goto(t, "violation")
           \/ Local(t, "dataset") \notin sealed /\ refused' = refused /\ Goto(t, "read")
    BY <1>14 DEF LoadDataset
  <2>2. CASE refused' = refused + 1 /\ Goto(t, "violation")
    <3>1. call'[t].at = "violation"
      BY <1>1, <2>1, <2>2, GotoGoesOn
    <3>2. Counted'
      <4> SUFFICES ASSUME "datasets" \notin overlapped' \cup cut'
                   PROVE  Logging' # {} /\ refused' = violations' + 1
        BY DEF Counted
      <4>1. Logging = {}
        BY <1>1, <2>1, LoggingAlone DEF Logging, At, ReadLabels
      <4>2. violations = refused
        BY <1>1, <4>1 DEF SealInv, Counted
      <4> QED
        BY <2>1, <2>2, <3>1, <4>2 DEF Logging, At
    <3> QED
      BY <1>2, <2>1, <3>1, <3>2 DEF Informed
  <2>3. CASE Local(t, "dataset") \notin sealed /\ refused' = refused /\ Goto(t, "read")
    <3>1. call'[t].at = "read" /\ call'[t].local = call[t].local
      BY <1>1, <2>1, <2>3, GotoGoesOn
    <3>2. call[t].local["sealedBefore"] \subseteq sealed
      BY <1>1, <2>1 DEF Informed, At
    <3> QED
      BY <1>2, <1>3, <2>1, <2>3, <3>1, <3>2 DEF Informed, At, Local
  <2> QED
    BY <2>1, <2>2, <2>3
<1>15. CASE LogViolation(t)
  <2>1. /\ At(t, "violation") /\ Return(t) /\ sealed' = sealed
        /\ violations' = violations + 1 /\ refused' = refused
    BY <1>15 DEF LogViolation
  <2>2. call'[t] = Idle
    BY <1>1, <2>1, ReturnGoesOn
  <2>3. Counted'
    <3> SUFFICES ASSUME "datasets" \notin overlapped' \cup cut'
                 PROVE  Logging' = {} /\ violations' = refused'
      BY DEF Counted
    <3>1. t \in Logging
      BY <2>1 DEF Logging
    <3>2. refused = violations + 1
      BY <1>1, <3>1 DEF SealInv, Counted
    <3>3. \A u \in Threads \ {t} : ~At(u, "violation")
      BY <1>1, <2>1, LoggingAlone DEF At, ReadLabels
    <3> QED
      BY <1>1, <2>1, <2>2, <3>2, <3>3 DEF Logging, At
  <2> QED
    BY <1>1, <1>2, <1>4, <2>1, <2>2, <2>3 DEF ReadLabels
<1>16. CASE LogViolationFails(t)
  <2>1. At(t, "violation") /\ Break(t, "datasets") /\ UNCHANGED datasetVars
    BY <1>16 DEF LogViolationFails
  <2>2. call'[t] = Idle /\ "datasets" \in cut'
    BY <1>1, <2>1, BreakGoesOn
  <2> QED
    BY <1>1, <1>2, <1>4, <2>1, <2>2 DEF ReadLabels, Counted, datasetVars
<1> QED
  BY <1>7, <1>8, <1>9, <1>10, <1>11, <1>12, <1>13, <1>14, <1>15, <1>16 DEF DatasetStep

-----------------------------------------------------------------------------
(* The vault.                                                              *)

(* A call that has the entries and is to replace the file found one that   *)
(* opens, and unless it met another call it still does.                    *)
Openable == data = Absent \/ Opens(data)
VaultInv ==
  "vault" \notin overlapped =>
    \A t \in Threads : call[t].at \in {"store", "remove", "open_data"} => Openable

(* What VaultFailsClosed says of a step. *)
FailsClosed ==
  Broken /\ "vault" \notin overlapped' =>
    data' = data /\ \A t \in Threads : call'[t].at # "write_data"

LEMMA VaultAlone ==
  ASSUME CallInv, "vault" \notin overlapped, NEW t \in Threads, NEW u \in Threads,
         call[t].at \in VaultLabels, call[u].at \in WriteLabels
  PROVE  t = u
<1>1. \A v \in Threads : call[v].at \in VaultLabels => "vault" \in Uses[call[v].op] /\ call[v] # Idle
  <2> SUFFICES ASSUME NEW v \in Threads, call[v].at \in VaultLabels
               PROVE  "vault" \in Uses[call[v].op] /\ call[v] # Idle
    OBVIOUS
  <2>1. call[v].at # "idle" /\ Placed(call[v])
    BY DEF CallInv, VaultLabels, VaultBuild
  <2>2. call[v].op \in {"store", "remove", "status", "certify"}
    BY <2>1, Placement
  <2> QED
    BY <2>1, <2>2 DEF Idle, Uses
<1>2. call[u].at \in VaultLabels
  BY DEF VaultLabels, WriteLabels
<1> QED
  BY <1>1, <1>2 DEF CallInv, Alone, Busy

LEMMA PassesByVault ==
  ASSUME VaultInv, NEW t \in Threads, PassesBy(t, WriteLabels), UNCHANGED <<salt, key, data>>
  PROVE  VaultInv' /\ FailsClosed
<1>1. /\ \A u \in Threads \ {t} : call'[u] = call[u]
      /\ call'[t].at \notin WriteLabels /\ overlapped \subseteq overlapped'
  BY DEF PassesBy
<1>2. Openable' = Openable
  BY DEF Openable, Opens, Encrypted, RootKey
<1>3. VaultInv'
  BY <1>1, <1>2 DEF VaultInv, WriteLabels
<1>4. FailsClosed
  BY <1>1 DEF FailsClosed, Broken, At, WriteLabels
<1> QED
  BY <1>3, <1>4

LEMMA VaultStepFailsClosed ==
  ASSUME CallInv, VaultInv, NEW t \in Threads, VaultStep(t)
  PROVE  VaultInv' /\ FailsClosed
<1>1. /\ CallShape /\ \A u \in Threads \ {t} : call'[u] = call[u]
      /\ overlapped \subseteq overlapped' /\ Idle.at = "idle"
  BY VaultPassesBy DEF PassesBy, CallInv, Idle
\* The steps that change no file.
<1>2. ASSUME UNCHANGED <<salt, key, data>>, call'[t].at \notin WriteLabels
      PROVE  VaultInv' /\ FailsClosed
  <2>1. Openable' = Openable
    BY <1>2 DEF Openable, Opens, Encrypted, RootKey
  <2>2. VaultInv'
    BY <1>1, <1>2, <2>1 DEF VaultInv, WriteLabels
  <2>3. FailsClosed
    BY <1>1, <1>2 DEF FailsClosed, Broken, At, WriteLabels
  <2> QED
    BY <2>2, <2>3
\* The steps that change one, and do not go on to write the entries.
<1>3. ASSUME call[t].at \in VaultLabels, call'[t].at \notin {"store", "remove", "open_data"}
      PROVE  VaultInv'
  <2> SUFFICES ASSUME "vault" \notin overlapped'
               PROVE  \A u \in Threads : call'[u].at \notin {"store", "remove", "open_data"}
    BY DEF VaultInv
  <2>1. \A u \in Threads \ {t} : call[u].at \notin WriteLabels
    BY <1>1, <1>3, VaultAlone
  <2> QED
    BY <1>1, <1>3, <2>1 DEF WriteLabels
<1>4. ASSUME call[t].at \in VaultLabels, data' = data, call'[t].at \notin WriteLabels
      PROVE  VaultInv' /\ FailsClosed
  <2>1. VaultInv'
    BY <1>3, <1>4 DEF WriteLabels
  <2>2. FailsClosed
    BY <1>1, <1>4 DEF FailsClosed, Broken, At, WriteLabels
  <2> QED
    BY <2>1, <2>2
\* The steps to the next statement of the writing of the entries.
<1>5. ASSUME UNCHANGED <<salt, key, data>>, call'[t].at # "write_data",
             "vault" \notin overlapped => Openable
      PROVE  VaultInv' /\ FailsClosed
  <2>1. Openable' = Openable
    BY <1>5 DEF Openable, Opens, Encrypted, RootKey
  <2>2. VaultInv'
    BY <1>1, <1>5, <2>1 DEF VaultInv
  <2>3. FailsClosed
    BY <1>1, <1>5 DEF FailsClosed, Broken, At
  <2> QED
    BY <2>2, <2>3
<1>6. ASSUME UNCHANGED <<salt, key, data>>, NEW from, At(t, from), Return(t)
      PROVE  VaultInv' /\ FailsClosed
  <2>1. call'[t] = Idle
    BY <1>1, <1>6, ReturnGoesOn
  <2> QED
    BY <1>1, <1>2, <1>6, <2>1 DEF WriteLabels
<1>7. CASE VaultCall(t)
  <2>1. PICK op \in {"store", "remove", "status"} : Begin(t, op, None, "vault")
    BY <1>7 DEF VaultCall
  <2>2. op \in Operations /\ "vault" \in Labels[op]
    BY OperationsAre DEF Labels, VaultBuild
  <2>3. call'[t] = [op |-> op, arg |-> None, at |-> "vault", local |-> NoLocals]
    BY <2>1, <2>2, BeginKeeps
  <2> QED
    BY <1>2, <1>7, <2>3 DEF VaultCall, vaultVars, WriteLabels
<1>8. CASE GetVault(t)
  <2>1. /\ At(t, "vault") /\ UNCHANGED vaultVars
        /\ Goto(t, "salt") \/ \E values : Assign(t, values, Reads(t))
    BY <1>8 DEF GetVault
  <2>2. call'[t].at \in {"salt", Reads(t)}
    BY <1>1, <2>1, GotoGoesOn, AssignGoesOn
  <2> QED
    BY <1>2, <2>1, <2>2 DEF vaultVars, Reads, WriteLabels
<1>9. CASE LookForSalt(t)
  <2>1. /\ At(t, "salt") /\ UNCHANGED vaultVars
        /\ Goto(t, "open_salt") \/ Goto(t, "key")
    BY <1>9 DEF LookForSalt
  <2>2. call'[t].at \in {"open_salt", "key"}
    BY <1>1, <2>1, GotoGoesOn
  <2> QED
    BY <1>2, <2>1, <2>2 DEF vaultVars, WriteLabels
<1>10. CASE OpenSalt(t)
  <2>1. At(t, "open_salt") /\ Goto(t, "write_salt") /\ data' = data
    BY <1>10 DEF OpenSalt
  <2>2. call'[t].at = "write_salt"
    BY <1>1, <2>1, GotoGoesOn
  <2> QED
    BY <1>4, <2>1, <2>2 DEF At, VaultLabels, VaultBuild, WriteLabels
<1>11. CASE WriteSalt(t)
  <2>1. At(t, "write_salt") /\ Goto(t, "key") /\ data' = data
    BY <1>11 DEF WriteSalt
  <2>2. call'[t].at = "key"
    BY <1>1, <2>1, GotoGoesOn
  <2> QED
    BY <1>4, <2>1, <2>2 DEF At, VaultLabels, VaultBuild, WriteLabels
<1>12. CASE LookForKey(t)
  <2>1. /\ At(t, "key") /\ UNCHANGED vaultVars
        /\ Goto(t, "open_key") \/ Goto(t, "install")
    BY <1>12 DEF LookForKey
  <2>2. call'[t].at \in {"open_key", "install"}
    BY <1>1, <2>1, GotoGoesOn
  <2> QED
    BY <1>2, <2>1, <2>2 DEF vaultVars, WriteLabels
<1>13. CASE OpenKey(t)
  <2>1. At(t, "open_key") /\ Goto(t, "write_key") /\ data' = data
    BY <1>13 DEF OpenKey
  <2>2. call'[t].at = "write_key"
    BY <1>1, <2>1, GotoGoesOn
  <2> QED
    BY <1>4, <2>1, <2>2 DEF At, VaultLabels, VaultBuild, WriteLabels
<1>14. CASE WriteKey(t)
  <2>1. At(t, "write_key") /\ Goto(t, "install") /\ data' = data
    BY <1>14 DEF WriteKey
  <2>2. call'[t].at = "install"
    BY <1>1, <2>1, GotoGoesOn
  <2> QED
    BY <1>4, <2>1, <2>2 DEF At, VaultLabels, VaultBuild, WriteLabels
<1>15. CASE InstallVault(t)
  <2>1. PICK values : At(t, "install") /\ Assign(t, values, Reads(t)) /\ UNCHANGED <<salt, key, data>>
    BY <1>15 DEF InstallVault
  <2>2. call'[t].at = Reads(t)
    BY <1>1, <2>1, AssignGoesOn
  <2> QED
    BY <1>2, <2>1, <2>2 DEF Reads, WriteLabels
<1>16. CASE Load(t)
  <2>1. /\ At(t, "load") /\ UNCHANGED <<salt, key, data>>
        /\ Return(t) \/ (Openable /\ \E values : Assign(t, values, call[t].op))
    <3>1. Loaded(data) # None => Openable
      BY DEF Loaded, Openable
    <3>2. /\ At(t, "load") /\ UNCHANGED <<salt, key, data>>
          /\ \/ Return(t)
             \/ Loaded(data) # None /\ \E values : Assign(t, values, call[t].op)
      BY <1>16 DEF Load, Readings
    <3> QED
      BY <3>1, <3>2
  <2>2. ASSUME NEW values, Assign(t, values, call[t].op), Openable
        PROVE  VaultInv' /\ FailsClosed
    <3>1. call'[t].at = call[t].op
      BY <1>1, <2>1, <2>2, AssignGoesOn
    <3>2. call[t].op \in {"store", "remove", "status"}
      BY <2>1, Placement DEF At, CallInv
    <3> QED
      BY <1>5, <2>1, <2>2, <3>1, <3>2
  <2> QED
    BY <1>6, <2>1, <2>2
<1>17. CASE AnswerStatus(t)
  BY <1>6, <1>17 DEF AnswerStatus, vaultVars
<1>18. CASE StoreEntry(t) \/ RemoveEntry(t)
  <2>1. /\ At(t, "store") \/ At(t, "remove")
        /\ UNCHANGED <<salt, key, data>>
        /\ Return(t) \/ \E values : Assign(t, values, "open_data")
    <3>1. CASE StoreEntry(t)
      BY <3>1 DEF StoreEntry, Encrypt
    <3>2. CASE RemoveEntry(t)
      BY <3>2 DEF RemoveEntry, Encrypt, vaultVars
    <3> QED
      BY <1>18, <3>1, <3>2
  <2>2. ASSUME NEW values, Assign(t, values, "open_data")
        PROVE  VaultInv' /\ FailsClosed
    <3>1. call'[t].at = "open_data"
      BY <1>1, <2>1, <2>2, AssignGoesOn
    <3>2. "vault" \notin overlapped => Openable
      BY <2>1 DEF VaultInv, At
    <3> QED
      BY <1>5, <2>1, <3>1, <3>2
  <2> QED
    BY <1>6, <2>1, <2>2
<1>19. CASE OpenData(t)
  <2>1. At(t, "open_data") /\ Goto(t, "write_data")
    BY <1>19 DEF OpenData
  <2>2. call'[t].at = "write_data"
    BY <1>1, <2>1, GotoGoesOn
  <2>3. FailsClosed
    BY <1>1, <2>1 DEF FailsClosed, VaultInv, Openable, Broken, At
  <2> QED
    BY <1>3, <2>1, <2>2, <2>3 DEF At, VaultLabels
<1>20. CASE WriteData(t)
  <2>1. At(t, "write_data") /\ Return(t)
    BY <1>20 DEF WriteData
  <2>2. call'[t] = Idle
    BY <1>1, <2>1, ReturnGoesOn
  <2>3. FailsClosed
    BY <2>1 DEF FailsClosed, Broken
  <2> QED
    BY <1>1, <1>3, <2>1, <2>2, <2>3 DEF At, VaultLabels
<1>21. CASE VaultWriteFails(t)
  <2>1. PICK from : At(t, from) /\ Break(t, "vault") /\ UNCHANGED vaultVars
    BY <1>21 DEF VaultWriteFails
  <2>2. call'[t] = Idle
    BY <1>1, <2>1, BreakGoesOn
  <2> QED
    BY <1>1, <1>2, <2>1, <2>2 DEF vaultVars, WriteLabels
<1> QED
  BY <1>7, <1>8, <1>9, <1>10, <1>11, <1>12, <1>13, <1>14, <1>15, <1>16, <1>17, <1>18, <1>19,
     <1>20, <1>21 DEF VaultStep

-----------------------------------------------------------------------------
(* The operator's token.                                                   *)

(* What is in memory is the token in the file, or nothing. *)
Remembered == token = None \/ (token = tokenFile /\ tokenFile \in Nat)

(* What a call that came alone knows of the token where it stands. *)
TokenAt(c) ==
  /\ c.at = "token" => Remembered
  /\ c.at = "token_file" => token = None
  /\ c.at \in {"generate", "open_token", "write_token"} /\ "token_read" \notin cut =>
       tokenFile \notin Nat
  /\ c.at \in {"open_token", "write_token"} => token = c.local["text"]
  /\ c.at = "answer_token" => token = tokenFile /\ tokenFile \in Nat

TokenTypes ==
  /\ generated \in Nat
  /\ token \in {None, Torn} \cup 1..generated
  /\ tokenFile \in {Absent, Torn} \cup 1..generated
  /\ given \subseteq {None, Torn} \cup 1..generated

TokenText(c) ==
  c.at \in {"open_token", "write_token"} => Has(c, "text") /\ c.local["text"] \in 1..generated

TokenInv ==
  /\ TokenTypes /\ \A t \in Threads : TokenText(call[t])
  /\ "token" \notin overlapped \cup cut =>
       /\ "token_read" \notin cut => given \subseteq {tokenFile} \cap Nat
       /\ (\A t \in Threads : call[t].at \notin TokenLabels) => Remembered
       /\ \A t \in Threads : TokenAt(call[t])

LEMMA PassesByToken ==
  ASSUME TokenInv, NEW t \in Threads, PassesBy(t, TokenLabels), UNCHANGED tokenVars
  PROVE  TokenInv'
<1>1. /\ \A u \in Threads \ {t} : call'[u] = call[u]
      /\ call[t].at \notin TokenLabels /\ call'[t].at \notin TokenLabels
      /\ overlapped \subseteq overlapped' /\ cut \subseteq cut'
  BY DEF PassesBy
<1>2. token' = token /\ tokenFile' = tokenFile /\ generated' = generated /\ given' = given
  BY DEF tokenVars
<1>3. \A u \in Threads : TokenText(call[u])'
  BY <1>1, <1>2 DEF TokenInv, TokenTypes, TokenText, TokenLabels, Labels, Has
<1>4. TokenTypes' /\ Remembered' = Remembered
  BY <1>2 DEF TokenInv, TokenTypes, Remembered
<1>5. "token" \notin overlapped \cup cut => \A u \in Threads : TokenAt(call[u])'
  BY <1>1, <1>2, <1>4 DEF TokenInv, TokenAt, TokenLabels, Labels
<1> QED
  BY <1>1, <1>2, <1>3, <1>4, <1>5 DEF TokenInv

LEMMA TokenStepKeeps ==
  ASSUME CallInv, TokenInv, NEW t \in Threads, TokenStep(t)
  PROVE  TokenInv'
<1>1. /\ CallShape /\ \A u \in Threads \ {t} : call'[u] = call[u]
      /\ overlapped \subseteq overlapped' /\ cut \subseteq cut' /\ CallInv'
      /\ TokenTypes /\ TokenText(call[t]) /\ None \notin Nat /\ Torn \notin Nat /\ Absent \notin Nat
      /\ None # Torn /\ Absent # Torn
  BY TokenPassesBy, CallsAssumption DEF PassesBy, CallInv, TokenInv
<1>2. "token" \notin overlapped \cup cut =>
        /\ "token_read" \notin cut => given \subseteq {tokenFile} \cap Nat
        /\ TokenAt(call[t])
  BY DEF TokenInv
\* Nobody else is at the token, unless two calls were.
<1>3. ASSUME call[t].at \in TokenLabels \/ call'[t].at \in TokenLabels,
             "token" \notin overlapped' \cup cut'
      PROVE  \A u \in Threads \ {t} : call'[u].at \notin TokenLabels
  <2>1. OneAt("token", TokenLabels) /\ OneAt("token", TokenLabels)'
    BY <1>1, OneAtATime, OneAtATimeNext
  <2>2. TokenLabels' = TokenLabels
    BY DEF TokenLabels, Labels
  <2> QED
    BY <1>1, <1>3, <2>1, <2>2 DEF OneAt
\* What is left to show of a step.
<1>4. ASSUME call[t].at \in TokenLabels \/ call'[t].at \in TokenLabels,
             TokenTypes', generated <= generated', TokenText(call[t])',
             "token" \notin overlapped' \cup cut' =>
               /\ "token_read" \notin cut' => given' \subseteq {tokenFile'} \cap Nat
               /\ TokenAt(call[t])'
               /\ call'[t].at \notin TokenLabels => Remembered'
      PROVE  TokenInv'
  <2>1. \A u \in Threads : TokenText(call[u])'
    BY <1>1, <1>4 DEF TokenInv, TokenText, TokenTypes, Has
  <2>2. "token" \notin overlapped' \cup cut' => \A u \in Threads : TokenAt(call[u])'
    BY <1>3, <1>4 DEF TokenAt, TokenLabels, Labels
  <2>3. "token" \notin overlapped' \cup cut' =>
          ((\A u \in Threads : call[u].at \notin TokenLabels) => Remembered)'
    BY <1>4 DEF TokenLabels, Labels
  <2> QED
    BY <1>4, <2>1, <2>2, <2>3 DEF TokenInv
<1> USE DEF TokenLabels, Labels, TokenTypes
<1>5. CASE GetToken(t)
  <2>1. "token" \in Operations
    BY OperationsAre
  <2>2. /\ call[t] = Idle /\ overlapped \subseteq overlapped' /\ cut' = cut
        /\ call'[t] = [op |-> "token", arg |-> None, at |-> "token", local |-> NoLocals]
    BY <1>5, <2>1, BeginKeeps DEF GetToken
  <2>3. "token" \notin overlapped' \cup cut' => Remembered
    <3> SUFFICES ASSUME "token" \notin overlapped' \cup cut' PROVE Remembered
      OBVIOUS
    <3>1. \A u \in Threads \ {t} : call[u].at \notin TokenLabels
      BY <1>1, <1>3, <2>2
    <3>2. call[t].at = "idle"
      BY <2>2 DEF Idle
    <3> QED
      BY <1>1, <3>1, <3>2 DEF TokenInv
  <2> QED
    BY <1>1, <1>2, <1>4, <1>5, <2>2, <2>3 DEF GetToken, tokenVars, TokenText, TokenAt, Remembered
<1>6. CASE LookInMemory(t)
  <2>1. /\ At(t, "token") /\ UNCHANGED tokenVars
        /\ Goto(t, IF token = None THEN "token_file" ELSE "answer_token")
    BY <1>6 DEF LookInMemory
  <2>2. Moves(t, IF token = None THEN "token_file" ELSE "answer_token", call[t].local) /\ cut' = cut
    BY <1>1, <2>1, GotoMoves
  <2> QED
    BY <1>1, <1>2, <1>4, <2>1, <2>2 DEF At, Moves, tokenVars, TokenText, TokenAt, Remembered
<1>7. CASE LookInFile(t)
  <2>1. At(t, "token_file") /\ tokenFile' = tokenFile /\ generated' = generated /\ given' = given
    BY <1>7 DEF LookInFile
  <2>2. CASE tokenFile \in {Absent, Torn} /\ token' \in {token, None, Torn} /\ Goto(t, "generate")
    <3>1. Moves(t, "generate", call[t].local) /\ cut' = cut
      BY <1>1, <2>2, GotoMoves
    <3> QED
      BY <1>1, <1>2, <1>4, <2>1, <2>2, <3>1 DEF At, Moves, TokenText, TokenAt
  <2>3. CASE tokenFile \notin {Absent, Torn} /\ token' = tokenFile /\ Goto(t, "answer_token")
    <3>1. Moves(t, "answer_token", call[t].local) /\ cut' = cut
      BY <1>1, <2>3, GotoMoves
    <3> QED
      BY <1>1, <1>2, <1>4, <2>1, <2>3, <3>1 DEF At, Moves, TokenText, TokenAt
  <2> QED
    BY <1>7, <2>2, <2>3 DEF LookInFile
<1>8. CASE Generate(t)
  <2>1. PICK values : /\ At(t, "generate") /\ generated' = generated + 1 /\ token' = generated'
                      /\ values = [text |-> generated'] /\ Assign(t, values, "open_token")
                      /\ tokenFile' = tokenFile /\ given' = given
    BY <1>8 DEF Generate
  <2>2. Moves(t, "open_token", Updated(call[t].local, values)) /\ cut' = cut
    BY <1>1, <2>1, AssignMoves
  <2>3. "text" \in DOMAIN values /\ values["text"] = generated'
    BY <2>1
  <2>4. Has(call[t], "text")' /\ call'[t].local["text"] = generated' /\ call'[t].at = "open_token"
    BY <2>2, <2>3, UpdatedAt DEF Moves, Has
  <2> QED
    BY <1>1, <1>2, <1>4, <2>1, <2>2, <2>4 DEF At, Moves, TokenText, TokenAt
<1>9. CASE OpenTokenFile(t)
  <2>1. /\ At(t, "open_token") /\ tokenFile' = Torn /\ Goto(t, "write_token")
        /\ token' = token /\ generated' = generated /\ given' = given
    BY <1>9 DEF OpenTokenFile
  <2>2. Moves(t, "write_token", call[t].local) /\ cut' = cut
    BY <1>1, <2>1, GotoMoves
  <2> QED
    BY <1>1, <1>2, <1>4, <2>1, <2>2 DEF At, Moves, TokenText, TokenAt, Has
<1>10. CASE WriteTokenFile(t)
  <2>1. /\ At(t, "write_token") /\ tokenFile' = call[t].local["text"] /\ Goto(t, "answer_token")
        /\ token' = token /\ generated' = generated /\ given' = given
    BY <1>10 DEF WriteTokenFile, Local
  <2>2. Moves(t, "answer_token", call[t].local) /\ cut' = cut
    BY <1>1, <2>1, GotoMoves
  <2> QED
    BY <1>1, <1>2, <1>4, <2>1, <2>2 DEF At, Moves, TokenText, TokenAt, Has
<1>11. CASE TokenNotSaved(t)
  <2>1. /\ At(t, "open_token") \/ At(t, "write_token")
        /\ Spoil(t, "token", "answer_token") /\ UNCHANGED tokenVars
    BY <1>11 DEF TokenNotSaved
  <2>2. Moves(t, "answer_token", call[t].local) /\ cut' = cut \cup {"token"}
    BY <1>1, <2>1, SpoilMoves
  <2> QED
    BY <1>1, <1>4, <2>1, <2>2 DEF At, Moves, TokenText, tokenVars
<1>12. CASE AnswerToken(t)
  <2>1. /\ At(t, "answer_token") /\ given' = given \cup {token} /\ Return(t)
        /\ token' = token /\ tokenFile' = tokenFile /\ generated' = generated
    BY <1>12 DEF AnswerToken
  <2>2. Ends(t) /\ cut' = cut
    BY <1>1, <2>1, ReturnEnds
  <2> QED
    BY <1>1, <1>2, <1>4, <2>1, <2>2 DEF At, Ends, TokenText, TokenAt, Remembered
<1>13. CASE TokenUnread(t)
  <2>1. /\ At(t, "token_file") /\ tokenFile # Absent
        /\ Spoil(t, "token_read", "generate") /\ UNCHANGED tokenVars
    BY <1>13 DEF TokenUnread
  <2>2. Moves(t, "generate", call[t].local) /\ cut' = cut \cup {"token_read"}
    BY <1>1, <2>1, SpoilMoves
  <2> QED
    BY <1>1, <1>4, <2>1, <2>2 DEF At, Moves, TokenText, TokenAt, tokenVars
<1> QED
  BY <1>5, <1>6, <1>7, <1>8, <1>9, <1>10, <1>11, <1>12, <1>13 DEF TokenStep

LEMMA CrashKeepsToken ==
  ASSUME CallInv, TokenInv, Crash
  PROVE  TokenInv'
<1>1. /\ overlapped' = overlapped /\ cut \subseteq cut' /\ \A t \in Threads : call'[t].at = "idle"
  BY CrashKeeps DEF Idle
<1>2. token' = None /\ tokenFile' = tokenFile /\ generated' = generated /\ given' = given
  BY DEF Crash, TokenForgotten
<1>3. TokenTypes' /\ Remembered'
  BY <1>2 DEF TokenInv, TokenTypes, Remembered
<1>4. \A t \in Threads : TokenText(call[t])' /\ TokenAt(call[t])'
  BY <1>1 DEF TokenText, TokenAt
<1> QED
  BY <1>1, <1>2, <1>3, <1>4 DEF TokenInv

(* The token of a caller outlasts the process: TokenLasts. *)
LEMMA TokenInvLasts == CallInv /\ TokenInv => TokenLasts
<1> SUFFICES ASSUME CallInv, TokenInv, Undisturbed("token")
             PROVE  /\ "token_read" \notin cut => given \subseteq {tokenFile} \ {Torn}
                    /\ Quiet("token") => token \in {None, tokenFile}
  BY DEF TokenLasts
<1>1. ("token_read" \notin cut => given \subseteq {tokenFile} \cap Nat) /\ Torn \notin Nat
  BY CallsAssumption DEF TokenInv, Undisturbed
<1>2. ASSUME Quiet("token") PROVE Remembered
  <2>1. \A t \in Threads : call[t].at \notin TokenLabels
    BY <1>2, UsesAt DEF Quiet, Busy, CallInv
  <2> QED
    BY <2>1 DEF TokenInv, Undisturbed
<1> QED
  BY <1>1, <1>2 DEF Remembered

-----------------------------------------------------------------------------
(* The datasets' files and rows.                                           *)

(* A call about to insert a row has written its file, and one about to     *)
(* seal a dataset found it listed.                                         *)
Filed(c) ==
  /\ c.at = "insert_dataset" => Has(c, "dataset") /\ c.local["dataset"] \in files
  /\ c.at = "seal" => c.arg \in listed

FilesInv == DatasetsWhole /\ sealed \subseteq listed /\ \A t \in Threads : Filed(call[t])

LEMMA PassesByFiles ==
  ASSUME FilesInv, NEW t \in Threads, PassesBy(t, {"insert_dataset", "seal"}), UNCHANGED datasetVars
  PROVE  FilesInv'
BY DEF PassesBy, FilesInv, DatasetsWhole, Filed, Has, datasetVars

LEMMA DatasetStepKeepsFiles ==
  ASSUME CallInv, FilesInv, NEW t \in Threads, DatasetStep(t)
  PROVE  FilesInv'
<1>1. /\ CallShape /\ \A u \in Threads \ {t} : call'[u] = call[u]
      /\ listed \subseteq files /\ sealed \subseteq listed /\ Filed(call[t])
  BY DatasetPassesBy DEF PassesBy, CallInv, FilesInv, DatasetsWhole
<1>2. ASSUME files \subseteq files', listed \subseteq listed', listed' \subseteq files',
             sealed' \subseteq listed', Filed(call[t])'
      PROVE  FilesInv'
  BY <1>1, <1>2 DEF FilesInv, DatasetsWhole, Filed, Has
\* The steps that go on to neither statement, and change at most the counts.
<1>3. ASSUME UNCHANGED <<files, listed, sealed>>, call'[t].at \notin {"insert_dataset", "seal"}
      PROVE  FilesInv'
  BY <1>1, <1>2, <1>3 DEF Filed
<1>4. ASSUME UNCHANGED <<files, listed, sealed>>,
             Return(t) \/ (\E part : Break(t, part)) \/ Goto(t, "violation") \/ Goto(t, "read")
               \/ (\E values : Assign(t, values, "dataset") \/ Assign(t, values, "load_dataset"))
      PROVE  FilesInv'
  <2>1. ASSUME NEW to, Goto(t, to) PROVE call'[t].at = to
    BY <1>1, <2>1, GotoMoves DEF Moves
  <2>2. ASSUME NEW to, NEW values, Assign(t, values, to) PROVE call'[t].at = to
    BY <1>1, <2>2, AssignMoves DEF Moves
  <2>3. ASSUME Return(t) \/ (\E part : Break(t, part)) PROVE call'[t].at = "idle"
    BY <1>1, <2>3, ReturnEnds, BreakEnds DEF Ends
  <2> QED
    BY <1>3, <1>4, <2>1, <2>2, <2>3
<1>5. CASE DatasetCall(t)
  <2>1. ASSUME NEW op \in {"register", "seal", "research"}, NEW arg,
               NEW label \in {"parquet", "seal", "registry"}, label \in Labels[op],
               op = "seal" => arg \in listed, Begin(t, op, arg, label)
        PROVE  FilesInv'
    <3>1. call'[t] = [op |-> op, arg |-> arg, at |-> label, local |-> NoLocals]
      BY <2>1, OperationsAre, BeginKeeps
    <3> QED
      BY <1>1, <1>2, <1>5, <2>1, <3>1 DEF DatasetCall, datasetVars, Filed, Labels, RegistryBuild
  <2>2. CASE Begin(t, "register", None, "parquet")
    BY <2>1, <2>2 DEF Labels
  <2>3. ASSUME NEW d \in listed, Begin(t, "seal", d, "seal") PROVE FilesInv'
    BY <2>1, <2>3 DEF Labels
  <2>4. CASE Begin(t, "research", None, "registry")
    BY <2>1, <2>4 DEF Labels, RegistryBuild
  <2> QED
    BY <1>5, <2>2, <2>3, <2>4 DEF DatasetCall
<1>6. CASE WriteParquet(t)
  <2>1. PICK d, values :
          /\ values = [dataset |-> d] /\ files' = files \cup {d} /\ Assign(t, values, "insert_dataset")
          /\ listed' = listed /\ sealed' = sealed
    BY <1>6 DEF WriteParquet
  <2>2. Moves(t, "insert_dataset", Updated(call[t].local, values))
    BY <1>1, <2>1, AssignMoves
  <2>3. "dataset" \in DOMAIN values /\ values["dataset"] = d
    BY <2>1
  <2>4. Has(call[t], "dataset")' /\ call'[t].local["dataset"] = d /\ call'[t].at = "insert_dataset"
    BY <2>2, <2>3, UpdatedAt DEF Moves, Has
  <2> QED
    BY <1>1, <1>2, <2>1, <2>4 DEF Filed
<1>7. CASE InsertDataset(t)
  <2>1. /\ At(t, "insert_dataset") /\ Goto(t, "manifest") /\ files' = files
        /\ listed' = listed \cup {call[t].local["dataset"]}
        /\ sealed' \in {sealed, sealed \cup {call[t].local["dataset"]}}
    BY <1>7 DEF InsertDataset, Local
  <2>2. call'[t].at = "manifest"
    BY <1>1, <2>1, GotoMoves DEF Moves
  <2> QED
    BY <1>1, <1>2, <2>1, <2>2 DEF Filed, At
<1>8. CASE SealDataset(t)
  <2>1. /\ At(t, "seal") /\ sealed' = sealed \cup {call[t].arg} /\ Return(t)
        /\ files' = files /\ listed' = listed
    BY <1>8 DEF SealDataset
  <2>2. call'[t].at = "idle"
    BY <1>1, <2>1, ReturnEnds DEF Ends
  <2> QED
    BY <1>1, <1>2, <2>1, <2>2 DEF Filed, At
<1>9. CASE InsertDatasetFails(t) \/ ManifestRaises(t) \/ ReadParquet(t)
  BY <1>4, <1>9 DEF InsertDatasetFails, ManifestRaises, ReadParquet, datasetVars
<1>10. CASE FindStrategy(t) \/ FindDataset(t)
  BY <1>4, <1>10 DEF FindStrategy, FindDataset, datasetVars
<1>11. CASE LoadDataset(t)
  BY <1>4, <1>11 DEF LoadDataset
<1>12. CASE LogViolation(t)
  BY <1>4, <1>12 DEF LogViolation
<1>13. CASE LogViolationFails(t)
  BY <1>4, <1>13 DEF LogViolationFails, datasetVars
<1> QED
  BY <1>5, <1>6, <1>7, <1>8, <1>9, <1>10, <1>11, <1>12, <1>13 DEF DatasetStep

LEMMA CrashKeepsFiles ==
  ASSUME CallInv, FilesInv, Crash
  PROVE  FilesInv'
<1>1. \A t \in Threads : call'[t].at = "idle"
  BY CrashKeeps DEF Idle
<1>2. UNCHANGED datasetVars
  BY DEF Crash
<1> QED
  BY <1>1, <1>2 DEF FilesInv, DatasetsWhole, Filed, datasetVars

-----------------------------------------------------------------------------
(* The strategies' rows and versions.                                      *)

NextOf(c) == c.local["next"]

(* The instance thread t builds holds the first i builtins, and they have  *)
(* their rows.                                                             *)
Known(i, t) == \A j \in 1..i : Builtins[j] \in held[t] /\ strategyRow[Builtins[j]] # None

(* Where a call stands, whatever the others do. *)
RegistryAt(c) ==
  /\ c.at \in {"register", "insert_strategy", "insert_version"} =>
       Has(c, "next") /\ NextOf(c) \in 1..(Len(Builtins) + 1)
  /\ c.at \in {"insert_strategy", "insert_version"} => NextOf(c) \in 1..Len(Builtins)
  /\ c.at = "insert_version" => strategyRow[Builtins[NextOf(c)]] # None
  /\ c.at = "freeze_version" => Has(c, "strategy") /\ c.local["strategy"] \in Strategies
  /\ c.at = "certify" => registry # None

(* What thread t's call, if it came alone, has done of its pair of writes  *)
(* and of the builtins.                                                    *)
BuildAt(c, t) ==
  /\ c.at \in {"register", "insert_strategy", "insert_version"} => Known(NextOf(c) - 1, t)
  /\ c.at \in {"insert_strategy", "insert_version"} => Builtins[NextOf(c)] \in held[t]
  /\ c.at = "insert_strategy" => strategyRow[Builtins[NextOf(c)]] = None
  /\ c.at = "insert_version" =>
       strategyRow[Builtins[NextOf(c)]] = "DRAFT" /\ versionRow[Builtins[NextOf(c)]] = None
  /\ c.at = "install_registry" => Known(Len(Builtins), t)
  /\ c.at = "freeze_version" =>
       \/ versionRow[c.local["strategy"]] = None /\ strategyRow[c.local["strategy"]] = None
       \/ versionRow[c.local["strategy"]] # None /\ strategyRow[c.local["strategy"]] = "FROZEN"

(* The call is between the two writes of s. *)
HalfWritten(c, s) ==
  \/ c.at = "insert_version" /\ Builtins[NextOf(c)] = s
  \/ c.at = "freeze_version" /\ c.local["strategy"] = s

Matched(s) ==
  /\ strategyRow[s] = None <=> versionRow[s] = None
  /\ strategyRow[s] = "FROZEN" <=> versionRow[s] = "frozen"

RegistryInv ==
  /\ StrategyTypeOK
  /\ \A s \in Strategies : versionRow[s] # None => strategyRow[s] # None
  /\ \A t \in Threads : RegistryAt(call[t])
  /\ "strategies" \notin overlapped \cup cut =>
       /\ \A t \in Threads : BuildAt(call[t], t)
       /\ \A s \in Strategies : Matched(s) \/ \E t \in Threads : HalfWritten(call[t], s)
       /\ registry # None => Known(Len(Builtins), registry)

LEMMA BuiltinsAre ==
  /\ Len(Builtins) \in Nat /\ \A i \in 1..Len(Builtins) : Builtins[i] \in Strategies
  /\ \A s \in Strategies : \E i \in 1..Len(Builtins) : s = Builtins[i]
<1>1. Builtins \in Seq(Range(Builtins))
  BY BuiltinsAssumption
<1>2. Len(Builtins) \in Nat /\ DOMAIN Builtins = 1..Len(Builtins)
  BY <1>1
<1> QED
  BY <1>2 DEF Strategies, Range

LEMMA PassesByRegistry ==
  ASSUME RegistryInv, NEW t \in Threads, PassesBy(t, StrategyLabels \ {"registry"}),
         call'[t].at # "certify", UNCHANGED strategyVars
  PROVE  RegistryInv'
<1>1. /\ \A u \in Threads \ {t} : call'[u] = call[u]
      /\ call[t].at \notin StrategyLabels \ {"registry"}
      /\ call'[t].at \notin StrategyLabels \ {"registry"}
      /\ overlapped \subseteq overlapped' /\ cut \subseteq cut'
  BY DEF PassesBy
<1>2. registry' = registry /\ held' = held /\ strategyRow' = strategyRow /\ versionRow' = versionRow
  BY DEF strategyVars
<1>3. StrategyTypeOK' /\ \A s \in Strategies : versionRow'[s] # None => strategyRow'[s] # None
  BY <1>2 DEF RegistryInv, StrategyTypeOK
<1>4. \A u \in Threads : RegistryAt(call[u])'
  BY <1>1, <1>2 DEF RegistryInv, RegistryAt, NextOf, Has, StrategyLabels, RegistryBuild
<1>5. \A i, u : Known(i, u)' = Known(i, u)
  BY <1>2 DEF Known
<1>6. ASSUME "strategies" \notin overlapped' \cup cut'
      PROVE  \A u \in Threads : BuildAt(call[u], u)'
  <2> SUFFICES ASSUME NEW u \in Threads PROVE BuildAt(call[u], u)'
    OBVIOUS
  <2>1. BuildAt(call[u], u)
    BY <1>1, <1>6 DEF RegistryInv
  <2>2. CASE u = t
    BY <1>1, <2>2 DEF BuildAt, StrategyLabels, RegistryBuild
  <2>3. CASE u # t
    BY <1>1, <1>2, <1>5, <2>1, <2>3 DEF BuildAt, NextOf
  <2> QED
    BY <2>2, <2>3
<1>7. ASSUME "strategies" \notin overlapped' \cup cut'
      PROVE  (\A s \in Strategies : Matched(s) \/ \E u \in Threads : HalfWritten(call[u], s))'
  <2>1. \A s \in Strategies : Matched(s)' = Matched(s)
    BY <1>2 DEF Matched
  <2>2. \A s \in Strategies : \A u \in Threads : HalfWritten(call[u], s) => HalfWritten(call[u], s)'
    BY <1>1 DEF HalfWritten, NextOf, StrategyLabels, RegistryBuild
  <2> QED
    BY <1>1, <1>7, <2>1, <2>2 DEF RegistryInv
<1> QED
  BY <1>1, <1>2, <1>3, <1>4, <1>5, <1>6, <1>7 DEF RegistryInv

(* A table or memory entry that changes at one place. *)
LEMMA EntryChange ==
  ASSUME NEW S, NEW T, NEW f \in [S -> T], NEW s \in S, NEW v \in T, NEW g, g = [f EXCEPT ![s] = v]
  PROVE  g \in [S -> T] /\ g[s] = v /\ \A r \in S \ {s} : g[r] = f[r]
OBVIOUS

LEMMA StrategyStepKeepsRegistry ==
  ASSUME CallInv, RegistryInv, NEW t \in Threads, StrategyStep(t)
  PROVE  RegistryInv'
<1>1. /\ CallShape /\ \A u \in Threads \ {t} : call'[u] = call[u]
      /\ overlapped \subseteq overlapped' /\ cut \subseteq cut' /\ CallInv'
      /\ StrategyTypeOK /\ RegistryAt(call[t]) /\ None \notin Threads
      /\ None \notin {"DRAFT", "FROZEN", "open", "frozen"}
      /\ \A s \in Strategies : versionRow[s] # None => strategyRow[s] # None
  BY StrategyPassesBy, CallsAssumption, BuiltinsAssumption DEF PassesBy, CallInv, RegistryInv
<1>2. "strategies" \notin overlapped \cup cut =>
        BuildAt(call[t], t) /\ (registry # None => Known(Len(Builtins), registry))
  BY DEF RegistryInv
\* Nobody else is at the strategies, unless two calls were.
<1>3. ASSUME call[t].at \in StrategyLabels \/ call'[t].at \in StrategyLabels,
             "strategies" \notin overlapped' \cup cut'
      PROVE  /\ \A u \in Threads \ {t} : call[u].at \notin StrategyLabels
             /\ \A s \in Strategies : Matched(s) \/ HalfWritten(call[t], s)
  <2>1. /\ OneAt("strategies", StrategyLabels \cup {"research", "certify"})
        /\ OneAt("strategies", StrategyLabels \cup {"research", "certify"})'
    BY <1>1, OneAtATime, OneAtATimeNext
  <2>2. StrategyLabels' = StrategyLabels
    BY DEF StrategyLabels, RegistryBuild
  <2>3. \A u \in Threads \ {t} : call[u].at \notin StrategyLabels
    BY <1>1, <1>3, <2>1, <2>2 DEF OneAt
  <2>4. \A s \in Strategies : \A u \in Threads \ {t} : ~HalfWritten(call[u], s)
    <3>1. \A u \in Threads \ {t} : call[u].at \notin {"insert_version", "freeze_version"}
      BY <2>3 DEF StrategyLabels, RegistryBuild
    <3> QED
      BY <3>1 DEF HalfWritten
  <2>5. \A s \in Strategies : Matched(s) \/ \E u \in Threads : HalfWritten(call[u], s)
    <3>1. "strategies" \notin overlapped \cup cut
      BY <1>1, <1>3
    <3> QED
      BY <3>1 DEF RegistryInv
  <2> QED
    BY <2>3, <2>4, <2>5
\* What is left to show of a step.
<1>4. ASSUME call[t].at \in StrategyLabels \/ call'[t].at \in StrategyLabels,
             StrategyTypeOK', RegistryAt(call[t])', registry # None => registry' # None,
             \A s \in Strategies : strategyRow[s] # None => strategyRow'[s] # None,
             \A s \in Strategies : versionRow'[s] # None => strategyRow'[s] # None,
             "strategies" \notin overlapped' \cup cut' =>
               /\ BuildAt(call[t], t)'
               /\ \A s \in Strategies : Matched(s)' \/ HalfWritten(call[t], s)'
               /\ registry' # None => Known(Len(Builtins), registry)'
      PROVE  RegistryInv'
  <2>1. \A u \in Threads : RegistryAt(call[u])'
    <3> SUFFICES ASSUME NEW u \in Threads \ {t} PROVE RegistryAt(call[u])'
      BY <1>4
    <3>1. RegistryAt(call[u]) /\ call'[u] = call[u]
      BY <1>1 DEF RegistryInv
    <3>2. call[u].at = "insert_version" => Builtins[NextOf(call[u])] \in Strategies
      BY <3>1, BuiltinsAre DEF RegistryAt
    <3> QED
      BY <1>4, <3>1, <3>2 DEF RegistryAt, Has, NextOf
  <2>2. "strategies" \notin overlapped' \cup cut' => \A u \in Threads : BuildAt(call[u], u)'
    BY <1>1, <1>3, <1>4 DEF BuildAt, StrategyLabels, RegistryBuild
  <2> QED
    BY <1>4, <2>1, <2>2 DEF RegistryInv
<1> USE DEF StrategyLabels, RegistryBuild
\* A step that changes neither table: known builtins stay known.
<1>5. ASSUME strategyRow' = strategyRow, versionRow' = versionRow
      PROVE  /\ \A s \in Strategies : Matched(s)' = Matched(s)
             /\ \A s \in Strategies : versionRow'[s] # None => strategyRow'[s] # None
             /\ \A i, u : held[u] \subseteq held'[u] /\ Known(i, u) => Known(i, u)'
  BY <1>1, <1>5 DEF Matched, Known
<1>6. ASSUME UNCHANGED strategyVars
      PROVE  /\ \A s \in Strategies : Matched(s)' = Matched(s)
             /\ \A s \in Strategies : versionRow'[s] # None => strategyRow'[s] # None
             /\ \A i, u : Known(i, u) => Known(i, u)'
             /\ StrategyTypeOK' /\ registry' = registry /\ strategyRow' = strategyRow
  BY <1>1, <1>5, <1>6 DEF strategyVars, StrategyTypeOK
<1>7. CASE StrategyCall(t)
  <2>1. PICK op \in {"consult", "freeze"} : Begin(t, op, None, "registry") /\ UNCHANGED strategyVars
    BY <1>7 DEF StrategyCall
  <2>2. op \in Operations /\ "registry" \in Labels[op]
    BY OperationsAre DEF Labels
  <2>3. /\ call[t] = Idle /\ cut' = cut
        /\ call'[t] = [op |-> op, arg |-> None, at |-> "registry", local |-> NoLocals]
    BY <2>1, <2>2, BeginKeeps
  <2>4. call'[t].at = "registry" /\ call[t].at = "idle"
    BY <2>3 DEF Idle
  <2>5. RegistryAt(call[t])' /\ BuildAt(call[t], t)' /\ \A s \in Strategies : ~HalfWritten(call[t], s)
    BY <2>4 DEF RegistryAt, BuildAt, HalfWritten
  <2> QED
    BY <1>1, <1>2, <1>3, <1>4, <1>6, <2>1, <2>4, <2>5
<1>8. CASE GetRegistry(t)
  <2>1. At(t, "registry") /\ registry' = registry /\ strategyRow' = strategyRow
        /\ versionRow' = versionRow
    BY <1>8 DEF GetRegistry
  <2>2. \A s \in Strategies : ~HalfWritten(call[t], s)
    BY <2>1 DEF HalfWritten, At
  <2>3. ASSUME registry = None, NEW values, values = [next |-> 1], Assign(t, values, "register"),
               held' = [held EXCEPT ![t] = {}]
        PROVE  RegistryInv'
    <3>1. Moves(t, "register", Updated(call[t].local, values)) /\ cut' = cut
      BY <1>1, <2>3, AssignMoves
    <3>2. "next" \in DOMAIN values /\ values["next"] = 1
      BY <2>3
    <3>3. call'[t].at = "register" /\ Has(call[t], "next")' /\ NextOf(call[t])' = 1
      BY <3>1, <3>2, UpdatedAt DEF Moves, Has, NextOf
    <3>4. StrategyTypeOK'
      BY <1>1, <2>1, <2>3 DEF StrategyTypeOK
    <3>5. RegistryAt(call[t])'
      BY <3>3, BuiltinsAre DEF RegistryAt
    <3>6. BuildAt(call[t], t)'
      <4>1. Known(0, t)' /\ NextOf(call[t])' - 1 = 0
        BY <3>3 DEF Known
      <4> QED
        BY <3>3, <4>1 DEF BuildAt
    <3> QED
      BY <1>1, <1>3, <1>4, <1>5, <2>1, <2>2, <2>3, <3>1, <3>4, <3>5, <3>6 DEF Moves, At
  <2>4. ASSUME registry # None, Goto(t, call[t].op), held' = held
        PROVE  RegistryInv'
    <3>1. Moves(t, call[t].op, call[t].local) /\ cut' = cut
      BY <1>1, <2>4, GotoMoves
    <3>2. call[t].op \in {"consult", "freeze", "research", "certify"}
      BY <2>1, Placement DEF At, CallInv
    <3>3. RegistryAt(call[t])' /\ BuildAt(call[t], t)'
      BY <2>1, <2>4, <3>1, <3>2 DEF Moves, RegistryAt, BuildAt
    <3>4. UNCHANGED strategyVars
      BY <2>1, <2>4 DEF strategyVars
    <3> QED
      BY <1>1, <1>2, <1>3, <1>4, <1>6, <2>1, <2>2, <3>1, <3>3, <3>4 DEF Moves, At
  <2> QED
    BY <1>8, <2>3, <2>4 DEF GetRegistry
<1>9. CASE Register(t)
  <2> DEFINE b == Builtins[NextOf(call[t])]
  <2>1. /\ At(t, "register") /\ registry' = registry /\ strategyRow' = strategyRow
        /\ versionRow' = versionRow
    BY <1>9 DEF Register
  <2>2. /\ Has(call[t], "next") /\ NextOf(call[t]) \in 1..(Len(Builtins) + 1)
        /\ \A s \in Strategies : ~HalfWritten(call[t], s)
    BY <1>1, <2>1 DEF RegistryAt, HalfWritten, At
  <2>3. "strategies" \notin overlapped \cup cut => Known(NextOf(call[t]) - 1, t)
    BY <1>2, <2>1 DEF BuildAt, At
  <2>4. ASSUME ~(NextOf(call[t]) <= Len(Builtins)), Goto(t, "install_registry"), held' = held
        PROVE  RegistryInv'
    <3>1. Moves(t, "install_registry", call[t].local) /\ cut' = cut
      BY <1>1, <2>4, GotoMoves
    <3>2. NextOf(call[t]) - 1 = Len(Builtins)
      BY <2>2, <2>4, BuiltinsAre
    <3>3. UNCHANGED strategyVars
      BY <2>1, <2>4 DEF strategyVars
    <3>4. "strategies" \notin overlapped \cup cut => Known(Len(Builtins), t)'
      BY <1>6, <2>3, <3>2, <3>3
    <3>5. RegistryAt(call[t])' /\ ("strategies" \notin overlapped \cup cut => BuildAt(call[t], t)')
      BY <3>1, <3>4 DEF Moves, RegistryAt, BuildAt
    <3> QED
      BY <1>1, <1>2, <1>3, <1>4, <1>6, <2>1, <2>2, <3>1, <3>3, <3>5 DEF Moves, At
  \* The builtin goes into memory, and then its row is looked for.
  <2>5. ASSUME NextOf(call[t]) <= Len(Builtins), held' = [held EXCEPT ![t] = @ \cup {b}]
        PROVE  RegistryInv'
    <3>1. /\ NextOf(call[t]) \in 1..Len(Builtins) /\ b \in Strategies
      BY <2>2, <2>5, BuiltinsAre
    <3>2. /\ held' \in [Threads -> SUBSET Strategies] /\ b \in held'[t]
          /\ \A u \in Threads : held[u] \subseteq held'[u]
      BY <1>1, <2>5, <3>1 DEF StrategyTypeOK
    <3>3. StrategyTypeOK'
      BY <1>1, <2>1, <3>2 DEF StrategyTypeOK
    <3>4. \A i : \A u \in Threads : Known(i, u) => Known(i, u)'
      BY <1>5, <2>1, <3>2
    <3> PICK n : n = NextOf(call[t])
      OBVIOUS
    <3>5. ASSUME "strategies" \notin overlapped \cup cut
          PROVE  /\ Known(n - 1, t)'
                 /\ registry' # None => Known(Len(Builtins), registry)'
      BY <1>1, <1>2, <2>1, <2>3, <3>4, <3>5 DEF StrategyTypeOK
    <3>6. ASSUME strategyRow[b] = None, Goto(t, "insert_strategy") PROVE RegistryInv'
      <4>1. Moves(t, "insert_strategy", call[t].local) /\ cut' = cut
        BY <1>1, <3>6, GotoMoves
      <4>2. call'[t].at = "insert_strategy" /\ NextOf(call[t])' = NextOf(call[t])
            /\ Has(call[t], "next")'
        BY <2>2, <4>1 DEF Moves, NextOf, Has
      <4>3. RegistryAt(call[t])'
        BY <2>2, <3>1, <4>2 DEF RegistryAt
      <4>4. "strategies" \notin overlapped \cup cut => BuildAt(call[t], t)'
        BY <2>1, <3>2, <3>5, <3>6, <4>2 DEF BuildAt
      <4> QED
        BY <1>1, <1>3, <1>4, <1>5, <2>1, <2>2, <3>3, <3>5, <4>1, <4>3, <4>4 DEF Moves, At
    <3>7. ASSUME strategyRow[b] # None, NEW values, values = [next |-> NextOf(call[t]) + 1],
                 Assign(t, values, "register")
          PROVE  RegistryInv'
      <4>1. Moves(t, "register", Updated(call[t].local, values)) /\ cut' = cut
        BY <1>1, <3>7, AssignMoves
      <4>2. "next" \in DOMAIN values /\ values["next"] = NextOf(call[t]) + 1
        BY <3>7
      <4>3. call'[t].at = "register" /\ Has(call[t], "next")' /\ NextOf(call[t])' = NextOf(call[t]) + 1
        BY <4>1, <4>2, UpdatedAt DEF Moves, NextOf, Has
      <4>4. RegistryAt(call[t])'
        BY <3>1, <4>3, BuiltinsAre DEF RegistryAt
      <4>5. NextOf(call[t])' - 1 = n
        BY <3>1, <4>3, BuiltinsAre
      <4>6. "strategies" \notin overlapped \cup cut => Known(n, t)'
        <5>1. \A j \in 1..n : j \in 1..(n - 1) \/ j = n
          BY <3>1, BuiltinsAre
        <5> QED
          BY <2>1, <3>2, <3>5, <3>7, <5>1 DEF Known
      <4>7. "strategies" \notin overlapped \cup cut => BuildAt(call[t], t)'
        BY <4>3, <4>5, <4>6 DEF BuildAt
      <4> QED
        BY <1>1, <1>3, <1>4, <1>5, <2>1, <2>2, <3>3, <3>5, <4>1, <4>4, <4>7 DEF Moves, At
    <3> QED
      BY <1>9, <2>5, <3>6, <3>7 DEF Register, Remaining, NextBuiltin, Local, NextOf
  <2> QED
    BY <1>9, <2>4, <2>5 DEF Register, Remaining, NextBuiltin, Local, NextOf
<1>10. CASE InsertStrategy(t)
  <2> DEFINE b == Builtins[NextOf(call[t])]
  <2>1. At(t, "insert_strategy") /\ registry' = registry /\ held' = held /\ versionRow' = versionRow
    BY <1>10 DEF InsertStrategy
  <2>2. /\ Has(call[t], "next") /\ NextOf(call[t]) \in 1..Len(Builtins) /\ b \in Strategies
        /\ \A s \in Strategies : ~HalfWritten(call[t], s)
    BY <1>1, <2>1, BuiltinsAre DEF RegistryAt, HalfWritten, At
  <2>3. "strategies" \notin overlapped \cup cut =>
          strategyRow[b] = None /\ Known(NextOf(call[t]) - 1, t) /\ b \in held[t]
    BY <1>2, <2>1 DEF BuildAt, At
  <2>4. ASSUME strategyRow[b] # None, Goto(t, "install_registry"), strategyRow' = strategyRow
        PROVE  RegistryInv'
    <3>1. Moves(t, "install_registry", call[t].local) /\ cut' = cut
      BY <1>1, <2>4, GotoMoves
    <3>2. UNCHANGED strategyVars
      BY <2>1, <2>4 DEF strategyVars
    <3> QED
      BY <1>1, <1>4, <1>6, <2>1, <2>3, <2>4, <3>1, <3>2 DEF Moves, At, RegistryAt
  <2>5. ASSUME strategyRow[b] = None, Goto(t, "insert_version"),
               strategyRow' = [strategyRow EXCEPT ![b] = "DRAFT"]
        PROVE  RegistryInv'
    <3>1. Moves(t, "insert_version", call[t].local) /\ cut' = cut
      BY <1>1, <2>5, GotoMoves
    <3>2. /\ strategyRow' \in [Strategies -> {None, "DRAFT", "FROZEN"}] /\ strategyRow'[b] = "DRAFT"
          /\ \A s \in Strategies \ {b} : strategyRow'[s] = strategyRow[s]
      BY <1>1, <2>2, <2>5, EntryChange DEF StrategyTypeOK
    <3>3. StrategyTypeOK'
      BY <1>1, <2>1, <3>2 DEF StrategyTypeOK
    <3>4. /\ call'[t].at = "insert_version" /\ NextOf(call[t])' = NextOf(call[t])
          /\ Has(call[t], "next")'
      BY <2>2, <3>1 DEF Moves, NextOf, Has
    <3>5. RegistryAt(call[t])'
      BY <1>1, <2>2, <3>2, <3>4, BuiltinsAre DEF RegistryAt
    <3>6. /\ \A s \in Strategies : strategyRow[s] # None => strategyRow'[s] # None
          /\ \A s \in Strategies : versionRow'[s] # None => strategyRow'[s] # None
      BY <1>1, <2>1, <3>2
    <3>7. ASSUME NEW u \in Threads, NEW i \in Nat, i <= Len(Builtins), Known(i, u)
          PROVE  Known(i, u)'
      BY <2>1, <3>6, <3>7, BuiltinsAre DEF Known
    <3>8. ASSUME "strategies" \notin overlapped' \cup cut'
          PROVE  /\ BuildAt(call[t], t)'
                 /\ \A s \in Strategies : Matched(s)' \/ HalfWritten(call[t], s)'
                 /\ registry' # None => Known(Len(Builtins), registry)'
      <4>1. Known(NextOf(call[t]) - 1, t)'
        BY <1>1, <2>2, <2>3, <3>4, <3>7, <3>8, BuiltinsAre
      <4>2. \A s \in Strategies : Matched(s)
        BY <1>3, <2>1, <2>2, <3>8 DEF At
      <4>3. BuildAt(call[t], t)'
        BY <1>1, <2>1, <2>2, <2>3, <2>5, <3>2, <3>4, <3>8, <4>1, <4>2 DEF BuildAt, Matched
      <4>4. \A s \in Strategies : Matched(s)' \/ HalfWritten(call[t], s)'
        BY <2>1, <3>2, <3>4, <4>2 DEF Matched, HalfWritten
      <4>5. registry' # None => Known(Len(Builtins), registry)'
        BY <1>1, <1>2, <2>1, <3>7, <3>8, BuiltinsAre DEF StrategyTypeOK
      <4> QED
        BY <4>3, <4>4, <4>5
    <3> QED
      BY <1>4, <2>1, <3>3, <3>5, <3>6, <3>8 DEF At
  <2> QED
    BY <1>10, <2>4, <2>5 DEF InsertStrategy, NextBuiltin, Local, NextOf
<1>11. CASE InsertVersion(t)
  <2> DEFINE b == Builtins[NextOf(call[t])]
  <2>1. PICK values :
          /\ At(t, "insert_version") /\ registry' = registry /\ held' = held
          /\ strategyRow' = strategyRow /\ versionRow' = [versionRow EXCEPT ![b] = "open"]
          /\ values = [next |-> NextOf(call[t]) + 1] /\ Assign(t, values, "register")
    BY <1>11 DEF InsertVersion, NextBuiltin, Local, NextOf
  <2>2. /\ NextOf(call[t]) \in 1..Len(Builtins) /\ b \in Strategies /\ strategyRow[b] # None
    BY <1>1, <2>1, BuiltinsAre DEF RegistryAt, At
  <2>3. Moves(t, "register", Updated(call[t].local, values)) /\ cut' = cut
    BY <1>1, <2>1, AssignMoves
  <2>4. "next" \in DOMAIN values /\ values["next"] = NextOf(call[t]) + 1
    BY <2>1
  <2>5. call'[t].at = "register" /\ Has(call[t], "next")' /\ NextOf(call[t])' = NextOf(call[t]) + 1
    BY <2>3, <2>4, UpdatedAt DEF Moves, NextOf, Has
  <2>6. /\ versionRow' \in [Strategies -> {None, "open", "frozen"}] /\ versionRow'[b] = "open"
        /\ \A s \in Strategies \ {b} : versionRow'[s] = versionRow[s]
    BY <1>1, <2>1, <2>2, EntryChange DEF StrategyTypeOK
  <2>7. StrategyTypeOK'
    BY <1>1, <2>1, <2>6 DEF StrategyTypeOK
  <2>8. RegistryAt(call[t])' /\ NextOf(call[t])' - 1 = NextOf(call[t])
    BY <2>2, <2>5, BuiltinsAre DEF RegistryAt
  <2>9. \A s \in Strategies : versionRow'[s] # None => strategyRow'[s] # None
    BY <1>1, <2>1, <2>2, <2>6
  <2>10. \A i, u : Known(i, u)' = Known(i, u)
    BY <2>1 DEF Known
  <2>11. ASSUME "strategies" \notin overlapped' \cup cut'
         PROVE  /\ BuildAt(call[t], t)'
                /\ \A s \in Strategies : Matched(s)' \/ HalfWritten(call[t], s)'
                /\ registry' # None => Known(Len(Builtins), registry)'
    <3>1. Known(NextOf(call[t]) - 1, t) /\ b \in held[t] /\ strategyRow[b] = "DRAFT"
      BY <1>1, <1>2, <2>1, <2>11 DEF BuildAt, At
    <3>2. Known(NextOf(call[t]), t)
      BY <2>2, <3>1, BuiltinsAre DEF Known
    <3>3. BuildAt(call[t], t)'
      BY <2>5, <2>8, <2>10, <3>2 DEF BuildAt
    <3>4. \A s \in Strategies \ {b} : Matched(s)
      BY <1>3, <2>1, <2>11 DEF HalfWritten, At
    <3>5. \A s \in Strategies : Matched(s)'
      BY <1>1, <2>1, <2>6, <3>1, <3>4 DEF Matched
    <3> QED
      BY <1>1, <1>2, <2>1, <2>10, <2>11, <3>3, <3>5
  <2> QED
    BY <1>4, <2>1, <2>7, <2>8, <2>9, <2>11 DEF At
<1>12. CASE RegisterFails(t)
  <2>1. /\ At(t, "insert_strategy") \/ At(t, "insert_version")
        /\ Spoil(t, "strategies", "install_registry") /\ UNCHANGED strategyVars
    BY <1>12 DEF RegisterFails
  <2>2. Moves(t, "install_registry", call[t].local) /\ "strategies" \in cut'
    BY <1>1, <2>1, SpoilMoves
  <2> QED
    BY <1>1, <1>4, <1>6, <2>1, <2>2 DEF Moves, At, RegistryAt
<1>13. CASE InstallRegistry(t)
  <2>1. /\ At(t, "install_registry") /\ registry' = t /\ Goto(t, call[t].op) /\ held' = held
        /\ strategyRow' = strategyRow /\ versionRow' = versionRow
    BY <1>13 DEF InstallRegistry
  <2>2. Moves(t, call[t].op, call[t].local) /\ cut' = cut
    BY <1>1, <2>1, GotoMoves
  <2>3. call[t].op \in {"consult", "freeze", "research", "certify"}
    BY <2>1, Placement DEF At, CallInv
  <2>4. RegistryAt(call[t])' /\ BuildAt(call[t], t)' /\ \A s \in Strategies : ~HalfWritten(call[t], s)
    BY <1>1, <2>1, <2>2, <2>3 DEF Moves, RegistryAt, BuildAt, HalfWritten, At
  <2>5. StrategyTypeOK'
    BY <1>1, <2>1 DEF StrategyTypeOK
  <2>6. "strategies" \notin overlapped \cup cut => Known(Len(Builtins), t)'
    BY <1>2, <1>5, <2>1 DEF BuildAt, At
  <2> QED
    BY <1>1, <1>3, <1>4, <1>5, <2>1, <2>2, <2>4, <2>5, <2>6 DEF Moves, At
<1>14. CASE ListStrategies(t) \/ Promote(t)
  <2>1. At(t, "consult") /\ Return(t) /\ UNCHANGED strategyVars
    BY <1>14 DEF ListStrategies, Promote
  <2>2. Ends(t) /\ cut' = cut
    BY <1>1, <2>1, ReturnEnds
  <2>3. RegistryAt(call[t])' /\ BuildAt(call[t], t)' /\ \A s \in Strategies : ~HalfWritten(call[t], s)
    BY <2>1, <2>2 DEF Ends, RegistryAt, BuildAt, HalfWritten, At
  <2> QED
    BY <1>1, <1>2, <1>3, <1>4, <1>6, <2>1, <2>2, <2>3 DEF Ends, At
<1>15. CASE Freeze(t)
  <2>1. PICK s, status, values :
          /\ s \in Strategies /\ At(t, "freeze") /\ registry' = registry /\ held' = held
          /\ versionRow' = versionRow
          /\ status = IF strategyRow[s] = None THEN None ELSE "FROZEN"
          /\ strategyRow' = [strategyRow EXCEPT ![s] = status]
          /\ values = [strategy |-> s] /\ Assign(t, values, "freeze_version")
    BY <1>1, <1>15 DEF Freeze, StrategyTypeOK
  <2>2. Moves(t, "freeze_version", Updated(call[t].local, values)) /\ cut' = cut
    BY <1>1, <2>1, AssignMoves
  <2>3. "strategy" \in DOMAIN values /\ values["strategy"] = s
    BY <2>1
  <2>4. call'[t].at = "freeze_version" /\ Has(call[t], "strategy")' /\ call'[t].local["strategy"] = s
    BY <2>2, <2>3, UpdatedAt DEF Moves, Has
  <2>5. /\ strategyRow' \in [Strategies -> {None, "DRAFT", "FROZEN"}] /\ strategyRow'[s] = status
        /\ \A r \in Strategies \ {s} : strategyRow'[r] = strategyRow[r]
    BY <1>1, <2>1, EntryChange DEF StrategyTypeOK
  <2>6. StrategyTypeOK'
    BY <1>1, <2>1, <2>5 DEF StrategyTypeOK
  <2>7. RegistryAt(call[t])'
    BY <2>1, <2>4 DEF RegistryAt
  <2>8. \A r \in Strategies : strategyRow'[r] = None <=> strategyRow[r] = None
    BY <1>1, <2>1, <2>5
  <2>9. \A r \in Strategies : versionRow'[r] # None => strategyRow'[r] # None
    BY <1>1, <2>1, <2>8
  <2>10. ASSUME "strategies" \notin overlapped' \cup cut'
         PROVE  /\ BuildAt(call[t], t)'
                /\ \A r \in Strategies : Matched(r)' \/ HalfWritten(call[t], r)'
                /\ registry' # None => Known(Len(Builtins), registry)'
    <3>1. \A r \in Strategies : Matched(r)
      BY <1>3, <2>1, <2>10 DEF HalfWritten, At
    <3>2. BuildAt(call[t], t)'
      BY <2>1, <2>4, <2>5, <3>1 DEF BuildAt, Matched
    <3>3. \A r \in Strategies : Matched(r)' \/ HalfWritten(call[t], r)'
      BY <2>1, <2>4, <2>5, <3>1 DEF Matched, HalfWritten
    <3>4. registry' # None => Known(Len(Builtins), registry)'
      BY <1>1, <1>2, <2>1, <2>8, <2>10, BuiltinsAre DEF Known
    <3> QED
      BY <3>2, <3>3, <3>4
  <2> QED
    BY <1>4, <2>1, <2>6, <2>7, <2>8, <2>9, <2>10 DEF At
<1>16. CASE FreezeVersion(t)
  <2>1. PICK s, status :
          /\ At(t, "freeze_version") /\ registry' = registry /\ held' = held
          /\ strategyRow' = strategyRow /\ s = call[t].local["strategy"]
          /\ status = IF versionRow[s] = None THEN None ELSE "frozen"
          /\ versionRow' = [versionRow EXCEPT ![s] = status] /\ Return(t)
    BY <1>1, <1>16 DEF FreezeVersion, Local, RegistryAt, At, StrategyTypeOK
  <2>2. s \in Strategies
    BY <1>1, <2>1 DEF RegistryAt, At
  <2>3. Ends(t) /\ cut' = cut
    BY <1>1, <2>1, ReturnEnds
  <2>4. /\ versionRow' \in [Strategies -> {None, "open", "frozen"}] /\ versionRow'[s] = status
        /\ \A r \in Strategies \ {s} : versionRow'[r] = versionRow[r]
    BY <1>1, <2>1, <2>2, EntryChange DEF StrategyTypeOK
  <2>5. StrategyTypeOK'
    BY <1>1, <2>1, <2>4 DEF StrategyTypeOK
  <2>6. RegistryAt(call[t])' /\ BuildAt(call[t], t)'
    BY <2>3 DEF Ends, RegistryAt, BuildAt
  <2>7. \A r \in Strategies : versionRow'[r] # None => strategyRow'[r] # None
    BY <1>1, <2>1, <2>4
  <2>8. ASSUME "strategies" \notin overlapped' \cup cut'
        PROVE  \A r \in Strategies : Matched(r)'
    <3>1. \A r \in Strategies \ {s} : Matched(r)
      BY <1>3, <2>1, <2>8 DEF HalfWritten, At
    <3>2. \/ versionRow[s] = None /\ strategyRow[s] = None
          \/ versionRow[s] # None /\ strategyRow[s] = "FROZEN"
      BY <1>1, <1>2, <2>1, <2>8 DEF BuildAt, At
    <3> QED
      BY <1>1, <2>1, <2>4, <3>1, <3>2 DEF Matched
  <2>9. \A i, u : Known(i, u)' = Known(i, u)
    BY <2>1 DEF Known
  <2> QED
    BY <1>1, <1>2, <1>4, <2>1, <2>5, <2>6, <2>7, <2>8, <2>9 DEF At
<1>17. CASE FreezeFails(t)
  <2>1. At(t, "freeze_version") /\ Break(t, "strategies") /\ UNCHANGED strategyVars
    BY <1>17 DEF FreezeFails
  <2>2. Ends(t) /\ "strategies" \in cut'
    BY <1>1, <2>1, BreakEnds
  <2> QED
    BY <1>1, <1>4, <1>6, <2>1, <2>2 DEF Ends, At, RegistryAt
<1>18. CASE LookupFails(t)
  <2> DEFINE b == Builtins[NextOf(call[t])]
  <2>1. /\ At(t, "register") /\ NextOf(call[t]) <= Len(Builtins)
        /\ held' = [held EXCEPT ![t] = @ \cup {b}]
        /\ Spoil(t, "strategies", "install_registry")
        /\ registry' = registry /\ strategyRow' = strategyRow /\ versionRow' = versionRow
    BY <1>18 DEF LookupFails, Remaining, NextBuiltin, Local, NextOf
  <2>2. Moves(t, "install_registry", call[t].local) /\ "strategies" \in cut'
    BY <1>1, <2>1, SpoilMoves
  <2>3. NextOf(call[t]) \in 1..Len(Builtins)
    BY <1>1, <2>1, BuiltinsAre DEF RegistryAt, At
  <2>4. b \in Strategies
    BY <2>3, BuiltinsAre
  <2>5. StrategyTypeOK'
    BY <1>1, <2>1, <2>4 DEF StrategyTypeOK
  <2> QED
    BY <1>1, <1>4, <1>5, <2>1, <2>2, <2>5 DEF Moves, At, RegistryAt
<1> QED
  BY <1>7, <1>8, <1>9, <1>10, <1>11, <1>12, <1>13, <1>14, <1>15, <1>16, <1>17, <1>18
     DEF StrategyStep

LEMMA CrashKeepsRegistry ==
  ASSUME CallInv, RegistryInv, Crash
  PROVE  RegistryInv'
<1>1. /\ overlapped' = overlapped /\ cut \subseteq cut' /\ \A t \in Threads : call'[t].at = "idle"
      /\ \A t \in Busy : Half(t) \subseteq cut'
  BY CrashKeeps DEF Idle
<1>2. /\ registry' = None /\ held' = [t \in Threads |-> {}]
      /\ strategyRow' = strategyRow /\ versionRow' = versionRow
  BY DEF Crash, RegistryForgotten
<1>3. StrategyTypeOK' /\ \A s \in Strategies : versionRow'[s] # None => strategyRow'[s] # None
  BY <1>2 DEF RegistryInv, StrategyTypeOK
<1>4. \A t \in Threads : RegistryAt(call[t])' /\ BuildAt(call[t], t)'
  BY <1>1 DEF RegistryAt, BuildAt
<1>5. ASSUME "strategies" \notin overlapped' \cup cut', NEW s \in Strategies
      PROVE  Matched(s)'
  <2>1. \A t \in Threads : ~HalfWritten(call[t], s)
    <3> SUFFICES ASSUME NEW t \in Threads, HalfWritten(call[t], s) PROVE FALSE
      OBVIOUS
    <3>1. call[t].at \in {"insert_version", "freeze_version"}
      BY DEF HalfWritten
    <3>2. t \in Busy
      BY <3>1 DEF Busy, Idle
    <3>3. "strategies" \in Half(t)
      BY <3>1 DEF Half, WritesStrategies, At
    <3> QED
      BY <1>1, <1>5, <3>2, <3>3
  <2>2. Matched(s)
    BY <1>1, <1>5, <2>1 DEF RegistryInv
  <2> QED
    BY <1>2, <2>2 DEF Matched
<1> QED
  BY <1>1, <1>2, <1>3, <1>4, <1>5 DEF RegistryInv

(* BuiltinsComplete: what the registry built alone has is whole. *)
LEMMA RegistryInvComplete == CallInv /\ RegistryInv => BuiltinsComplete
<1> SUFFICES ASSUME CallInv, RegistryInv, Undisturbed("strategies"), Quiet("strategies"),
                    registry # None, NEW s \in Strategies
             PROVE  /\ s \in held[registry] /\ strategyRow[s] # None /\ versionRow[s] # None
                    /\ strategyRow[s] = "FROZEN" <=> versionRow[s] = "frozen"
  BY DEF BuiltinsComplete, RegistryInv
<1>1. \A t \in Threads : call[t].at \notin StrategyLabels
  BY UsesAt DEF Quiet, Busy, CallInv
<1>2. \A t \in Threads : ~HalfWritten(call[t], s)
  BY <1>1 DEF HalfWritten, StrategyLabels, RegistryBuild
<1>3. Matched(s) /\ Known(Len(Builtins), registry)
  BY <1>2 DEF RegistryInv, Undisturbed
<1> QED
  BY <1>3, BuiltinsAre DEF Matched, Known

-----------------------------------------------------------------------------
(* What the vault keeps.                                                   *)

HasRoot == salt # Absent /\ key # Absent
WholeRoot == salt \in Threads /\ key \in Threads
Kept == IF data = Absent THEN expected = {} ELSE Opens(data) /\ data.holds = expected

(* What the credentials are once call c has written its change. *)
Stored(c) ==
  IF c.op = "store" THEN expected \cup {c.local["exchange"]} ELSE expected \ {c.local["exchange"]}

(* Where a call stands, whatever the others do. *)
VaultAt(c) ==
  /\ c.at \in {"write_salt", "key", "open_key", "write_key"} => salt # Absent
  /\ c.at = "write_key" => key # Absent
  /\ c.at \in {"install", "load", "store", "remove"} => HasRoot
  /\ c.at \in {"load", "store", "remove"} => Has(c, "self") /\ c.local["self"] \in Threads
  /\ c.at \in {"store", "remove"} => Has(c, "entries") /\ c.local["entries"] \in SUBSET Exchanges
  /\ c.at \in {"open_data", "write_data"} =>
       /\ Has(c, "payload") /\ c.local["payload"] \in Encrypted
       /\ Has(c, "exchange") /\ c.local["exchange"] \in Exchanges

(* What the files are where a call stands that came alone. *)
KeepAt(c) ==
  /\ c.at \in {"open_salt", "write_salt", "open_key", "write_key"} => data = Absent /\ vault = None
  /\ c.at = "open_salt" => salt = Absent
  /\ c.at = "write_salt" => salt = Torn
  /\ c.at \in {"key", "open_key", "write_key"} => salt \in Threads
  /\ c.at = "open_key" => key = Absent
  /\ c.at = "write_key" => key = Torn
  /\ c.at \in {"install", "load", "store", "remove", "open_data", "write_data"} => WholeRoot
  /\ c.at \in {"store", "remove"} => c.local["entries"] = expected
  /\ c.at \in {"open_data", "write_data"} =>
       c.local["payload"] = [holds |-> Stored(c), under |-> RootKey]
  /\ c.at = "write_data" => data = Torn

(* The vault where c is the only call that can be at it. *)
Keeps(c) ==
  /\ salt = Torn => c.at = "write_salt"
  /\ key = Torn => c.at = "write_key"
  /\ data # Absent \/ vault # None => WholeRoot
  /\ c.at # "write_data" => Kept
  /\ KeepAt(c)

VaultWork == VaultLabels \ {"vault"}
AtVault == {t \in Threads : call[t].at \in VaultWork}

KeepInv ==
  /\ VaultTypeOK /\ (vault # None => HasRoot)
  /\ \A t \in Threads : VaultAt(call[t])
  /\ "vault" \notin overlapped \cup cut =>
       /\ AtVault = {} => Keeps(Idle)
       /\ \A t \in AtVault : Keeps(call[t])

(* A call that is not at the vault might as well be over. *)
LEMMA KeepsElsewhere ==
  ASSUME NEW c, c.at \notin VaultWork
  PROVE  Keeps(c) <=> Keeps(Idle)
<1>1. Idle.at = "idle"
  BY DEF Idle
<1>2. KeepAt(c) /\ KeepAt(Idle)
  BY <1>1 DEF KeepAt, VaultWork, VaultLabels, VaultBuild
<1>3. c.at \notin {"write_salt", "write_key", "write_data"}
  BY DEF VaultWork, VaultLabels, VaultBuild
<1> QED
  BY <1>1, <1>2, <1>3 DEF Keeps

LEMMA PassesByKeep ==
  ASSUME KeepInv, NEW t \in Threads, PassesBy(t, VaultWork),
         UNCHANGED <<salt, key, data, vault, expected>>, sick' \subseteq Threads
  PROVE  KeepInv'
<1>1. /\ \A u \in Threads \ {t} : call'[u] = call[u]
      /\ call[t].at \notin VaultWork /\ call'[t].at \notin VaultWork
      /\ overlapped \subseteq overlapped' /\ cut \subseteq cut'
  BY DEF PassesBy
<1>2. VaultTypeOK' /\ (vault' # None => HasRoot')
  BY DEF KeepInv, VaultTypeOK, Encrypted, HasRoot
<1>3. \A u \in Threads : VaultAt(call[u])'
  BY <1>1 DEF KeepInv, VaultAt, HasRoot, Has, Encrypted, VaultWork, VaultLabels, VaultBuild
<1>4. AtVault' = AtVault
  BY <1>1 DEF AtVault, VaultWork, VaultLabels, VaultBuild
<1>5. ASSUME NEW c, Keeps(c) PROVE Keeps(c)'
  BY <1>5 DEF Keeps, Kept, KeepAt, WholeRoot, Stored, RootKey, Opens, Encrypted
<1>6. ASSUME "vault" \notin overlapped' \cup cut'
      PROVE  (AtVault = {} => Keeps(Idle))' /\ \A u \in AtVault : Keeps(call[u])'
  <2>1. AtVault = {} => Keeps(Idle)'
    BY <1>1, <1>5, <1>6 DEF KeepInv
  <2>2. ASSUME NEW u \in AtVault PROVE Keeps(call[u])'
    <3>1. Keeps(call[u]) /\ call'[u] = call[u]
      BY <1>1, <1>6 DEF KeepInv, AtVault
    <3> QED
      BY <1>6, <3>1 DEF Keeps, Kept, KeepAt, WholeRoot, Stored, RootKey, Opens, Encrypted
  <2> QED
    BY <1>4, <2>1, <2>2
<1> QED
  BY <1>2, <1>3, <1>4, <1>6 DEF KeepInv

LEMMA VaultStepKeeps ==
  ASSUME CallInv, KeepInv, NEW t \in Threads, VaultStep(t)
  PROVE  KeepInv'
<1>1. /\ CallShape /\ \A u \in Threads \ {t} : call'[u] = call[u]
      /\ overlapped \subseteq overlapped' /\ cut \subseteq cut' /\ CallInv'
      /\ VaultTypeOK /\ (vault # None => HasRoot) /\ VaultAt(call[t]) /\ Placed(call[t])
      /\ {None, Absent, Torn} \cap Threads = {} /\ Absent # Torn /\ Idle.at = "idle"
  BY VaultPassesBy, CallsAssumption DEF PassesBy, CallInv, KeepInv, Idle
\* Nobody else is at the vault, unless two calls were.
<1>2. ASSUME call[t].at \in VaultLabels \/ call'[t].at \in VaultLabels,
             "vault" \notin overlapped' \cup cut'
      PROVE  (\A u \in Threads \ {t} : call[u].at \notin VaultWork) /\ Keeps(call[t])
  <2>1. /\ OneAt("vault", VaultLabels \cup CertificationLabels)
        /\ OneAt("vault", VaultLabels \cup CertificationLabels)'
    BY <1>1, OneAtATime, OneAtATimeNext
  <2>2. VaultLabels' = VaultLabels
    BY DEF VaultLabels, VaultBuild
  <2>3. \A u \in Threads \ {t} : call[u].at \notin VaultWork
    BY <1>1, <1>2, <2>1, <2>2 DEF OneAt, VaultWork
  <2>4. Keeps(call[t])
    BY <1>1, <1>2, <2>3, KeepsElsewhere DEF KeepInv, AtVault
  <2> QED
    BY <2>3, <2>4
\* What is left to show of a step.
<1>3. ASSUME call[t].at \in VaultLabels \/ call'[t].at \in VaultLabels,
             VaultTypeOK', (vault # None => HasRoot)', VaultAt(call[t])',
             salt # Absent => salt' # Absent, key # Absent => key' # Absent,
             "vault" \notin overlapped' \cup cut' => Keeps(call[t])'
      PROVE  KeepInv'
  <2>1. \A u \in Threads : VaultAt(call[u])'
    BY <1>1, <1>3 DEF KeepInv, VaultAt, HasRoot, Has, Encrypted
  <2>2. ASSUME "vault" \notin overlapped' \cup cut'
        PROVE  (AtVault = {} => Keeps(Idle))' /\ \A u \in AtVault' : Keeps(call[u])'
    <3>1. AtVault' \subseteq {t} /\ (t \notin AtVault' => call'[t].at \notin VaultWork)
      BY <1>1, <1>2, <1>3, <2>2 DEF AtVault, VaultWork, VaultLabels, VaultBuild
    <3>2. call'[t].at \notin VaultWork => (Keeps(call[t])' <=> Keeps(Idle)')
      BY <1>1 DEF Keeps, KeepAt, VaultWork, VaultLabels, VaultBuild
    <3> QED
      BY <1>3, <2>2, <3>1, <3>2
  <2> QED
    BY <1>3, <2>1, <2>2 DEF KeepInv
<1> USE DEF VaultLabels, VaultBuild, HasRoot, WholeRoot
\* The steps that change no file.
<1>4. ASSUME UNCHANGED <<salt, key, data, expected>>
      PROVE  Kept' = Kept /\ RootKey' = RootKey /\ \A c : Stored(c)' = Stored(c)
  BY <1>4 DEF Kept, Opens, Encrypted, RootKey, Stored
<1>5. ASSUME call[t].at \in VaultLabels, UNCHANGED vaultVars, VaultAt(call[t])',
             "vault" \notin overlapped' \cup cut' =>
               /\ KeepAt(call[t])' /\ call[t].at # "write_data"
               /\ salt = Torn => call'[t].at = "write_salt"
               /\ key = Torn => call'[t].at = "write_key"
      PROVE  KeepInv'
  BY <1>1, <1>2, <1>3, <1>4, <1>5 DEF vaultVars, VaultTypeOK, Encrypted, Keeps
<1>6. ASSUME call[t].at \in VaultLabels, UNCHANGED vaultVars, Return(t),
             call[t].at \notin {"write_salt", "write_key", "write_data"}
      PROVE  KeepInv'
  <2>1. Ends(t) /\ cut' = cut
    BY <1>1, <1>6, ReturnEnds
  <2>2. VaultAt(call[t])' /\ KeepAt(call[t])'
    BY <2>1 DEF Ends, VaultAt, KeepAt
  <2> QED
    BY <1>1, <1>2, <1>5, <1>6, <2>1, <2>2 DEF Ends, Keeps
\* A call that ends with or without the error state.
<1>26. ASSUME call[t].at \in VaultLabels \ {"write_salt", "write_key", "write_data"},
              UNCHANGED <<salt, key, data, vault, expected>>, Return(t), NEW s \in Threads,
              sick' = sick \/ sick' = sick \cup {s}
       PROVE  KeepInv'
  <2>1. Ends(t) /\ cut' = cut
    BY <1>1, <1>26, ReturnEnds
  <2>2. VaultAt(call[t])' /\ KeepAt(call[t])'
    BY <2>1 DEF Ends, VaultAt, KeepAt
  <2>3. VaultTypeOK' /\ (vault # None => HasRoot)'
    BY <1>1, <1>26 DEF VaultTypeOK, Encrypted
  <2>4. ASSUME "vault" \notin overlapped' \cup cut' PROVE Keeps(call[t])'
    <3>1. Keeps(call[t]) /\ Kept' = Kept
      BY <1>2, <1>4, <1>26, <2>4
    <3> QED
      BY <1>26, <2>1, <2>2, <3>1 DEF Ends, Keeps
  <2> QED
    BY <1>3, <1>26, <2>2, <2>3, <2>4
<1>7. CASE VaultCall(t)
  <2>1. PICK op \in {"store", "remove", "status"} : Begin(t, op, None, "vault") /\ UNCHANGED vaultVars
    BY <1>7 DEF VaultCall
  <2>2. op \in Operations /\ "vault" \in Labels[op]
    BY OperationsAre DEF Labels
  <2>3. call[t].at = "idle" /\ call'[t].at = "vault" /\ cut' = cut
    <3>1. /\ call[t] = Idle /\ cut' = cut
          /\ call'[t] = [op |-> op, arg |-> None, at |-> "vault", local |-> NoLocals]
      BY <2>1, <2>2, BeginKeeps
    <3> QED
      BY <1>1, <3>1
  <2>4. VaultAt(call[t])' /\ KeepAt(call[t])'
    BY <2>3 DEF VaultAt, KeepAt
  <2> QED
    BY <1>1, <1>2, <1>3, <1>4, <2>1, <2>3, <2>4 DEF vaultVars, VaultTypeOK, Encrypted, Keeps
<1>8. CASE GetVault(t)
  <2>1. At(t, "vault") /\ UNCHANGED vaultVars
    BY <1>8 DEF GetVault
  <2>2. CASE Goto(t, "salt")
    <3>1. Moves(t, "salt", call[t].local) /\ cut' = cut
      BY <1>1, <2>2, GotoMoves
    <3> QED
      BY <1>1, <1>2, <1>5, <2>1, <3>1 DEF At, Moves, VaultAt, KeepAt, Keeps
  <2>3. ASSUME vault # None, NEW values, values = [self |-> vault], Assign(t, values, Reads(t))
        PROVE  KeepInv'
    <3>1. Moves(t, Reads(t), Updated(call[t].local, values)) /\ cut' = cut
      BY <1>1, <2>3, AssignMoves
    <3>2. "self" \in DOMAIN values /\ values["self"] = vault
      BY <2>3
    <3>3. call'[t].at \in {"health", "load"} /\ Has(call[t], "self")' /\ call'[t].local["self"] = vault
      BY <3>1, <3>2, UpdatedAt DEF Moves, Has, Reads
    <3>4. vault' = vault /\ salt' = salt /\ key' = key /\ vault \in Threads
      BY <1>1, <2>1, <2>3 DEF vaultVars, VaultTypeOK
    <3>5. VaultAt(call[t])'
      BY <1>1, <2>3, <3>3, <3>4 DEF VaultAt
    <3>6. "vault" \notin overlapped' \cup cut' => KeepAt(call[t])' /\ WholeRoot
      BY <1>1, <1>2, <2>1, <2>3, <3>3, <3>4 DEF At, Keeps, KeepAt
    <3> QED
      BY <1>1, <1>5, <2>1, <3>5, <3>6 DEF At
  <2> QED
    BY <1>8, <2>2, <2>3 DEF GetVault
<1>9. CASE LookForSalt(t)
  <2>1. /\ At(t, "salt") /\ UNCHANGED vaultVars
        /\ Goto(t, IF salt = Absent THEN "open_salt" ELSE "key")
    BY <1>9 DEF LookForSalt
  <2>2. /\ Moves(t, IF salt = Absent THEN "open_salt" ELSE "key", call[t].local) /\ cut' = cut
        /\ salt' = salt /\ key' = key /\ data' = data /\ vault' = vault
    BY <1>1, <2>1, GotoMoves DEF vaultVars
  <2>3. VaultAt(call[t])'
    BY <2>2 DEF Moves, VaultAt
  <2>4. "vault" \notin overlapped' \cup cut' => KeepAt(call[t])' /\ salt # Torn /\ key # Torn
    BY <1>1, <1>2, <2>1, <2>2 DEF At, Moves, Keeps, KeepAt, VaultTypeOK
  <2> QED
    BY <1>5, <2>1, <2>3, <2>4 DEF At
<1>10. CASE LookForKey(t)
  <2>1. /\ At(t, "key") /\ UNCHANGED vaultVars
        /\ Goto(t, IF key = Absent THEN "open_key" ELSE "install")
    BY <1>10 DEF LookForKey
  <2>2. /\ Moves(t, IF key = Absent THEN "open_key" ELSE "install", call[t].local) /\ cut' = cut
        /\ salt' = salt /\ key' = key /\ data' = data /\ vault' = vault
    BY <1>1, <2>1, GotoMoves DEF vaultVars
  <2>3. VaultAt(call[t])'
    BY <1>1, <2>1, <2>2 DEF At, Moves, VaultAt
  <2>4. "vault" \notin overlapped' \cup cut' => KeepAt(call[t])' /\ salt # Torn /\ key # Torn
    BY <1>1, <1>2, <2>1, <2>2 DEF At, Moves, Keeps, KeepAt, VaultTypeOK
  <2> QED
    BY <1>5, <2>1, <2>3, <2>4 DEF At
\* The steps that write the salt and the key.
<1>11. ASSUME call[t].at \in {"open_salt", "write_salt", "open_key", "write_key"},
              data' = data, vault' = vault, sick' = sick, expected' = expected,
              salt' \in {salt, Torn} \cup Threads, key' \in {key, Torn} \cup Threads,
              VaultAt(call[t])', call'[t].at # "write_data",
              "vault" \notin overlapped' \cup cut' =>
                /\ KeepAt(call[t])'
                /\ salt' = Torn => call'[t].at = "write_salt"
                /\ key' = Torn => call'[t].at = "write_key"
       PROVE  KeepInv'
  <2>1. VaultTypeOK'
    BY <1>1, <1>11 DEF VaultTypeOK, Encrypted
  <2>2. (salt # Absent => salt' # Absent) /\ (key # Absent => key' # Absent)
    BY <1>1, <1>11
  <2>3. ASSUME "vault" \notin overlapped' \cup cut' PROVE Keeps(call[t])'
    <3>1. data = Absent /\ vault = None /\ Kept
      BY <1>1, <1>2, <1>11, <2>3 DEF Keeps, KeepAt
    <3> QED
      BY <1>11, <2>3, <3>1 DEF Keeps, Kept
  <2> QED
    BY <1>1, <1>3, <1>11, <2>1, <2>2, <2>3
<1>12. CASE OpenSalt(t)
  <2>1. /\ At(t, "open_salt") /\ salt' = Torn /\ Goto(t, "write_salt")
        /\ UNCHANGED <<key, data, vault, sick, expected>>
    BY <1>12 DEF OpenSalt
  <2>2. Moves(t, "write_salt", call[t].local) /\ cut' = cut
    BY <1>1, <2>1, GotoMoves
  <2>3. VaultAt(call[t])'
    BY <1>1, <2>1, <2>2 DEF Moves, VaultAt
  <2>4. "vault" \notin overlapped' \cup cut' => KeepAt(call[t])' /\ key' # Torn
    BY <1>1, <1>2, <2>1, <2>2 DEF At, Moves, Keeps, KeepAt
  <2> QED
    BY <1>11, <2>1, <2>2, <2>3, <2>4 DEF At, Moves
<1>13. CASE WriteSalt(t)
  <2>1. /\ At(t, "write_salt") /\ salt' = t /\ Goto(t, "key")
        /\ UNCHANGED <<key, data, vault, sick, expected>>
    BY <1>13 DEF WriteSalt
  <2>2. Moves(t, "key", call[t].local) /\ cut' = cut
    BY <1>1, <2>1, GotoMoves
  <2>3. VaultAt(call[t])'
    BY <1>1, <2>1, <2>2 DEF Moves, VaultAt
  <2>4. "vault" \notin overlapped' \cup cut' => KeepAt(call[t])' /\ key' # Torn
    BY <1>1, <1>2, <2>1, <2>2 DEF At, Moves, Keeps, KeepAt
  <2> QED
    BY <1>1, <1>11, <2>1, <2>2, <2>3, <2>4 DEF At, Moves
<1>14. CASE OpenKey(t)
  <2>1. /\ At(t, "open_key") /\ key' = Torn /\ Goto(t, "write_key")
        /\ UNCHANGED <<salt, data, vault, sick, expected>>
    BY <1>14 DEF OpenKey
  <2>2. Moves(t, "write_key", call[t].local) /\ cut' = cut
    BY <1>1, <2>1, GotoMoves
  <2>3. VaultAt(call[t])'
    BY <1>1, <2>1, <2>2 DEF At, Moves, VaultAt
  <2>4. "vault" \notin overlapped' \cup cut' => KeepAt(call[t])' /\ salt' # Torn
    BY <1>1, <1>2, <2>1, <2>2 DEF At, Moves, Keeps, KeepAt
  <2> QED
    BY <1>11, <2>1, <2>2, <2>3, <2>4 DEF At, Moves
<1>15. CASE WriteKey(t)
  <2>1. /\ At(t, "write_key") /\ key' = t /\ Goto(t, "install")
        /\ UNCHANGED <<salt, data, vault, sick, expected>>
    BY <1>15 DEF WriteKey
  <2>2. Moves(t, "install", call[t].local) /\ cut' = cut
    BY <1>1, <2>1, GotoMoves
  <2>3. VaultAt(call[t])'
    BY <1>1, <2>1, <2>2 DEF At, Moves, VaultAt
  <2>4. "vault" \notin overlapped' \cup cut' => KeepAt(call[t])' /\ salt' # Torn
    BY <1>1, <1>2, <2>1, <2>2 DEF At, Moves, Keeps, KeepAt
  <2> QED
    BY <1>1, <1>11, <2>1, <2>2, <2>3, <2>4 DEF At, Moves
<1>16. CASE InstallVault(t)
  <2>1. PICK values : /\ At(t, "install") /\ vault' = t /\ values = [self |-> t]
                      /\ Assign(t, values, Reads(t)) /\ UNCHANGED <<salt, key, data, sick, expected>>
    BY <1>16 DEF InstallVault
  <2>2. Moves(t, Reads(t), Updated(call[t].local, values)) /\ cut' = cut
    BY <1>1, <2>1, AssignMoves
  <2>3. "self" \in DOMAIN values /\ values["self"] = t
    BY <2>1
  <2>4. call'[t].at \in {"health", "load"} /\ Has(call[t], "self")' /\ call'[t].local["self"] = t
    BY <2>2, <2>3, UpdatedAt DEF Moves, Has, Reads
  <2>5. VaultAt(call[t])' /\ HasRoot
    BY <1>1, <2>1, <2>4 DEF At, VaultAt
  <2>6. VaultTypeOK'
    BY <1>1, <2>1 DEF VaultTypeOK, Encrypted
  <2>7. "vault" \notin overlapped' \cup cut' => KeepAt(call[t])' /\ WholeRoot
    BY <1>1, <1>2, <2>1, <2>2, <2>4 DEF At, Keeps, KeepAt
  <2> QED
    BY <1>1, <1>2, <1>3, <1>4, <2>1, <2>2, <2>4, <2>5, <2>6, <2>7 DEF At, Keeps
\* The steps that load the entries, change them and write them.
<1>17. CASE Load(t)
  <2>1. /\ At(t, "load") /\ UNCHANGED <<salt, key, data, vault, expected>> /\ HasRoot
        /\ Has(call[t], "self") /\ call[t].local["self"] \in Threads
    BY <1>1, <1>17 DEF Load, VaultAt, At
  <2>2. "vault" \notin overlapped \cup cut /\ Keeps(call[t]) => Loaded(data) = expected
    BY <2>1 DEF Keeps, Kept, Loaded, At
  <2>3. expected \in SUBSET Exchanges /\ expected # None
    BY <1>1, ExchangesAssumption DEF VaultTypeOK
  <2>4. ASSUME sick' = sick \cup {Local(t, "self")}, Return(t)
        PROVE  KeepInv'
    BY <1>26, <2>1, <2>4 DEF At, Local
  <2>5. ASSUME Loaded(data) # None, NEW values, values = [entries |-> Loaded(data)],
               Assign(t, values, call[t].op), sick' = sick
        PROVE  KeepInv'
    <3>1. Moves(t, call[t].op, Updated(call[t].local, values)) /\ cut' = cut
      BY <1>1, <2>5, AssignMoves
    <3>2. /\ "entries" \in DOMAIN values /\ values["entries"] = Loaded(data)
          /\ "self" \notin DOMAIN values
      BY <2>5
    <3>3. /\ Has(call[t], "entries")' /\ call'[t].local["entries"] = Loaded(data)
          /\ Has(call[t], "self")' /\ call'[t].local["self"] = call[t].local["self"]
          /\ call'[t].at = call[t].op
      BY <2>1, <3>1, <3>2, UpdatedAt DEF Moves, Has
    <3>4. call[t].op \in {"store", "remove", "status"}
      BY <1>1, <2>1, Placement DEF At
    <3>5. Loaded(data) \in SUBSET Exchanges
      BY <2>5 DEF Loaded, Opens, Encrypted
    <3>6. VaultAt(call[t])'
      BY <2>1, <3>3, <3>4, <3>5 DEF VaultAt
    <3>7. "vault" \notin overlapped' \cup cut' =>
            KeepAt(call[t])' /\ salt # Torn /\ key # Torn /\ call[t].at # "write_data"
      BY <1>1, <1>2, <2>1, <2>2, <3>3, <3>4 DEF At, Keeps, KeepAt
    <3> QED
      BY <1>5, <2>1, <2>5, <3>6, <3>7 DEF At, vaultVars
  <2> QED
    BY <1>17, <2>4, <2>5 DEF Load, Readings
<1>18. CASE AnswerStatus(t)
  BY <1>6, <1>18 DEF AnswerStatus, At
<1>19. ASSUME NEW op \in {"store", "remove"}, At(t, op), NEW e \in Exchanges,
              NEW entries \in SUBSET Exchanges, Encrypt(t, entries, e),
              "vault" \notin overlapped' \cup cut' =>
                entries = IF op = "store" THEN expected \cup {e} ELSE expected \ {e}
       PROVE  KeepInv'
  <2>1. /\ UNCHANGED <<salt, key, data, vault, expected>> /\ HasRoot /\ call[t].op = op
        /\ Has(call[t], "self") /\ call[t].local["self"] \in Threads
    BY <1>1, <1>19, Placement DEF Encrypt, VaultAt, At
  <2>2. ASSUME sick' = sick \/ sick' = sick \cup {Local(t, "self")}, Return(t)
        PROVE  KeepInv'
    BY <1>26, <1>19, <2>1, <2>2 DEF At, Local
  <2>3. ASSUME key # Torn, NEW payload, payload = [holds |-> entries, under |-> RootKey],
               NEW values, values = [payload |-> payload, exchange |-> e],
               Assign(t, values, "open_data"), sick' = sick
        PROVE  KeepInv'
    <3>1. Moves(t, "open_data", Updated(call[t].local, values)) /\ cut' = cut
      BY <1>1, <2>3, AssignMoves
    <3>2. /\ "payload" \in DOMAIN values /\ values["payload"] = payload
          /\ "exchange" \in DOMAIN values /\ values["exchange"] = e
      BY <2>3
    <3>3. /\ Has(call[t], "payload")' /\ call'[t].local["payload"] = payload
          /\ Has(call[t], "exchange")' /\ call'[t].local["exchange"] = e
          /\ call'[t].at = "open_data" /\ call'[t].op = op
      BY <2>1, <3>1, <3>2, UpdatedAt DEF Moves, Has
    <3>4. salt \in Threads \cup {Torn} /\ key \in Threads
      BY <1>1, <2>1, <2>3 DEF VaultTypeOK
    <3>5. payload \in Encrypted
      BY <1>19, <2>3, <3>4 DEF Encrypted, RootKey
    <3>6. VaultAt(call[t])'
      BY <2>1, <3>3, <3>5 DEF VaultAt, Encrypted
    <3>7. RootKey' = RootKey /\ expected' = expected
      BY <2>1 DEF RootKey
    <3>8. ASSUME "vault" \notin overlapped' \cup cut'
          PROVE  KeepAt(call[t])' /\ salt # Torn /\ key # Torn
      <4>1. WholeRoot /\ WholeRoot'
        BY <1>1, <1>2, <1>19, <2>1, <3>8 DEF At, Keeps, KeepAt
      <4>2. Stored(call[t])' = entries
        BY <1>19, <3>3, <3>7, <3>8 DEF Stored
      <4> QED
        BY <1>1, <2>3, <3>3, <3>7, <4>1, <4>2 DEF KeepAt
    <3> QED
      BY <1>5, <1>19, <2>1, <2>3, <3>6, <3>8 DEF At, vaultVars
  <2> QED
    BY <1>19, <2>2, <2>3 DEF Encrypt
\* What a call that is to change the entries has loaded.
<1>20. ASSUME At(t, "store") \/ At(t, "remove")
       PROVE  /\ Local(t, "entries") \in SUBSET Exchanges
              /\ "vault" \notin overlapped' \cup cut' => Local(t, "entries") = expected
  BY <1>1, <1>2, <1>20 DEF At, VaultAt, Keeps, KeepAt, Local
<1>21. CASE StoreEntry(t)
  <2>1. PICK e \in Exchanges : At(t, "store") /\ Encrypt(t, Local(t, "entries") \cup {e}, e)
    BY <1>21 DEF StoreEntry
  <2>2. Local(t, "entries") \cup {e} \in SUBSET Exchanges
    BY <1>20, <2>1
  <2> QED
    BY <1>19, <1>20, <2>1, <2>2
<1>22. CASE RemoveEntry(t)
  <2>1. PICK e \in Exchanges :
          /\ At(t, "remove")
          /\ \/ Encrypt(t, Local(t, "entries") \ {e}, e)
             \/ Return(t) /\ UNCHANGED vaultVars
    BY <1>22 DEF RemoveEntry
  <2>2. Local(t, "entries") \ {e} \in SUBSET Exchanges
    BY <1>20, <2>1
  <2>3. CASE Encrypt(t, Local(t, "entries") \ {e}, e)
    BY <1>19, <1>20, <2>1, <2>2, <2>3
  <2>4. CASE Return(t) /\ UNCHANGED vaultVars
    BY <1>6, <2>1, <2>4 DEF At
  <2> QED
    BY <2>1, <2>3, <2>4
<1>23. CASE OpenData(t)
  <2>1. /\ At(t, "open_data") /\ data' = Torn /\ Goto(t, "write_data")
        /\ UNCHANGED <<salt, key, vault, sick, expected>>
    BY <1>23 DEF OpenData
  <2>2. Moves(t, "write_data", call[t].local) /\ cut' = cut
    BY <1>1, <2>1, GotoMoves
  <2>3. VaultTypeOK' /\ RootKey' = RootKey
    BY <1>1, <2>1 DEF VaultTypeOK, Encrypted, RootKey
  <2>4. VaultAt(call[t])'
    BY <1>1, <2>1, <2>2 DEF At, Moves, VaultAt, Has, Encrypted
  <2>5. ASSUME "vault" \notin overlapped' \cup cut' PROVE Keeps(call[t])'
    <3>1. /\ WholeRoot /\ call[t].local["payload"] = [holds |-> Stored(call[t]), under |-> RootKey]
          /\ salt # Torn /\ key # Torn
      BY <1>1, <1>2, <2>1, <2>5 DEF At, Keeps, KeepAt
    <3>2. Stored(call[t])' = Stored(call[t])
      BY <2>1, <2>2 DEF Moves, Stored
    <3> QED
      BY <2>1, <2>2, <2>3, <3>1, <3>2 DEF Moves, Keeps, KeepAt
  <2> QED
    BY <1>1, <1>3, <2>1, <2>3, <2>4, <2>5 DEF At
<1>24. CASE WriteData(t)
  <2>1. /\ At(t, "write_data") /\ Return(t) /\ UNCHANGED <<salt, key, vault, sick>>
        /\ data' = call[t].local["payload"] \/ (data # Torn /\ data' = Torn)
        /\ expected' = Stored(call[t])
    BY <1>24 DEF WriteData, Runs, Local, Stored
  <2>2. Ends(t) /\ cut' = cut
    BY <1>1, <2>1, ReturnEnds
  <2>3. call[t].local["payload"] \in Encrypted /\ call[t].local["exchange"] \in Exchanges
    BY <1>1, <2>1 DEF VaultAt, At
  <2>4. VaultTypeOK'
    BY <1>1, <2>1, <2>3 DEF VaultTypeOK, Encrypted, Stored
  <2>5. VaultAt(call[t])' /\ KeepAt(call[t])'
    BY <2>2 DEF Ends, VaultAt, KeepAt
  <2>6. ASSUME "vault" \notin overlapped' \cup cut' PROVE Keeps(call[t])'
    <3>1. /\ WholeRoot /\ data = Torn /\ salt # Torn /\ key # Torn
          /\ call[t].local["payload"] = [holds |-> Stored(call[t]), under |-> RootKey]
      BY <1>1, <1>2, <2>1, <2>6 DEF At, Keeps, KeepAt
    <3>2. /\ data' = [holds |-> expected', under |-> RootKey'] /\ data' \in Encrypted'
          /\ data' # Absent'
          /\ RootKey' = RootKey
      <4>1. data' = call[t].local["payload"] /\ RootKey' = RootKey
        BY <2>1, <3>1 DEF RootKey
      <4>2. data' # Absent
        BY <2>3, <4>1, ExchangesAssumption
      <4> QED
        BY <2>1, <2>3, <3>1, <4>1, <4>2 DEF Encrypted
    <3>3. Kept'
      BY <3>2 DEF Kept, Opens
    <3> QED
      BY <2>1, <2>5, <3>1, <3>3 DEF Keeps
  <2> QED
    BY <1>1, <1>3, <2>1, <2>4, <2>5, <2>6 DEF At
<1>25. CASE VaultWriteFails(t)
  <2>1. /\ At(t, "write_salt") \/ At(t, "write_key") \/ At(t, "write_data")
        /\ Break(t, "vault") /\ UNCHANGED vaultVars
    BY <1>25 DEF VaultWriteFails
  <2>2. Ends(t) /\ "vault" \in cut'
    BY <1>1, <2>1, BreakEnds
  <2>3. VaultAt(call[t])'
    BY <2>2 DEF Ends, VaultAt
  <2> QED
    BY <1>5, <2>1, <2>2, <2>3 DEF At
<1> QED
  BY <1>7, <1>8, <1>9, <1>10, <1>12, <1>13, <1>14, <1>15, <1>16, <1>17, <1>18, <1>21, <1>22,
     <1>23, <1>24, <1>25 DEF VaultStep

LEMMA CrashKeepsVault ==
  ASSUME CallInv, KeepInv, Crash
  PROVE  KeepInv'
<1>1. /\ overlapped' = overlapped /\ cut \subseteq cut' /\ \A t \in Threads : call'[t].at = "idle"
      /\ \A t \in Busy : Half(t) \subseteq cut'
  BY CrashKeeps DEF Idle
<1>2. /\ vault' = None /\ sick' = {} /\ salt' = salt /\ key' = key /\ data' = data
      /\ expected' = expected /\ Idle.at = "idle"
  BY DEF Crash, VaultForgotten, Idle
<1>3. VaultTypeOK' /\ \A t \in Threads : VaultAt(call[t])'
  BY <1>1, <1>2 DEF KeepInv, VaultTypeOK, Encrypted, VaultAt
<1>4. ASSUME NEW t \in Threads, "vault" \notin cut'
      PROVE  call[t].at \notin {"write_salt", "write_key", "write_data"}
  <2> SUFFICES ASSUME call[t].at \in {"write_salt", "write_key", "write_data"} PROVE FALSE
    OBVIOUS
  <2>1. t \in Busy
    BY <1>2 DEF Busy
  <2>2. "vault" \in Half(t)
    BY DEF Half, WritesVault, At
  <2> QED
    BY <1>1, <1>4, <2>1, <2>2
<1>5. ASSUME "vault" \notin overlapped' \cup cut'
      PROVE  AtVault' = {} /\ Keeps(Idle)'
  <2>1. PICK c : Keeps(c) /\ c.at \notin {"write_salt", "write_key", "write_data"}
    <3>1. CASE AtVault = {}
      BY <1>1, <1>2, <1>5, <3>1 DEF KeepInv
    <3>2. ASSUME NEW t \in AtVault PROVE Keeps(call[t]) /\ t \in Threads
      BY <1>1, <1>5, <3>2 DEF KeepInv, AtVault
    <3> QED
      BY <1>4, <1>5, <3>1, <3>2
  <2>2. salt # Torn /\ key # Torn /\ Kept /\ (data # Absent => WholeRoot)
    BY <2>1 DEF Keeps
  <2>3. Kept' /\ KeepAt(Idle)'
    BY <1>2, <2>2 DEF Kept, Opens, Encrypted, RootKey, KeepAt
  <2> QED
    BY <1>1, <1>2, <2>2, <2>3 DEF AtVault, VaultWork, VaultLabels, VaultBuild, Keeps, WholeRoot
<1> QED
  BY <1>2, <1>3, <1>5 DEF KeepInv

(* VaultKeeps: the vault gives back what was stored. *)
LEMMA KeepInvKeeps == KeepInv => VaultKeeps
<1> SUFFICES ASSUME KeepInv, Undisturbed("vault"), \A t \in Threads : ~WritesVault(t)
             PROVE  Kept
  BY DEF VaultKeeps, Kept
<1>1. CASE AtVault = {}
  BY <1>1 DEF KeepInv, Undisturbed, Keeps, Idle
<1>2. ASSUME NEW t \in AtVault
      PROVE  Kept
  BY <1>2 DEF KeepInv, Undisturbed, AtVault, Keeps, WritesVault, At
<1> QED
  BY <1>1, <1>2

-----------------------------------------------------------------------------
(* What never goes back: rows and files are not taken away.                *)
Stays ==
  /\ overlapped \subseteq overlapped' /\ cut \subseteq cut' /\ listed \subseteq listed'
  /\ data # Absent => data' # Absent
  /\ \A s \in Strategies : strategyRow[s] # None => strategyRow'[s] # None

LEMMA DataStays ==
  ASSUME KeepInv, NEW t \in Threads, VaultStep(t)
  PROVE  data # Absent => data' # Absent
<1>1. CASE WriteData(t)
  <2>1. /\ At(t, "write_data")
        /\ data' = call[t].local["payload"] \/ data' = Torn
    BY <1>1 DEF WriteData, Local
  <2>2. call[t].local["payload"] \in Encrypted
    BY <2>1 DEF KeepInv, VaultAt, At
  <2> QED
    BY <2>1, <2>2, CallsAssumption, ExchangesAssumption
<1>2. CASE OpenData(t)
  BY <1>2, CallsAssumption DEF OpenData
<1>3. CASE StoreEntry(t) \/ RemoveEntry(t)
  BY <1>3 DEF StoreEntry, RemoveEntry, Encrypt, vaultVars
<1>4. CASE Load(t) \/ OpenSalt(t) \/ WriteSalt(t) \/ OpenKey(t) \/ WriteKey(t) \/ InstallVault(t)
  BY <1>4 DEF Load, OpenSalt, WriteSalt, OpenKey, WriteKey, InstallVault
<1>5. CASE UNCHANGED vaultVars
  BY <1>5 DEF vaultVars
<1> QED
  BY <1>1, <1>2, <1>3, <1>4, <1>5
     DEF VaultStep, VaultCall, GetVault, LookForSalt, LookForKey, AnswerStatus, VaultWriteFails

LEMMA RowsStay ==
  ASSUME RegistryInv, NEW t \in Threads, StrategyStep(t)
  PROVE  \A s \in Strategies : strategyRow[s] # None => strategyRow'[s] # None
<1>1. /\ strategyRow \in [Strategies -> {None, "DRAFT", "FROZEN"}]
      /\ None \notin {"DRAFT", "FROZEN"}
  BY BuiltinsAssumption DEF RegistryInv, StrategyTypeOK
<1>2. CASE InsertStrategy(t)
  BY <1>1, <1>2 DEF InsertStrategy
<1>3. CASE Freeze(t)
  BY <1>1, <1>3 DEF Freeze
<1>4. CASE strategyRow' = strategyRow
  BY <1>4
<1> QED
  BY <1>2, <1>3, <1>4
     DEF StrategyStep, StrategyCall, GetRegistry, Register, InsertVersion, LookupFails, RegisterFails,
         InstallRegistry, ListStrategies, FreezeVersion, FreezeFails, Promote, strategyVars

LEMMA ListedStays ==
  ASSUME NEW t \in Threads, DatasetStep(t)
  PROVE  listed \subseteq listed' /\ UNCHANGED strategyVars
BY DEF DatasetStep, DatasetCall, WriteParquet, InsertDataset, InsertDatasetFails, ManifestRaises,
       SealDataset, FindStrategy, FindDataset, LoadDataset, LogViolation, LogViolationFails,
       ReadParquet, datasetVars

LEMMA CertificationLeaves ==
  ASSUME NEW t \in Threads, CertificationStep(t)
  PROVE  UNCHANGED <<salt, key, data, vault, expected>> /\ UNCHANGED strategyVars
         /\ UNCHANGED datasetVars
BY DEF CertificationStep, Certify, VaultHealth, EvaluateData, CountStrategies, LookForCoinbase,
       LookForAlpaca, SaveReport, SaveReportFails, AnswerCertificate, otherVars, vaultVars

-----------------------------------------------------------------------------
(* What a certificate says.                                                *)

AllRows == \A s \in Strategies : strategyRow[s] # None
Passed(domains) == domains \cap {"FAIL", "UNVERIFIED"} = {}
Certifying(c) == c.at # "idle" /\ c.op = "certify"

(* An evaluation that came to CERTIFIED found what it says.                *)
Honest(payload) ==
  /\ payload \in Evaluations
  /\ payload.overall = "CERTIFIED" => listed # {} /\ data # Absent
  /\ payload.overall = "CERTIFIED" /\ "strategies" \notin overlapped \cup cut => AllRows

(* What a certifying call has found where it stands. *)
CertifyAt(c) ==
  Certifying(c) =>
    /\ c.arg \in 1..MaxCalls
    /\ c.at \notin VaultBuild \cup {"save"} => Has(c, "self") /\ c.local["self"] \in Threads
    /\ c.at \in RegistryBuild \cup {"certify", "coinbase", "alpaca"} =>
         Has(c, "domains") /\ (Passed(c.local["domains"]) => listed # {})
    /\ c.at \in {"coinbase", "alpaca"} /\ "strategies" \notin overlapped \cup cut => AllRows
    /\ c.at = "alpaca" => Has(c, "coinbase") /\ (c.local["coinbase"] => data # Absent)
    /\ c.at = "save" => /\ Has(c, "payload") /\ Honest(c.local["payload"])
                        /\ Has(c, "saved") /\ c.local["saved"] \in 0..Len(ReportFiles)

(* The reports it has written show what it found. *)
SavedAt(c) ==
  c.at = "save" => \A i \in 1..c.local["saved"] : reports[ReportFiles[i]] = c.local["payload"]

ReportInv ==
  /\ ReportTypeOK
  /\ \A f \in Range(ReportFiles) : reports[f] # None => Honest(reports[f])
  /\ \A t \in Threads : CertifyAt(call[t])
  /\ "reports" \notin overlapped \cup cut =>
       /\ \A t \in Threads : SavedAt(call[t])
       /\ (\A t \in Threads : call[t].at # "save") =>
            \A f, g \in Range(ReportFiles) : reports[f] = reports[g]

LEMMA HonestStays ==
  ASSUME Stays, NEW payload, Honest(payload)
  PROVE  Honest(payload)'
BY DEF Stays, Honest, AllRows, Evaluations, Overalls

LEMMA CertifyStays ==
  ASSUME Stays, NEW t \in Threads, call'[t] = call[t], CertifyAt(call[t])
  PROVE  CertifyAt(call[t])'
<1>1. CASE ~Certifying(call[t])
  BY <1>1 DEF CertifyAt, Certifying
<1>2. CASE call[t].at # "save"
  BY <1>2 DEF CertifyAt, Certifying, Stays, AllRows, Has
<1>3. CASE Certifying(call[t]) /\ call[t].at = "save"
  <2>1. PICK payload : payload = call[t].local["payload"]
    OBVIOUS
  <2>2. Honest(payload)
    BY <1>3, <2>1 DEF CertifyAt
  <2>3. Honest(payload)'
    BY <2>2, HonestStays
  <2>4. Honest(call[t].local["payload"])'
    BY <2>1, <2>3
  <2> QED
    BY <1>3, <2>4 DEF CertifyAt, Certifying, Has, RegistryBuild
<1> QED
  BY <1>1, <1>2, <1>3

(* Steps that write no report. *)
LEMMA PassesByReports ==
  ASSUME ReportInv, NEW t \in Threads, PassesBy(t, {"save"}), Stays, CertifyAt(call[t])',
         UNCHANGED reportVars
  PROVE  ReportInv'
<1>1. /\ \A u \in Threads \ {t} : call'[u] = call[u]
      /\ call[t].at # "save" /\ call'[t].at # "save" /\ reports' = reports /\ answer' = answer
      /\ overlapped \subseteq overlapped' /\ cut \subseteq cut'
  BY DEF PassesBy, reportVars
<1>2. ReportTypeOK'
  BY <1>1 DEF ReportInv, ReportTypeOK, Evaluations, Overalls
<1>3. ASSUME NEW f \in Range(ReportFiles), reports'[f] # None PROVE Honest(reports[f])'
  <2>1. PICK payload : payload = reports[f]
    OBVIOUS
  <2>2. Honest(payload)
    BY <1>1, <1>3, <2>1 DEF ReportInv
  <2>3. Honest(payload)'
    BY <2>2, HonestStays
  <2> QED
    BY <1>1, <2>1, <2>3
<1>4. \A u \in Threads : CertifyAt(call[u])'
  BY <1>1, CertifyStays DEF ReportInv
<1>5. "reports" \notin overlapped' \cup cut' => \A u \in Threads : SavedAt(call[u])'
  BY <1>1 DEF ReportInv, SavedAt
<1> QED
  BY <1>1, <1>2, <1>3, <1>4, <1>5 DEF ReportInv

(* The steps of calls that do not certify. *)
LEMMA TokenStepCertifies ==
  ASSUME CallInv, NEW t \in Threads, TokenStep(t)
  PROVE  CertifyAt(call[t])'
<1>1. Placed(call'[t]) /\ call'[t].at \notin TokenAway
  BY TokenPassesBy DEF PassesBy, CallInv
<1>2. Labels["certify"] \subseteq TokenAway
  BY DEF Labels, TokenAway, VaultLabels, StrategyLabels, CertificationLabels
<1> QED
  BY <1>1, <1>2 DEF CertifyAt, Certifying, Placed

LEMMA DatasetStepCertifies ==
  ASSUME CallInv, NEW t \in Threads, DatasetStep(t)
  PROVE  CertifyAt(call[t])'
<1>1. Placed(call'[t]) /\ call'[t].at \notin DatasetAway /\ CallShape
  BY DatasetPassesBy DEF PassesBy, CallInv
<1>2. Labels["certify"] \subseteq DatasetAway \cup {"registry"}
  BY DEF Labels, DatasetAway, VaultLabels, StrategyLabels, CertificationLabels
<1>3. ASSUME NEW from, NEW to, to # "registry", Statement(t, from, to)
      PROVE  call'[t].at # "registry"
  <2>1. Ends(t) \/ \E local : Moves(t, to, local)
    BY <1>1, <1>3, StatementMoves
  <2> QED
    BY <1>3, <2>1 DEF Moves, Ends
<1>4. ASSUME NEW op \in Operations \ {"certify"}, NEW arg, NEW label \in Labels[op],
             Begin(t, op, arg, label)
      PROVE  call'[t].op # "certify"
  <2>1. call'[t] = [op |-> op, arg |-> arg, at |-> label, local |-> NoLocals]
    BY <1>4, BeginKeeps
  <2> QED
    BY <1>4, <2>1
<1>5. call'[t].at # "registry" \/ call'[t].op # "certify"
  <2>1. /\ {"register", "seal", "research"} \subseteq Operations \ {"certify"}
        /\ "parquet" \in Labels["register"] /\ "seal" \in Labels["seal"]
        /\ "registry" \in Labels["research"] /\ "registry" \notin ReadLabels
    BY OperationsAre DEF Labels, RegistryBuild, ReadLabels
  <2> QED
    BY <1>3, <1>4, <2>1, DatasetFlow
<1> QED
  BY <1>1, <1>2, <1>5 DEF CertifyAt, Certifying, Placed

LEMMA VaultStepCertifies ==
  ASSUME CallInv, VaultTypeOK, NEW t \in Threads, CertifyAt(call[t]), VaultStep(t)
  PROVE  CertifyAt(call[t])'
<1>1. CallShape /\ Placed(call[t])
  BY DEF CallInv
<1>2. ASSUME NEW from, NEW to, from # "idle", Statement(t, from, to), call[t].op # "certify"
      PROVE  CertifyAt(call[t])'
  BY <1>1, <1>2, StatementMoves DEF Moves, Ends, CertifyAt, Certifying
<1>3. ASSUME NEW from \in VaultBuild, NEW to \in VaultBuild, Statement(t, from, to)
      PROVE  CertifyAt(call[t])'
  <2>1. At(t, from) /\ (Ends(t) \/ \E local : Moves(t, to, local))
    BY <1>1, <1>3, StatementMoves
  <2>2. CASE Ends(t)
    BY <2>2 DEF Ends, CertifyAt, Certifying
  <2>3. ASSUME NEW local, Moves(t, to, local) PROVE CertifyAt(call[t])'
    BY <1>3, <2>1, <2>3 DEF At, Moves, CertifyAt, Certifying, VaultBuild, RegistryBuild
  <2> QED
    BY <2>1, <2>2, <2>3
<1>4. ASSUME NEW from \in VaultBuild, At(t, from), NEW self \in Threads, NEW values,
             values = [self |-> self], Assign(t, values, Reads(t))
      PROVE  CertifyAt(call[t])'
  <2>1. Moves(t, Reads(t), Updated(call[t].local, values))
    BY <1>1, <1>4, AssignMoves
  <2>2. "self" \in DOMAIN values /\ values["self"] = self
    BY <1>4
  <2>3. Has(call[t], "self")' /\ call'[t].local["self"] = self
    BY <2>1, <2>2, UpdatedAt DEF Moves, Has
  <2>4. call[t].op = "certify" => call'[t].at = "health"
    BY <2>1 DEF Moves, Reads, Runs
  <2> QED
    BY <1>4, <2>1, <2>3, <2>4 DEF At, Moves, CertifyAt, Certifying, VaultBuild, RegistryBuild
<1>5. CASE GetVault(t)
  <2>1. CASE Goto(t, "salt")
    BY <1>3, <1>5, <2>1 DEF GetVault, Statement, VaultBuild
  <2>2. CASE vault # None /\ Assign(t, [self |-> vault], Reads(t))
    BY <1>4, <1>5, <2>2 DEF GetVault, VaultBuild, VaultTypeOK
  <2> QED
    BY <1>5, <2>1, <2>2 DEF GetVault
<1>6. CASE InstallVault(t)
  BY <1>4, <1>6 DEF InstallVault, VaultBuild
<1>7. ASSUME NEW op \in {"store", "remove", "status"}, Begin(t, op, None, "vault")
      PROVE  CertifyAt(call[t])'
  <2>1. op \in Operations /\ "vault" \in Labels[op]
    BY OperationsAre DEF Labels, VaultBuild
  <2>2. call'[t] = [op |-> op, arg |-> None, at |-> "vault", local |-> NoLocals]
    BY <1>7, <2>1, BeginKeeps
  <2> QED
    BY <2>2 DEF CertifyAt, Certifying
<1>8. ASSUME NEW from \in VaultLabels \ VaultBuild, NEW to, Statement(t, from, to)
      PROVE  CertifyAt(call[t])'
  <2>1. from # "idle" /\ call[t].at = from
    BY <1>8 DEF VaultLabels, Statement, At
  <2>2. call[t].op # "certify"
    BY <1>1, <1>8, <2>1, Placement DEF VaultLabels
  <2> QED
    BY <1>2, <1>8, <2>1, <2>2
<1>9. {"load", "store", "remove", "open_data"} \subseteq VaultLabels \ VaultBuild
  BY DEF VaultLabels, VaultBuild
<1> QED
  BY <1>3, <1>5, <1>6, <1>7, <1>8, <1>9, VaultFlow DEF VaultLabels

LEMMA StrategyStepCertifies ==
  ASSUME CallInv, NEW t \in Threads, CertifyAt(call[t]), listed' = listed, StrategyStep(t)
  PROVE  CertifyAt(call[t])'
<1>1. CallShape /\ Placed(call[t])
  BY DEF CallInv
<1>2. ASSUME NEW from, NEW to, from # "idle", Statement(t, from, to), call[t].op # "certify"
      PROVE  CertifyAt(call[t])'
  BY <1>1, <1>2, StatementMoves DEF Moves, Ends, CertifyAt, Certifying
\* What it knew of the datasets and of the vault it goes on to know.
<1>3. ASSUME NEW from \in RegistryBuild, At(t, from), NEW to \in RegistryBuild \cup {call[t].op},
             NEW local, Moves(t, to, local),
             \A name \in {"self", "domains"} :
               Has(call[t], name) => name \in DOMAIN local /\ local[name] = call[t].local[name]
      PROVE  CertifyAt(call[t])'
  <2>1. call[t].op = "certify" =>
          /\ call[t].arg \in 1..MaxCalls /\ Has(call[t], "self") /\ call[t].local["self"] \in Threads
          /\ Has(call[t], "domains") /\ (Passed(call[t].local["domains"]) => listed # {})
    BY <1>3 DEF At, CertifyAt, Certifying, RegistryBuild, VaultBuild
  <2>2. to \notin {"coinbase", "alpaca", "save"} \/ call[t].op # "certify"
    BY <1>3 DEF RegistryBuild
  <2> QED
    BY <1>3, <2>1, <2>2 DEF Moves, CertifyAt, Certifying, Has
<1>4. ASSUME NEW from \in RegistryBuild, At(t, from), NEW to \in RegistryBuild \cup {call[t].op},
             Goto(t, to) \/ \E part : Spoil(t, part, to)
      PROVE  CertifyAt(call[t])'
  <2>1. Moves(t, to, call[t].local)
    BY <1>1, <1>4, GotoMoves, SpoilMoves
  <2> QED
    BY <1>3, <1>4, <2>1 DEF Has
<1>5. ASSUME NEW from \in RegistryBuild, At(t, from), NEW next, NEW values, values = [next |-> next],
             Assign(t, values, "register")
      PROVE  CertifyAt(call[t])'
  <2>1. Moves(t, "register", Updated(call[t].local, values))
    BY <1>1, <1>5, AssignMoves
  <2>2. \A name \in {"self", "domains"} : name \notin DOMAIN values
    BY <1>5
  <2>3. \A name \in {"self", "domains"} :
          Has(call[t], name) => /\ name \in DOMAIN Updated(call[t].local, values)
                                /\ Updated(call[t].local, values)[name] = call[t].local[name]
    BY <2>2, UpdatedAt DEF Has
  <2> QED
    BY <1>3, <1>5, <2>1, <2>3 DEF RegistryBuild
<1>6. CASE StrategyCall(t)
  <2>1. PICK op \in {"consult", "freeze"} : Begin(t, op, None, "registry")
    BY <1>6 DEF StrategyCall
  <2>2. op \in Operations /\ "registry" \in Labels[op]
    BY OperationsAre DEF Labels, RegistryBuild
  <2>3. call'[t] = [op |-> op, arg |-> None, at |-> "registry", local |-> NoLocals]
    BY <2>1, <2>2, BeginKeeps
  <2> QED
    BY <2>3 DEF CertifyAt, Certifying
<1>7. CASE GetRegistry(t)
  BY <1>4, <1>5, <1>7 DEF GetRegistry, RegistryBuild
<1>8. CASE Register(t)
  BY <1>4, <1>5, <1>8 DEF Register, RegistryBuild
<1>9. CASE InsertStrategy(t)
  BY <1>4, <1>9 DEF InsertStrategy, RegistryBuild
<1>10. CASE InsertVersion(t)
  BY <1>5, <1>10 DEF InsertVersion, RegistryBuild
<1>11. CASE RegisterFails(t)
  BY <1>4, <1>11 DEF RegisterFails, RegistryBuild
<1>12. CASE InstallRegistry(t)
  BY <1>4, <1>12 DEF InstallRegistry, RegistryBuild
<1>13. ASSUME NEW from \in {"consult", "freeze", "freeze_version"}, NEW to, Statement(t, from, to)
       PROVE  CertifyAt(call[t])'
  <2>1. from # "idle" /\ call[t].at = from
    BY <1>13 DEF Statement, At
  <2>2. call[t].op # "certify"
    BY <1>1, <1>13, <2>1, Placement
  <2> QED
    BY <1>2, <1>13, <2>1, <2>2
<1>14. CASE ListStrategies(t) \/ Promote(t) \/ Freeze(t) \/ FreezeVersion(t) \/ FreezeFails(t)
  BY <1>13, <1>14 DEF ListStrategies, Promote, Freeze, FreezeVersion, FreezeFails, Statement
<1>15. CASE LookupFails(t)
  BY <1>4, <1>15 DEF LookupFails, RegistryBuild
<1> QED
  BY <1>6, <1>7, <1>8, <1>9, <1>10, <1>11, <1>12, <1>14, <1>15 DEF StrategyStep

(* CertificateHonest: what the reports show. *)
LEMMA ReportInvHonest == CallInv /\ ReportInv => CertificateHonest
<1> SUFFICES ASSUME CallInv, ReportInv PROVE CertificateHonest
  OBVIOUS
<1>1. PICK first : first \in Range(ReportFiles)
  BY CertificationAssumption DEF Range
<1>2. DOMAIN reports = Range(ReportFiles)
  BY DEF ReportInv, ReportTypeOK
<1>3. ASSUME Undisturbed("reports"), Quiet("reports")
      PROVE  Cardinality(Range(reports)) = 1
  <2>1. \A t \in Threads : call[t].at # "save"
    BY <1>3, UsesAt DEF Quiet, Busy, CallInv, CertificationLabels
  <2>2. \A f, g \in Range(ReportFiles) : reports[f] = reports[g]
    BY <1>3, <2>1 DEF ReportInv, Undisturbed
  <2>3. Range(reports) = {reports[first]}
    BY <1>1, <1>2, <2>2 DEF Range
  <2> QED
    BY <2>3, FS_Singleton
<1>4. ASSUME NEW f \in DOMAIN reports, reports[f] # None, reports[f].overall = "CERTIFIED"
      PROVE  /\ listed # {}
             /\ Undisturbed("strategies") => AllRows
             /\ Undisturbed("vault") => data # Absent
  BY <1>2, <1>4 DEF ReportInv, Honest, Undisturbed
<1> QED
  BY <1>3, <1>4 DEF CertificateHonest, AllRows

(* Where a certifying call stands, and with what. *)
LEMMA CertifyingIs ==
  ASSUME CallInv, NEW t \in Threads, CertifyAt(call[t]), call[t].at \in CertificationLabels
  PROVE  /\ Certifying(call[t]) /\ call[t].op = "certify" /\ call[t].arg \in 1..MaxCalls
         /\ call[t].at # "save" => Has(call[t], "self") /\ call[t].local["self"] \in Threads
<1>1. call[t].at # "idle" /\ Placed(call[t])
  BY DEF CallInv, CertificationLabels
<1>2. call[t].op = "certify"
  BY <1>1, Placement
<1> QED
  BY <1>1, <1>2 DEF CertifyAt, Certifying, CertificationLabels, VaultBuild

LEMMA CertificationSickens ==
  ASSUME CallInv, KeepInv, NEW t \in Threads, CertifyAt(call[t]), CertificationStep(t)
  PROVE  sick' \subseteq Threads
<1>1. sick \subseteq Threads
  BY DEF KeepInv, VaultTypeOK
<1>2. ASSUME call[t].at \in {"health", "coinbase", "alpaca"}
      PROVE  Local(t, "self") \in Threads
  BY <1>2, CertifyingIs DEF Local, CertificationLabels
<1>3. CASE VaultHealth(t)
  <2>1. At(t, "health") /\ (sick' = sick \/ sick' = sick \cup {Local(t, "self")})
    BY <1>3 DEF VaultHealth
  <2> QED
    BY <1>1, <1>2, <2>1 DEF At
<1>4. CASE LookForCoinbase(t) \/ LookForAlpaca(t)
  <2>1. /\ At(t, "coinbase") \/ At(t, "alpaca")
        /\ sick' = sick \/ sick' = sick \cup {Local(t, "self")}
    BY <1>4 DEF LookForCoinbase, LookForAlpaca, VaultRaises
  <2> QED
    BY <1>1, <1>2, <2>1 DEF At
<1>5. CASE sick' = sick
  BY <1>1, <1>5
<1> QED
  BY <1>3, <1>4, <1>5 DEF CertificationStep, Certify, EvaluateData, CountStrategies, SaveReport,
     SaveReportFails, AnswerCertificate, otherVars, vaultVars

(* What the sum of the domains says of one of them. *)
LEMMA Compilation ==
  /\ \A checks : Compiled(checks) \in {"FAIL", "UNVERIFIED", "PASS"}
  /\ \A checks : Compiled(checks) = "PASS" => Passed(checks)
  /\ \A domains : Overall(domains) \in Overalls
  /\ \A domains : Overall(domains) = "CERTIFIED" => Passed(domains)
  /\ \A count : Passed({Dataset(count)}) => count > 0
  /\ \A found \in BOOLEAN : Passed({PaperDomain(found)}) => found
<1>1. \A checks : /\ Compiled(checks) \in {"FAIL", "UNVERIFIED", "PASS"}
                  /\ Compiled(checks) = "PASS" => Passed(checks)
  BY DEF Compiled, Passed
<1>2. \A domains : /\ Overall(domains) \in Overalls
                   /\ Overall(domains) = "CERTIFIED" => Compiled(domains) = "PASS"
  BY <1>1 DEF Overall, Overalls
<1>3. \A count : Passed({Dataset(count)}) => count > 0
  BY DEF Dataset, Compiled, Passed, PassOr
<1>4. \A found \in BOOLEAN : Passed({PaperDomain(found)}) => found
  BY DEF PaperDomain, Compiled, Passed, PassOr
<1> QED
  BY <1>1, <1>2, <1>3, <1>4

LEMMA ReportFilesAre ==
  /\ Len(ReportFiles) \in Nat /\ \A i \in 1..Len(ReportFiles) : ReportFiles[i] \in Range(ReportFiles)
  /\ \A f \in Range(ReportFiles) : \E i \in 1..Len(ReportFiles) : f = ReportFiles[i]
<1>1. ReportFiles \in Seq(Range(ReportFiles))
  BY CertificationAssumption
<1>2. Len(ReportFiles) \in Nat /\ DOMAIN ReportFiles = 1..Len(ReportFiles)
  BY <1>1
<1> QED
  BY <1>2 DEF Range

LEMMA CertificationStepCertifies ==
  ASSUME CallInv, RegistryInv, Stays, made \in Nat, NEW t \in Threads, CertifyAt(call[t]),
         CertificationStep(t)
  PROVE  CertifyAt(call[t])'
<1>1. /\ CallShape /\ UNCHANGED <<salt, key, data, vault, expected>> /\ UNCHANGED strategyVars
      /\ listed' = listed /\ Idle.at = "idle"
  BY CertificationLeaves DEF CallInv, datasetVars, Idle
<1>2. CASE Certify(t)
  <2>1. Begin(t, "certify", made + 1, "vault") /\ made + 1 \in 1..MaxCalls
    BY <1>2, CallsAssumption DEF Certify, Begin
  <2>2. "certify" \in Operations /\ "vault" \in Labels["certify"]
    BY OperationsAre DEF Labels, VaultBuild
  <2>3. call'[t] = [op |-> "certify", arg |-> made + 1, at |-> "vault", local |-> NoLocals]
    BY <2>1, <2>2, BeginKeeps
  <2> QED
    BY <2>1, <2>3 DEF CertifyAt, VaultBuild, RegistryBuild
<1>3. CASE Return(t) \/ (\E part : Break(t, part))
  <2>1. Ends(t)
    BY <1>1, <1>3, ReturnEnds, BreakEnds
  <2> QED
    BY <2>1 DEF Ends, CertifyAt, Certifying
\* The call goes on, and knows the vault's instance as before.
<1>4. ASSUME call[t].at \in CertificationLabels, NEW to \in {"data", "registry", "coinbase", "alpaca"},
             NEW local, Moves(t, to, local),
             "self" \in DOMAIN local, local["self"] = call[t].local["self"], call[t].at # "save",
             to # "data" => /\ "domains" \in DOMAIN local
                            /\ Passed(local["domains"]) => listed # {},
             to \in {"coinbase", "alpaca"} /\ "strategies" \notin overlapped \cup cut => AllRows,
             to = "alpaca" => /\ "coinbase" \in DOMAIN local
                              /\ local["coinbase"] => data # Absent
      PROVE  CertifyAt(call[t])'
  <2>1. call[t].arg \in 1..MaxCalls /\ call[t].local["self"] \in Threads
    BY <1>4, CertifyingIs
  <2>2. /\ call'[t].at = to /\ call'[t].arg = call[t].arg /\ call'[t].local = local
        /\ overlapped' = overlapped
    BY <1>4 DEF Moves
  <2>3. AllRows' = AllRows
    BY <1>1 DEF AllRows, strategyVars
  <2> QED
    BY <1>1, <1>4, <2>1, <2>2, <2>3 DEF CertifyAt, Has, RegistryBuild, Stays
<1>5. CASE VaultHealth(t)
  <2>1. PICK status, local :
          /\ At(t, "health") /\ Enter(t, local, "data")
          /\ local = [self |-> Local(t, "self"), domains |-> Domains(t) \cup {status}]
    BY <1>5 DEF VaultHealth, Evaluated
  <2>2. Moves(t, "data", local)
    BY <1>1, <2>1, EnterMoves
  <2>3. "self" \in DOMAIN local /\ local["self"] = Local(t, "self")
    BY <2>1
  <2> QED
    BY <1>4, <2>1, <2>2, <2>3 DEF At, Local, CertificationLabels
<1>6. CASE EvaluateData(t)
  <2>1. PICK domains, values :
          /\ At(t, "data") /\ Assign(t, values, "registry") /\ values = [domains |-> domains]
          /\ Dataset(Cardinality(listed)) \in domains
    BY <1>6 DEF EvaluateData
  <2>2. Moves(t, "registry", Updated(call[t].local, values))
    BY <1>1, <2>1, AssignMoves
  <2>3. "domains" \in DOMAIN values /\ values["domains"] = domains /\ "self" \notin DOMAIN values
    BY <2>1
  <2>4. Has(call[t], "self")
    BY <2>1, CertifyingIs DEF At, CertificationLabels
  <2>5. PICK local : local = Updated(call[t].local, values)
    OBVIOUS
  <2>6. /\ "domains" \in DOMAIN local /\ local["domains"] = domains
        /\ "self" \in DOMAIN local /\ local["self"] = call[t].local["self"]
    BY <2>3, <2>4, <2>5, UpdatedAt DEF Has
  <2>7. ASSUME Passed(domains) PROVE listed # {}
    <3>1. Passed({Dataset(Cardinality(listed))})
      BY <2>1, <2>7 DEF Passed
    <3>2. Cardinality(listed) > 0
      BY <3>1, Compilation
    <3> QED
      BY <3>2, FS_EmptySet
  <2> QED
    BY <1>4, <2>1, <2>2, <2>5, <2>6, <2>7 DEF At, CertificationLabels
<1>7. CASE CountStrategies(t)
  <2>1. PICK status, local :
          /\ At(t, "certify") /\ Enter(t, local, "coinbase")
          /\ local = [self |-> Local(t, "self"), domains |-> Domains(t) \cup {status}]
    BY <1>7 DEF CountStrategies, Evaluated
  <2>2. Moves(t, "coinbase", local)
    BY <1>1, <2>1, EnterMoves
  <2>3. /\ "self" \in DOMAIN local /\ local["self"] = Local(t, "self")
        /\ "domains" \in DOMAIN local /\ local["domains"] = Domains(t) \cup {status}
    BY <2>1
  <2>4. Has(call[t], "domains") /\ (Passed(call[t].local["domains"]) => listed # {})
    BY <2>1, CertifyingIs DEF At, CertifyAt, CertificationLabels
  <2>5. Passed(local["domains"]) => listed # {}
    BY <2>3, <2>4 DEF Domains, Has, Passed, Local
  <2>6. "strategies" \notin overlapped \cup cut => AllRows
    <3>1. registry # None
      BY <2>1 DEF RegistryInv, RegistryAt, At
    <3> QED
      BY <3>1, BuiltinsAre DEF RegistryInv, Known, AllRows
  <2> QED
    BY <1>4, <2>1, <2>2, <2>3, <2>5, <2>6 DEF At, Local, CertificationLabels
<1>8. CASE LookForCoinbase(t)
  <2>1. ASSUME At(t, "coinbase"), NEW found, found => Loaded(data) # {}, NEW values,
               values = [coinbase |-> found], Assign(t, values, "alpaca")
        PROVE  CertifyAt(call[t])'
    <3>1. Moves(t, "alpaca", Updated(call[t].local, values))
      BY <1>1, <2>1, AssignMoves
    <3>2. /\ "coinbase" \in DOMAIN values /\ values["coinbase"] = found
          /\ "self" \notin DOMAIN values /\ "domains" \notin DOMAIN values
      BY <2>1
    <3>3. /\ Has(call[t], "self") /\ Has(call[t], "domains")
          /\ Passed(call[t].local["domains"]) => listed # {}
          /\ "strategies" \notin overlapped \cup cut => AllRows
      BY <2>1, CertifyingIs DEF At, CertifyAt, CertificationLabels
    <3>4. PICK local : local = Updated(call[t].local, values)
      OBVIOUS
    <3>5. /\ "coinbase" \in DOMAIN local /\ local["coinbase"] = found
          /\ "self" \in DOMAIN local /\ local["self"] = call[t].local["self"]
          /\ "domains" \in DOMAIN local /\ local["domains"] = call[t].local["domains"]
      BY <3>2, <3>3, <3>4, UpdatedAt DEF Has
    <3>6. found => data # Absent
      BY <2>1 DEF Loaded
    <3> QED
      BY <1>4, <2>1, <3>1, <3>3, <3>4, <3>5, <3>6 DEF At, CertificationLabels
  <2>2. CASE VaultRaises(t)
    BY <1>3, <2>2 DEF VaultRaises
  <2> QED
    BY <1>8, <2>1, <2>2 DEF LookForCoinbase
<1>9. CASE LookForAlpaca(t)
  <2>1. ASSUME NEW found, found = (Local(t, "coinbase") \/ Alpaca \in Loaded(data)),
               NEW payload,
               payload = [number |-> call[t].arg,
                    overall |-> Overall(Domains(t) \cup {PaperDomain(found)})],
               NEW local, local = [payload |-> payload, saved |-> 0],
               At(t, "alpaca"), Enter(t, local, "save")
        PROVE  CertifyAt(call[t])'
    <3>1. Moves(t, "save", local)
      BY <1>1, <2>1, EnterMoves
    <3>2. /\ call[t].arg \in 1..MaxCalls
          /\ Has(call[t], "domains") /\ (Passed(call[t].local["domains"]) => listed # {})
          /\ "strategies" \notin overlapped \cup cut => AllRows
          /\ call[t].local["coinbase"] => data # Absent
      BY <2>1, CertifyingIs DEF At, CertifyAt, CertificationLabels
    <3>3. payload \in Evaluations
      BY <2>1, <3>2, Compilation DEF Evaluations
    <3>4. ASSUME payload.overall = "CERTIFIED" PROVE listed # {} /\ data # Absent
      <4>1. Passed(Domains(t) \cup {PaperDomain(found)})
        BY <2>1, <3>4, Compilation
      <4>2. Passed(call[t].local["domains"]) /\ Passed({PaperDomain(found)})
        BY <3>2, <4>1 DEF Passed, Domains, Has, Local
      <4>3. found
        BY <2>1, <4>2, Compilation
      <4> QED
        BY <2>1, <3>2, <4>2, <4>3 DEF Loaded, Local
    <3>5. Honest(payload)
      BY <3>2, <3>3, <3>4 DEF Honest
    <3>6. Honest(payload)'
      BY <3>5, HonestStays
    <3>7. /\ "payload" \in DOMAIN local /\ local["payload"] = payload
          /\ "saved" \in DOMAIN local /\ local["saved"] = 0
      BY <2>1
    <3>8. /\ call'[t].at = "save" /\ call'[t].arg = call[t].arg /\ call'[t].local = local
      BY <3>1 DEF Moves
    <3>9. Honest(call[t].local["payload"])'
      BY <3>6, <3>7, <3>8
    <3>10. 0 \in 0..Len(ReportFiles)
      BY ReportFilesAre
    <3> QED
      BY <3>2, <3>7, <3>8, <3>9, <3>10 DEF CertifyAt, Has, RegistryBuild
  <2>2. CASE VaultRaises(t)
    BY <1>3, <2>2 DEF VaultRaises
  <2> QED
    BY <1>9, <2>1, <2>2 DEF LookForAlpaca
<1>10. CASE SaveReport(t)
  <2>1. PICK n, values :
          /\ At(t, "save") /\ n = Local(t, "saved") + 1 /\ Local(t, "saved") < Len(ReportFiles)
          /\ values = [saved |-> n] /\ Assign(t, values, "save")
    BY <1>10 DEF SaveReport
  <2>2. Moves(t, "save", Updated(call[t].local, values))
    BY <1>1, <2>1, AssignMoves
  <2>3. "saved" \in DOMAIN values /\ values["saved"] = n /\ "payload" \notin DOMAIN values
    BY <2>1
  <2>4. /\ call[t].arg \in 1..MaxCalls /\ Has(call[t], "payload") /\ Honest(call[t].local["payload"])
        /\ Local(t, "saved") \in 0..Len(ReportFiles)
    BY <2>1, CertifyingIs DEF At, CertifyAt, CertificationLabels, Local
  <2>5. PICK payload : payload = call[t].local["payload"]
    OBVIOUS
  <2>6. Honest(payload)'
    BY <2>4, <2>5, HonestStays
  <2>7. PICK local : local = Updated(call[t].local, values)
    OBVIOUS
  <2>8. /\ "saved" \in DOMAIN local /\ local["saved"] = n
        /\ "payload" \in DOMAIN local /\ local["payload"] = payload
    BY <2>3, <2>4, <2>5, <2>7, UpdatedAt DEF Has
  <2>9. call'[t].at = "save" /\ call'[t].arg = call[t].arg /\ call'[t].local = local
    BY <2>2, <2>7 DEF Moves
  <2>10. Honest(call[t].local["payload"])'
    BY <2>6, <2>8, <2>9
  <2>11. n \in 0..Len(ReportFiles)
    BY <2>1, <2>4, ReportFilesAre
  <2> QED
    BY <2>4, <2>8, <2>9, <2>10, <2>11 DEF CertifyAt, Has, RegistryBuild
<1>11. CASE SaveReportFails(t) \/ AnswerCertificate(t)
  BY <1>3, <1>11 DEF SaveReportFails, AnswerCertificate
<1> QED
  BY <1>2, <1>5, <1>6, <1>7, <1>8, <1>9, <1>10, <1>11 DEF CertificationStep

LEMMA CertificationStepKeepsReports ==
  ASSUME CallInv, ReportInv, Stays, NEW t \in Threads, CertifyAt(call[t])', CertificationStep(t)
  PROVE  ReportInv'
<1>1. /\ CallShape /\ ReportTypeOK /\ \A u \in Threads \ {t} : call'[u] = call[u]
      /\ overlapped \subseteq overlapped' /\ cut \subseteq cut' /\ CallInv' /\ CertifyAt(call[t])
  BY CertificationPassesBy DEF PassesBy, CallInv, ReportInv
<1>2. \A u \in Threads : CertifyAt(call[u])'
  BY <1>1, CertifyStays DEF ReportInv
<1>3. ASSUME NEW f \in Range(ReportFiles), reports'[f] # None,
             reports'[f] = reports[f] \/ Honest(reports'[f])
      PROVE  Honest(reports[f])'
  <2>1. PICK shown : shown = reports'[f] /\ Honest(shown)
    BY <1>3 DEF ReportInv
  <2>2. Honest(shown)'
    BY <2>1, HonestStays
  <2> QED
    BY <2>1, <2>2
\* What is left to show of a step from the writing of the reports.
<1>4. ASSUME call[t].at = "save", ReportTypeOK',
             \A f \in Range(ReportFiles) : reports'[f] # None => Honest(reports[f])',
             "reports" \notin overlapped' \cup cut' =>
               /\ SavedAt(call[t])'
               /\ \/ call'[t].at = "save"
                  \/ \A f, g \in Range(ReportFiles) : reports'[f] = reports'[g]
      PROVE  ReportInv'
  <2>1. ASSUME "reports" \notin overlapped' \cup cut'
        PROVE  \A u \in Threads \ {t} : call'[u].at # "save"
    <3>1. OneAt("reports", CertificationLabels)
      BY OneAtATime
    <3> QED
      BY <1>1, <1>4, <2>1, <3>1 DEF OneAt, CertificationLabels
  <2>2. "reports" \notin overlapped' \cup cut' => \A u \in Threads : SavedAt(call[u])'
    BY <1>4, <2>1 DEF SavedAt
  <2> QED
    BY <1>2, <1>4, <2>2 DEF ReportInv
<1>5. ASSUME call[t].at = "save"
      PROVE  /\ Has(call[t], "payload") /\ Honest(call[t].local["payload"])
             /\ Has(call[t], "saved") /\ call[t].local["saved"] \in 0..Len(ReportFiles)
             /\ call[t].local["payload"] \in Evaluations
  <2>1. Certifying(call[t])
    BY <1>1, <1>5, CertifyingIs DEF CertificationLabels
  <2> QED
    BY <1>1, <1>5, <2>1 DEF CertifyAt, Honest
<1>6. CASE SaveReport(t)
  <2>1. PICK n, values, payload :
          /\ At(t, "save") /\ n = call[t].local["saved"] + 1 /\ payload = call[t].local["payload"]
          /\ call[t].local["saved"] < Len(ReportFiles)
          /\ reports' = [reports EXCEPT ![ReportFiles[n]] = payload] /\ answer' = answer
          /\ values = [saved |-> n] /\ Assign(t, values, "save")
    BY <1>6 DEF SaveReport, Local
  <2>2. Moves(t, "save", Updated(call[t].local, values))
    BY <1>1, <2>1, AssignMoves
  <2>3. "saved" \in DOMAIN values /\ values["saved"] = n /\ "payload" \notin DOMAIN values
    BY <2>1
  <2>4. /\ Honest(payload) /\ payload \in Evaluations /\ Has(call[t], "payload")
        /\ n \in 1..Len(ReportFiles) /\ ReportFiles[n] \in Range(ReportFiles)
    BY <1>5, <2>1, ReportFilesAre DEF At
  <2>5. /\ call'[t].local["saved"] = n /\ call'[t].local["payload"] = payload /\ call'[t].at = "save"
    BY <2>1, <2>2, <2>3, <2>4, UpdatedAt DEF Moves, Has
  <2>6. /\ reports' \in [Range(ReportFiles) -> Evaluations \cup {None}]
        /\ reports'[ReportFiles[n]] = payload
        /\ \A f \in Range(ReportFiles) \ {ReportFiles[n]} : reports'[f] = reports[f]
    BY <1>1, <2>1, <2>4, EntryChange DEF ReportTypeOK
  <2>7. ReportTypeOK'
    BY <1>1, <2>1, <2>6 DEF ReportTypeOK, Evaluations, Overalls
  <2>8. ASSUME NEW f \in Range(ReportFiles), reports'[f] # None PROVE Honest(reports[f])'
    BY <1>3, <2>4, <2>6, <2>8
  <2>9. ASSUME "reports" \notin overlapped' \cup cut' PROVE SavedAt(call[t])'
    <3>1. \A i \in 1..(n - 1) : reports[ReportFiles[i]] = payload
      BY <1>1, <1>5, <2>1, <2>9 DEF ReportInv, SavedAt, At
    <3>2. \A i \in 1..n : reports'[ReportFiles[i]] = payload
      BY <2>4, <2>6, <3>1, ReportFilesAre
    <3> QED
      BY <2>5, <3>2 DEF SavedAt
  <2> QED
    BY <1>4, <2>1, <2>5, <2>7, <2>8, <2>9 DEF At
<1>7. ASSUME call[t].at = "save", UNCHANGED reports, ReportTypeOK', call'[t].at = "idle",
             "reports" \notin overlapped' \cup cut' =>
               \A f, g \in Range(ReportFiles) : reports'[f] = reports'[g]
      PROVE  ReportInv'
  BY <1>3, <1>4, <1>7 DEF SavedAt
<1>8. CASE SaveReportFails(t)
  <2>1. At(t, "save") /\ Break(t, "reports") /\ reports' = reports /\ answer' = answer
    BY <1>8 DEF SaveReportFails, reportVars
  <2>2. Ends(t) /\ "reports" \in cut'
    BY <1>1, <2>1, BreakEnds
  <2>3. ReportTypeOK'
    BY <1>1, <2>1 DEF ReportTypeOK, Evaluations, Overalls
  <2> QED
    BY <1>7, <2>1, <2>2, <2>3 DEF At, Ends
<1>9. CASE AnswerCertificate(t)
  <2>1. PICK payload :
          /\ At(t, "save") /\ call[t].local["saved"] = Len(ReportFiles)
          /\ payload = call[t].local["payload"]
          /\ answer' = [overall_status |-> "PASS", overall |-> payload.overall]
          /\ Return(t) /\ reports' = reports
    BY <1>9 DEF AnswerCertificate, Local
  <2>2. Ends(t)
    BY <1>1, <2>1, ReturnEnds
  <2>3. payload.overall \in Overalls
    BY <1>5, <2>1 DEF At, Evaluations
  <2>4. ReportTypeOK'
    BY <1>1, <2>1, <2>3 DEF ReportTypeOK, Evaluations, Overalls
  <2>5. ASSUME "reports" \notin overlapped' \cup cut', NEW f \in Range(ReportFiles)
        PROVE  reports'[f] = payload
    <3>1. PICK i \in 1..Len(ReportFiles) : f = ReportFiles[i]
      BY ReportFilesAre
    <3> QED
      BY <1>1, <2>1, <2>5, <3>1 DEF ReportInv, SavedAt, At
  <2> QED
    BY <1>7, <2>1, <2>2, <2>4, <2>5 DEF At, Ends
\* The other statements write no report, and the last of them comes to it.
<1>10. ASSUME call[t].at # "save", call'[t].at # "save", UNCHANGED reportVars
       PROVE  ReportInv'
  <2>1. PassesBy(t, {"save"})
    BY <1>1, <1>10 DEF PassesBy
  <2> QED
    BY <1>10, <2>1, PassesByReports
<1>11. CASE Certify(t)
  <2>1. Begin(t, "certify", made + 1, "vault") /\ UNCHANGED reportVars
    BY <1>11 DEF Certify
  <2>2. "certify" \in Operations /\ "vault" \in Labels["certify"]
    BY OperationsAre DEF Labels, VaultBuild
  <2>3. /\ call[t] = Idle
        /\ call'[t] = [op |-> "certify", arg |-> made + 1, at |-> "vault", local |-> NoLocals]
    BY <2>1, <2>2, BeginKeeps
  <2> QED
    BY <1>10, <2>1, <2>3 DEF Idle
<1>12. ASSUME NEW from, from # "save", At(t, from), UNCHANGED reportVars,
              NEW to, to # "save",
              Return(t) \/ (\E values : Assign(t, values, to)) \/ (\E values : Enter(t, values, to))
       PROVE  ReportInv'
  <2>1. Ends(t) \/ \E local : Moves(t, to, local)
    BY <1>1, <1>12, ReturnEnds, AssignMoves, EnterMoves
  <2> QED
    BY <1>10, <1>12, <2>1 DEF At, Ends, Moves
<1>13. CASE VaultHealth(t) \/ EvaluateData(t) \/ CountStrategies(t)
  BY <1>12, <1>13 DEF VaultHealth, EvaluateData, CountStrategies, Evaluated
<1>14. CASE LookForCoinbase(t)
  <2>1. /\ At(t, "coinbase") /\ UNCHANGED reportVars
        /\ Return(t) \/ \E values : Assign(t, values, "alpaca")
    BY <1>14 DEF LookForCoinbase, VaultRaises
  <2> QED
    BY <1>12, <2>1
<1>15. CASE LookForAlpaca(t)
  <2>1. ASSUME At(t, "alpaca"), UNCHANGED reportVars, NEW payload, NEW local,
               local = [payload |-> payload, saved |-> 0], Enter(t, local, "save")
        PROVE  ReportInv'
    <3>1. Moves(t, "save", local) /\ local["saved"] = 0
      BY <1>1, <2>1, EnterMoves
    <3>2. reports' = reports /\ ReportTypeOK'
      BY <1>1, <2>1 DEF reportVars, ReportTypeOK, Evaluations, Overalls
    <3>3. \A f \in Range(ReportFiles) : reports'[f] # None => Honest(reports[f])'
      BY <1>3, <3>2
    <3>4. "reports" \notin overlapped' \cup cut' => \A u \in Threads : SavedAt(call[u])'
      BY <1>1, <3>1, <3>2 DEF Moves, ReportInv, SavedAt
    <3> QED
      BY <1>2, <3>1, <3>2, <3>3, <3>4 DEF Moves, ReportInv
  <2>2. CASE VaultRaises(t)
    BY <1>12, <1>15, <2>2 DEF LookForAlpaca, VaultRaises
  <2> QED
    BY <1>15, <2>1, <2>2 DEF LookForAlpaca
<1> QED
  BY <1>6, <1>8, <1>9, <1>11, <1>13, <1>14, <1>15 DEF CertificationStep

(***************************************************************************)
(* How far the counters run: nothing is generated, written or logged but   *)
(* by a call that was waiting to, once.                                    *)
(***************************************************************************)
Due(count, waiting, calls) ==
  count \in Nat /\ IsFiniteSet(waiting) /\ count + Cardinality(waiting) <= calls

LEMMA DueFewer ==
  ASSUME NEW count, NEW waiting, NEW calls \in Nat, Due(count, waiting, calls),
         NEW fewer \in SUBSET waiting
  PROVE  Due(count, fewer, calls)
<1>1. /\ IsFiniteSet(fewer) /\ Cardinality(fewer) <= Cardinality(waiting)
      /\ Cardinality(fewer) \in Nat /\ Cardinality(waiting) \in Nat
  BY FS_Subset, FS_CardinalityType DEF Due
<1> QED
  BY <1>1 DEF Due

LEMMA DueOneMore ==
  ASSUME NEW count, NEW waiting, NEW calls \in Nat, Due(count, waiting, calls),
         NEW t, NEW more \in SUBSET (waiting \cup {t})
  PROVE  Due(count, more, calls + 1)
<1>1. IsFiniteSet(waiting) /\ Cardinality(waiting) \in Nat
  BY FS_CardinalityType DEF Due
<1>2. /\ IsFiniteSet(waiting \cup {t})
      /\ Cardinality(waiting \cup {t}) \in {Cardinality(waiting), Cardinality(waiting) + 1}
  BY <1>1, FS_AddElement
<1>3. Due(count, waiting \cup {t}, calls + 1)
  BY <1>1, <1>2 DEF Due
<1> QED
  BY <1>3, DueFewer

LEMMA DueServed ==
  ASSUME NEW count, NEW waiting, NEW calls \in Nat, Due(count, waiting, calls),
         NEW t \in waiting, NEW fewer \in SUBSET (waiting \ {t})
  PROVE  Due(count + 1, fewer, calls)
<1>1. /\ IsFiniteSet(waiting \ {t}) /\ Cardinality(waiting) \in Nat
      /\ Cardinality(waiting \ {t}) = Cardinality(waiting) - 1
      /\ Cardinality(waiting \ {t}) \in Nat
  BY FS_RemoveElement, FS_CardinalityType DEF Due
<1>2. Due(count + 1, waiting \ {t}, calls)
  BY <1>1 DEF Due
<1> QED
  BY <1>2, DueFewer

(* A step of thread t begins a call, or takes one further that was begun.  *)
Proceeds(t) ==
  /\ \A u \in Threads \ {t} : call'[u] = call[u]
  /\ \/ made < MaxCalls /\ made' = made + 1
     \/ made' = made /\ call[t].at # "idle" /\ (call'[t].at = "idle" \/ call'[t].op = call[t].op)

LEMMA StepProceeds ==
  ASSUME CallInv, NEW t \in Threads,
         TokenStep(t) \/ VaultStep(t) \/ StrategyStep(t) \/ DatasetStep(t) \/ CertificationStep(t)
  PROVE  Proceeds(t)
<1>1. ASSUME NEW op, NEW arg, NEW label, Begin(t, op, arg, label) PROVE Proceeds(t)
  BY <1>1 DEF CallInv, CallShape, Begin, Proceeds
<1>2. ASSUME NEW from, from # "idle", NEW to, Statement(t, from, to) PROVE Proceeds(t)
  <2>1. At(t, from) /\ (Ends(t) \/ \E local : Moves(t, to, local))
    BY <1>2, StatementMoves DEF CallInv
  <2> QED
    BY <1>2, <2>1 DEF At, Ends, Moves, Proceeds
<1>3. /\ "idle" \notin TokenLabels /\ "idle" \notin VaultLabels /\ "idle" \notin VaultBuild
      /\ "idle" \notin RegistryBuild /\ "idle" \notin ReadLabels /\ "idle" \notin CertificationLabels
  BY DEF TokenLabels, Labels, VaultLabels, VaultBuild, RegistryBuild, ReadLabels, CertificationLabels
<1>4. CASE TokenStep(t)
  BY <1>1, <1>2, <1>3, <1>4, TokenFlow
<1>5. CASE VaultStep(t)
  BY <1>1, <1>2, <1>3, <1>5, VaultFlow
<1>6. CASE StrategyStep(t)
  BY <1>1, <1>2, <1>3, <1>6, StrategyFlow
<1>7. CASE DatasetStep(t)
  BY <1>1, <1>2, <1>3, <1>7, DatasetFlow
<1>8. CASE CertificationStep(t)
  BY <1>1, <1>2, <1>3, <1>8, CertificationFlow
<1> QED
  BY <1>4, <1>5, <1>6, <1>7, <1>8

TokenWaits == {t \in Threads : call[t].at \in {"token", "token_file", "generate"}}
FileWaits == {t \in Threads : call[t].at = "parquet"}
Researching == {t \in Threads : call[t].at # "idle" /\ call[t].op = "research"}
LoadWaits == {t \in Researching : call[t].at \notin {"violation", "read"}}

TokenCount == Due(generated, TokenWaits, made)
DatasetCount ==
  /\ files = 1..Cardinality(files) /\ Due(Cardinality(files), FileWaits, made)
  /\ Due(refused, LoadWaits, made) /\ Due(violations, Researching, made)
CountInv == made \in 0..MaxCalls /\ TokenCount /\ DatasetCount

(* Whoever waits after a step that began no call waited before it, unless  *)
(* it is the thread of the step; and a call that begins is one more.       *)
LEMMA DueStays ==
  ASSUME made \in Nat, NEW t, NEW count, NEW before, NEW after, Due(count, before, made),
         \/ made' = made + 1 /\ after \subseteq before \cup {t}
         \/ made' = made /\ after \subseteq before
  PROVE  Due(count, after, made')
<1>1. CASE made' = made + 1 /\ after \subseteq before \cup {t}
  <2>1. Due(count, after, made + 1)
    BY <1>1, DueOneMore
  <2> QED
    BY <1>1, <2>1
<1>2. CASE made' = made /\ after \subseteq before
  <2>1. Due(count, after, made)
    BY <1>2, DueFewer
  <2> QED
    BY <1>2, <2>1
<1> QED
  BY <1>1, <1>2

LEMMA PassesByTokenCount ==
  ASSUME TokenCount, made \in Nat, NEW t \in Threads, Proceeds(t), PassesBy(t, TokenLabels),
         generated' = generated
  PROVE  TokenCount'
<1>1. TokenWaits' \subseteq TokenWaits
  BY DEF PassesBy, TokenWaits, TokenLabels, Labels
<1>2. Due(generated, TokenWaits', made')
  BY <1>1, DueStays DEF Proceeds, TokenCount
<1> QED
  BY <1>2 DEF TokenCount, Due

LEMMA TokenStepCounts ==
  ASSUME CallInv, TokenCount, made \in Nat, NEW t \in Threads, TokenStep(t)
  PROVE  TokenCount'
<1>1. CallShape /\ Proceeds(t) /\ \A u \in Threads \ {t} : call'[u] = call[u]
  BY StepProceeds DEF CallInv, Proceeds
<1>2. CASE Generate(t)
  <2>1. PICK values : At(t, "generate") /\ generated' = generated + 1 /\ Assign(t, values, "open_token")
    BY <1>2 DEF Generate
  <2>2. call'[t].at = "open_token" /\ made' = made
    BY <1>1, <2>1, AssignMoves DEF Moves
  <2>3. t \in TokenWaits /\ TokenWaits' \subseteq TokenWaits \ {t}
    BY <1>1, <2>1, <2>2 DEF TokenWaits, At
  <2>4. Due(generated + 1, TokenWaits', made)
    BY <2>3, DueServed DEF TokenCount
  <2> QED
    BY <2>1, <2>2, <2>4 DEF TokenCount, Due
<1>3. ASSUME generated' = generated, call[t].at \in {"token", "token_file"} \/
                                     call'[t].at \notin {"token", "token_file", "generate"}
      PROVE  TokenCount'
  <2>1. TokenWaits' \subseteq TokenWaits
    BY <1>1, <1>3 DEF TokenWaits
  <2>2. Due(generated, TokenWaits', made')
    BY <1>1, <2>1, DueStays DEF Proceeds, TokenCount
  <2> QED
    BY <1>3, <2>2 DEF TokenCount, Due
<1>4. CASE GetToken(t)
  <2>1. made' = made + 1 /\ generated' = generated
    BY <1>4 DEF GetToken, Begin, tokenVars
  <2>2. TokenWaits' \subseteq TokenWaits \cup {t}
    BY <1>1 DEF TokenWaits
  <2>3. Due(generated, TokenWaits', made')
    BY <2>1, <2>2, DueStays DEF TokenCount
  <2> QED
    BY <2>1, <2>3 DEF TokenCount, Due
<1>5. CASE LookInMemory(t) \/ LookInFile(t) \/ TokenUnread(t)
  BY <1>3, <1>5 DEF LookInMemory, LookInFile, TokenUnread, At, tokenVars
<1>6. ASSUME generated' = generated, NEW from, At(t, from), NEW to \in {"write_token", "answer_token"},
             Return(t) \/ Goto(t, to) \/ Spoil(t, "token", to)
      PROVE  TokenCount'
  <2>1. call'[t].at \in {"idle", "write_token", "answer_token"}
    <3>1. Ends(t) \/ \E local : Moves(t, to, local)
      BY <1>1, <1>6, ReturnEnds, GotoMoves, SpoilMoves
    <3> QED
      BY <3>1 DEF Ends, Moves
  <2> QED
    BY <1>3, <1>6, <2>1
<1>7. CASE OpenTokenFile(t) \/ WriteTokenFile(t) \/ AnswerToken(t) \/ TokenNotSaved(t)
  BY <1>6, <1>7 DEF OpenTokenFile, WriteTokenFile, AnswerToken, TokenNotSaved, tokenVars
<1> QED
  BY <1>2, <1>4, <1>5, <1>7 DEF TokenStep

LEMMA PassesByDatasetCount ==
  ASSUME DatasetCount, made \in Nat, NEW t \in Threads, Proceeds(t),
         PassesBy(t, {"parquet", "violation", "read"}), UNCHANGED datasetVars
  PROVE  DatasetCount'
<1>1. /\ \A u \in Threads \ {t} : call'[u] = call[u]
      /\ \A label \in {"parquet", "violation", "read"} : call[t].at # label /\ call'[t].at # label
  BY DEF PassesBy
<1>2. FileWaits' \subseteq FileWaits
  BY <1>1 DEF FileWaits
<1>3. /\ Researching' \subseteq Researching \cup {t} /\ LoadWaits' \subseteq LoadWaits \cup {t}
      /\ made' = made => Researching' \subseteq Researching /\ LoadWaits' \subseteq LoadWaits
  BY <1>1 DEF Proceeds, Researching, LoadWaits
<1>4. /\ Due(Cardinality(files), FileWaits', made') /\ Due(refused, LoadWaits', made')
      /\ Due(violations, Researching', made')
  BY <1>2, <1>3, DueStays DEF Proceeds, DatasetCount
<1>5. files' = files /\ refused' = refused /\ violations' = violations
  BY DEF datasetVars
<1> QED
  BY <1>4, <1>5 DEF DatasetCount

LEMMA DatasetStepCounts ==
  ASSUME CallInv, DatasetCount, made \in Nat, NEW t \in Threads, DatasetStep(t)
  PROVE  DatasetCount'
<1>1. CallShape /\ Proceeds(t) /\ \A u \in Threads \ {t} : call'[u] = call[u]
  BY StepProceeds DEF CallInv, Proceeds
\* What a step does to the counters, from where it stands before and after.
<1>2. ASSUME call'[t].at # "parquet" \/ made' = made + 1
      PROVE  Due(Cardinality(files), FileWaits', made')
  <2>1. FileWaits' \subseteq FileWaits \cup {t} /\ (made' = made => FileWaits' \subseteq FileWaits)
    BY <1>1, <1>2 DEF FileWaits, DatasetCount, Due
  <2> QED
    BY <1>1, <2>1, DueStays DEF Proceeds, DatasetCount
<1>3. Due(violations, Researching', made')
  <2>1. /\ Researching' \subseteq Researching \cup {t}
        /\ made' = made => Researching' \subseteq Researching
    BY <1>1 DEF Proceeds, Researching
  <2> QED
    BY <1>1, <2>1, DueStays DEF Proceeds, DatasetCount
<1>4. ASSUME call[t].at \notin {"violation", "read"} \/ call'[t].at = "idle"
      PROVE  Due(refused, LoadWaits', made')
  <2>1. /\ LoadWaits' \subseteq LoadWaits \cup {t}
        /\ made' = made => LoadWaits' \subseteq LoadWaits
    BY <1>1, <1>4 DEF Proceeds, Researching, LoadWaits
  <2> QED
    BY <1>1, <2>1, DueStays DEF Proceeds, DatasetCount
<1>5. ASSUME files' = files, refused' = refused, violations' = violations,
             call'[t].at # "parquet" \/ made' = made + 1,
             call[t].at \notin {"violation", "read"} \/ call'[t].at = "idle"
      PROVE  DatasetCount'
  BY <1>2, <1>3, <1>4, <1>5 DEF DatasetCount
<1>6. CASE DatasetCall(t)
  <2>1. PICK op, arg, label : Begin(t, op, arg, label) /\ UNCHANGED datasetVars
    BY <1>6 DEF DatasetCall
  <2>2. made' = made + 1 /\ call[t] = Idle
    BY <2>1 DEF Begin
  <2> QED
    BY <1>5, <2>1, <2>2 DEF datasetVars, Idle
<1>7. CASE WriteParquet(t)
  <2>1. PICK values, d :
          /\ At(t, "parquet") /\ d = Cardinality(files) + 1 /\ files' = files \cup {d}
          /\ Assign(t, values, "insert_dataset") /\ refused' = refused /\ violations' = violations
    BY <1>7 DEF WriteParquet
  <2>2. call'[t].at = "insert_dataset" /\ made' = made
    BY <1>1, <2>1, AssignMoves DEF Moves
  <2>3. t \in FileWaits /\ FileWaits' \subseteq FileWaits \ {t}
    BY <1>1, <2>1, <2>2 DEF FileWaits, At
  <2>4. Due(Cardinality(files) + 1, FileWaits', made')
    BY <2>2, <2>3, DueServed DEF DatasetCount
  <2>5. files' = 1..(Cardinality(files) + 1) /\ Cardinality(files) \in Nat
    BY <2>1 DEF DatasetCount, Due
  <2>6. Cardinality(files') = Cardinality(files) + 1
    BY <2>5, FS_Interval
  <2>7. call[t].at \notin {"violation", "read"}
    BY <2>1 DEF At
  <2> QED
    BY <1>3, <1>4, <2>1, <2>4, <2>5, <2>6, <2>7 DEF DatasetCount
<1>8. CASE LoadDataset(t)
  <2>1. PICK to \in {"violation", "read"} :
          /\ At(t, "load_dataset") /\ Goto(t, to) /\ files' = files /\ violations' = violations
          /\ refused' \in {refused, refused + 1}
    BY <1>8 DEF LoadDataset
  <2>2. call'[t].at = to /\ call'[t].op = call[t].op /\ made' = made
    BY <1>1, <2>1, GotoMoves DEF Moves
  <2>3. t \in LoadWaits /\ LoadWaits' \subseteq LoadWaits \ {t}
    <3>1. call[t].op = "research" /\ call[t].at = "load_dataset"
      BY <2>1, Placement DEF CallInv, At
    <3> QED
      BY <1>1, <2>1, <2>2, <3>1 DEF LoadWaits, Researching
  <2>4. Due(refused + 1, LoadWaits', made') /\ Due(refused, LoadWaits', made')
    BY <2>2, <2>3, DueServed, DueFewer DEF DatasetCount
  <2>5. Due(refused', LoadWaits', made')
    BY <2>1, <2>4
  <2> QED
    BY <1>2, <1>3, <2>1, <2>2, <2>5 DEF DatasetCount
<1>9. CASE LogViolation(t)
  <2>1. At(t, "violation") /\ Return(t) /\ files' = files /\ refused' = refused
        /\ violations' = violations + 1
    BY <1>9 DEF LogViolation
  <2>2. call'[t].at = "idle" /\ made' = made
    BY <1>1, <2>1, ReturnEnds DEF Ends
  <2>3. t \in Researching /\ Researching' \subseteq Researching \ {t}
    <3>1. call[t].op = "research" /\ call[t].at = "violation"
      BY <2>1, Placement DEF CallInv, At
    <3> QED
      BY <1>1, <2>2, <3>1 DEF Researching
  <2>4. Due(violations + 1, Researching', made')
    BY <2>2, <2>3, DueServed DEF DatasetCount
  <2> QED
    BY <1>2, <1>4, <2>1, <2>2, <2>4 DEF DatasetCount
<1>10. ASSUME NEW from \in {"insert_dataset", "manifest", "seal", "research", "dataset"}, At(t, from),
              NEW to, to # "parquet",
              Return(t) \/ Goto(t, to) \/ (\E values : Assign(t, values, to)),
              files' = files, refused' = refused, violations' = violations
       PROVE  DatasetCount'
  <2>1. call'[t].at \in {"idle", to}
    <3>1. Ends(t) \/ \E local : Moves(t, to, local)
      BY <1>1, <1>10, ReturnEnds, GotoMoves, AssignMoves
    <3> QED
      BY <3>1 DEF Ends, Moves
  <2> QED
    BY <1>5, <1>10, <2>1 DEF At
<1>11. CASE InsertDataset(t) \/ InsertDatasetFails(t) \/ ManifestRaises(t) \/ SealDataset(t)
  BY <1>10, <1>11 DEF InsertDataset, InsertDatasetFails, ManifestRaises, SealDataset, datasetVars
<1>12. CASE FindStrategy(t) \/ FindDataset(t)
  <2>1. /\ files' = files /\ refused' = refused /\ violations' = violations
        /\ \/ At(t, "research") /\ (Return(t) \/ \E values : Assign(t, values, "dataset"))
           \/ At(t, "dataset") /\ (Return(t) \/ \E values : Assign(t, values, "load_dataset"))
    BY <1>12 DEF FindStrategy, FindDataset, datasetVars
  <2>2. CASE At(t, "research")
    BY <1>10, <2>1, <2>2 DEF At
  <2>3. CASE At(t, "dataset")
    BY <1>10, <2>1, <2>3 DEF At
  <2> QED
    BY <2>1, <2>2, <2>3
<1>13. CASE LogViolationFails(t) \/ ReadParquet(t)
  <2>1. Ends(t)
    BY <1>1, <1>13, ReturnEnds, BreakEnds DEF LogViolationFails, ReadParquet
  <2> QED
    BY <1>5, <1>13, <2>1 DEF LogViolationFails, ReadParquet, datasetVars, Ends
<1> QED
  BY <1>6, <1>7, <1>8, <1>9, <1>11, <1>12, <1>13 DEF DatasetStep

LEMMA CrashKeepsCounts ==
  ASSUME CallInv, CountInv, Crash
  PROVE  CountInv'
<1>1. made' = made /\ \A t \in Threads : call'[t].at = "idle"
  BY CrashKeeps DEF Idle, Crash, CallsDie
<1>2. TokenWaits' = {} /\ FileWaits' = {} /\ Researching' = {} /\ LoadWaits' = {}
  BY <1>1 DEF TokenWaits, FileWaits, Researching, LoadWaits
<1>3. generated' = generated /\ files' = files /\ refused' = refused /\ violations' = violations
  BY DEF Crash, TokenForgotten, datasetVars
<1>4. ASSUME NEW count, NEW waiting, Due(count, waiting, made) PROVE Due(count, {}, made')
  BY <1>1, <1>4, DueFewer DEF CountInv
<1> QED
  BY <1>1, <1>2, <1>3, <1>4 DEF CountInv, TokenCount, DatasetCount

LEMMA CountInvBounds ==
  CountInv => /\ generated \in 0..MaxCalls /\ files \subseteq 1..MaxCalls
              /\ refused \in 0..MaxCalls /\ violations \in 0..MaxCalls
<1>1. ASSUME NEW count, NEW waiting, Due(count, waiting, made), CountInv
      PROVE  count \in 0..MaxCalls
  BY <1>1, FS_CardinalityType, CallsAssumption DEF Due, CountInv
<1>2. CountInv => Cardinality(files) \in 0..MaxCalls /\ files = 1..Cardinality(files)
  BY <1>1 DEF CountInv, DatasetCount
<1> QED
  BY <1>1, <1>2, CallsAssumption DEF CountInv, TokenCount, DatasetCount

-----------------------------------------------------------------------------

-----------------------------------------------------------------------------
(* The platform.                                                           *)

CoreInv == CallInv /\ SealInv /\ VaultInv

LEMMA InitCore == Init => CoreInv
<1> SUFFICES ASSUME Init PROVE CoreInv
  OBVIOUS
<1>1. call = [t \in Threads |-> Idle] /\ overlapped = {} /\ violations = 0 /\ refused = 0
  BY DEF Init, CallsBegin, DatasetInit
<1>2. (\A t \in Threads : call[t] = Idle) /\ Idle.at = "idle"
  BY <1>1 DEF Idle
<1>3. CallShape
  BY <1>1, <1>2 DEF CallShape, Idle
<1>4. (\A t \in Threads : Placed(call[t])) /\ Alone
  BY <1>2, IdlePlaced DEF Alone, Busy
<1>5. SealInv
  BY <1>1, <1>2 DEF SealInv, Informed, Counted, Logging, At
<1>6. VaultInv
  BY <1>2 DEF VaultInv
<1> QED
  BY <1>3, <1>4, <1>5, <1>6 DEF CoreInv, CallInv

LEMMA StepCore ==
  ASSUME CoreInv, [Next]_vars
  PROVE  CoreInv' /\ [FailsClosed]_<<requestVars, vaultVars>>
<1> USE DEF CoreInv
<1>0. ReadLabels \subseteq DatasetLabels \ {"research"} /\ WriteLabels \subseteq VaultLabels \ {"vault"}
  BY DEF ReadLabels, WriteLabels, DatasetLabels, VaultLabels, VaultBuild
<1>1. ASSUME NEW t \in Threads, PassesBy(t, ReadLabels \cup WriteLabels),
             UNCHANGED <<salt, key, data>>, UNCHANGED datasetVars
      PROVE  CoreInv' /\ FailsClosed
  <2>1. PassesBy(t, ReadLabels) /\ PassesBy(t, WriteLabels)
    BY <1>1 DEF PassesBy
  <2>2. SealInv'
    BY <1>1, <2>1, PassesBySeal
  <2>3. VaultInv' /\ FailsClosed
    BY <1>1, <2>1, PassesByVault
  <2> QED
    BY <2>1, <2>2, <2>3 DEF PassesBy
<1>2. ASSUME NEW t \in Threads,
             TokenStep(t) /\ UNCHANGED <<vaultVars, strategyVars, datasetVars, reportVars>>
      PROVE  CoreInv' /\ FailsClosed
  <2>1. ReadLabels \cup WriteLabels \subseteq TokenAway
    BY <1>0 DEF TokenAway
  <2> QED
    BY <1>1, <1>2, <2>1, TokenPassesBy, PassesByFewer DEF vaultVars
<1>3. ASSUME NEW t \in Threads,
             VaultStep(t) /\ UNCHANGED <<tokenVars, strategyVars, datasetVars, reportVars>>
      PROVE  CoreInv' /\ FailsClosed
  <2>1. PassesBy(t, ReadLabels)
    BY <1>0, <1>3, VaultPassesBy, PassesByFewer DEF VaultAway
  <2>2. SealInv'
    BY <1>3, <2>1, PassesBySeal
  <2>3. VaultInv' /\ FailsClosed
    BY <1>3, VaultStepFailsClosed
  <2> QED
    BY <2>1, <2>2, <2>3 DEF PassesBy
<1>4. ASSUME NEW t \in Threads,
             StrategyStep(t) /\ UNCHANGED <<tokenVars, vaultVars, datasetVars, reportVars>>
      PROVE  CoreInv' /\ FailsClosed
  <2>1. ReadLabels \cup WriteLabels \subseteq StrategyAway
    BY <1>0 DEF StrategyAway
  <2> QED
    BY <1>1, <1>4, <2>1, StrategyPassesBy, PassesByFewer DEF vaultVars
<1>5. ASSUME NEW t \in Threads,
             DatasetStep(t) /\ UNCHANGED <<tokenVars, vaultVars, reportVars>>
      PROVE  CoreInv' /\ FailsClosed
  <2>1. PassesBy(t, WriteLabels)
    BY <1>0, <1>5, DatasetPassesBy, PassesByFewer DEF DatasetAway
  <2>2. VaultInv' /\ FailsClosed
    BY <1>5, <2>1, PassesByVault DEF vaultVars
  <2>3. SealInv'
    BY <1>5, DatasetStepKeepsSeal
  <2> QED
    BY <2>1, <2>2, <2>3 DEF PassesBy
<1>6. ASSUME NEW t \in Threads, CertificationStep(t) /\ UNCHANGED tokenVars
      PROVE  CoreInv' /\ FailsClosed
  <2>1. UNCHANGED <<salt, key, data>> /\ UNCHANGED datasetVars
    BY <1>6 DEF CertificationStep, Certify, VaultHealth, EvaluateData, CountStrategies,
                LookForCoinbase, LookForAlpaca, SaveReport, SaveReportFails, AnswerCertificate,
                otherVars, vaultVars
  <2>2. ReadLabels \cup WriteLabels \subseteq CertificationAway
    BY <1>0 DEF CertificationAway
  <2> QED
    BY <1>1, <1>6, <2>1, <2>2, CertificationPassesBy, PassesByFewer
<1>7. CASE Crash
  <2>1. /\ CallInv' /\ overlapped' = overlapped /\ cut \subseteq cut'
        /\ \A t \in Threads : call'[t] = Idle
        /\ \A t \in Busy : Half(t) \subseteq cut'
    BY <1>7, CrashKeeps
  <2>2. /\ Idle.at = "idle" /\ UNCHANGED datasetVars /\ UNCHANGED <<salt, key, data>>
    BY <1>7 DEF Idle, Crash, VaultForgotten
  <2>3. \A t \in Logging : "datasets" \in cut'
    <3> SUFFICES ASSUME NEW t \in Logging PROVE "datasets" \in cut'
      OBVIOUS
    <3>1. t \in Busy
      BY <2>2 DEF Logging, Busy, At
    <3>2. "datasets" \in Half(t)
      BY DEF Half, WritesDatasets, Logging
    <3> QED
      BY <2>1, <3>1, <3>2
  <2>4. Counted'
    BY <2>1, <2>2, <2>3 DEF SealInv, Counted, Logging, At, datasetVars
  <2>5. SealInv'
    BY <2>1, <2>2, <2>4 DEF SealInv, Informed
  <2>6. VaultInv' /\ FailsClosed
    BY <2>1, <2>2 DEF VaultInv, FailsClosed
  <2> QED
    BY <2>1, <2>5, <2>6
<1>8. CASE UNCHANGED vars
  <2>1. UNCHANGED <<call, overlapped, cut, salt, key, data, sealed, violations, refused>>
        /\ UNCHANGED <<requestVars, vaultVars>>
    BY <1>8 DEF vars, requestVars, vaultVars, datasetVars
  <2>2. CallInv'
    BY <2>1 DEF CallInv, CallShape, Placed, Alone, Busy
  <2>3. SealInv'
    BY <2>1 DEF SealInv, Informed, Counted, Logging, At
  <2>4. VaultInv'
    BY <2>1 DEF VaultInv, Openable, Opens, Encrypted, RootKey
  <2> QED
    BY <2>1, <2>2, <2>3, <2>4
<1> QED
  BY <1>2, <1>3, <1>4, <1>5, <1>6, <1>7, <1>8 DEF Next

LEMMA StepStays ==
  ASSUME CoreInv, KeepInv, RegistryInv, Next
  PROVE  Stays
<1>1. CASE Crash
  <2>1. overlapped' = overlapped /\ cut \subseteq cut'
    BY <1>1, CrashKeeps DEF CoreInv
  <2>2. listed' = listed /\ data' = data /\ strategyRow' = strategyRow
    BY <1>1 DEF Crash, VaultForgotten, RegistryForgotten, datasetVars
  <2> QED
    BY <2>1, <2>2 DEF Stays
<1>2. ASSUME NEW t \in Threads, TokenStep(t), UNCHANGED <<vaultVars, strategyVars, datasetVars>>
      PROVE  Stays
  <2>1. overlapped \subseteq overlapped' /\ cut \subseteq cut'
    BY <1>2, TokenPassesBy DEF CoreInv, PassesBy
  <2> QED
    BY <1>2, <2>1 DEF Stays, vaultVars, strategyVars, datasetVars
<1>3. ASSUME NEW t \in Threads, VaultStep(t), UNCHANGED <<strategyVars, datasetVars>>
      PROVE  Stays
  <2>1. overlapped \subseteq overlapped' /\ cut \subseteq cut'
    BY <1>3, VaultPassesBy DEF CoreInv, PassesBy
  <2>2. data # Absent => data' # Absent
    BY <1>3, DataStays
  <2> QED
    BY <1>3, <2>1, <2>2 DEF Stays, strategyVars, datasetVars
<1>4. ASSUME NEW t \in Threads, StrategyStep(t), UNCHANGED <<vaultVars, datasetVars>>
      PROVE  Stays
  <2>1. overlapped \subseteq overlapped' /\ cut \subseteq cut'
    BY <1>4, StrategyPassesBy DEF CoreInv, PassesBy
  <2>2. \A s \in Strategies : strategyRow[s] # None => strategyRow'[s] # None
    BY <1>4, RowsStay
  <2> QED
    BY <1>4, <2>1, <2>2 DEF Stays, vaultVars, datasetVars
<1>5. ASSUME NEW t \in Threads, DatasetStep(t), UNCHANGED vaultVars
      PROVE  Stays
  <2>1. overlapped \subseteq overlapped' /\ cut \subseteq cut'
    BY <1>5, DatasetPassesBy DEF CoreInv, PassesBy
  <2>2. listed \subseteq listed' /\ UNCHANGED strategyVars
    BY <1>5, ListedStays
  <2> QED
    BY <1>5, <2>1, <2>2 DEF Stays, vaultVars, strategyVars
<1>6. ASSUME NEW t \in Threads, CertificationStep(t)
      PROVE  Stays
  <2>1. overlapped \subseteq overlapped' /\ cut \subseteq cut'
    BY <1>6, CertificationPassesBy DEF CoreInv, PassesBy
  <2>2. data' = data /\ strategyRow' = strategyRow /\ listed' = listed
    BY <1>6, CertificationLeaves DEF strategyVars, datasetVars
  <2> QED
    BY <2>1, <2>2 DEF Stays
<1> QED
  BY <1>1, <1>2, <1>3, <1>4, <1>5, <1>6 DEF Next

LEMMA CrashKeepsReports ==
  ASSUME CallInv, ReportInv, Stays, Crash
  PROVE  ReportInv'
<1>1. /\ overlapped' = overlapped /\ cut \subseteq cut' /\ \A t \in Threads : call'[t].at = "idle"
      /\ \A t \in Busy : Half(t) \subseteq cut'
  BY CrashKeeps DEF Idle
<1>2. reports' = reports /\ answer' = answer
  BY DEF Crash, reportVars
<1>3. ReportTypeOK'
  BY <1>2 DEF ReportInv, ReportTypeOK, Evaluations, Overalls
<1>4. ASSUME NEW f \in Range(ReportFiles), reports'[f] # None PROVE Honest(reports[f])'
  <2>1. PICK shown : shown = reports'[f] /\ Honest(shown)
    BY <1>2, <1>4 DEF ReportInv
  <2>2. Honest(shown)'
    BY <2>1, HonestStays
  <2> QED
    BY <2>1, <2>2
<1>5. \A t \in Threads : CertifyAt(call[t])' /\ SavedAt(call[t])'
  BY <1>1 DEF CertifyAt, Certifying, SavedAt
<1>6. ASSUME "reports" \notin cut', NEW t \in Threads PROVE call[t].at # "save"
  <2> SUFFICES ASSUME call[t].at = "save" PROVE FALSE
    OBVIOUS
  <2>1. t \in Busy
    BY DEF Busy, Idle
  <2>2. "reports" \in Half(t)
    BY DEF Half, WritesReports, At
  <2> QED
    BY <1>1, <1>6, <2>1, <2>2
<1>7. ASSUME "reports" \notin overlapped' \cup cut'
      PROVE  \A f, g \in Range(ReportFiles) : reports'[f] = reports'[g]
  BY <1>1, <1>2, <1>6, <1>7 DEF ReportInv
<1> QED
  BY <1>3, <1>4, <1>5, <1>7 DEF ReportInv

PartsInv == TokenInv /\ FilesInv /\ RegistryInv /\ KeepInv /\ ReportInv /\ CountInv
Inv == CoreInv /\ PartsInv

LEMMA InitInv == Init => Inv
<1> SUFFICES ASSUME Init PROVE Inv
  OBVIOUS
<1>1. (\A t \in Threads : call[t] = Idle) /\ Idle.at = "idle" /\ made = 0
  BY DEF Init, CallsBegin, Idle
<1>2. TokenInv
  BY <1>1 DEF Init, TokenInit, TokenInv, TokenTypes, TokenText, TokenAt, Remembered
<1>3. FilesInv
  BY <1>1 DEF Init, DatasetInit, FilesInv, DatasetsWhole, Filed
<1>4. RegistryInv
  <2>1. /\ registry = None /\ held = [t \in Threads |-> {}]
        /\ strategyRow = [s \in Strategies |-> None] /\ versionRow = [s \in Strategies |-> None]
    BY DEF Init, StrategyInit
  <2>2. StrategyTypeOK
    BY <2>1 DEF StrategyTypeOK
  <2>3. \A t \in Threads : RegistryAt(call[t]) /\ BuildAt(call[t], t)
    BY <1>1 DEF RegistryAt, BuildAt
  <2>4. \A s \in Strategies : strategyRow[s] = None /\ versionRow[s] = None /\ Matched(s)
    BY <2>1, BuiltinsAssumption DEF Matched
  <2> QED
    BY <2>1, <2>2, <2>3, <2>4 DEF RegistryInv
<1>5. KeepInv
  <2>1. /\ salt = Absent /\ key = Absent /\ data = Absent
        /\ vault = None /\ sick = {} /\ expected = {}
    BY DEF Init, VaultInit
  <2>2. AtVault = {}
    BY <1>1 DEF AtVault, VaultWork, VaultLabels, VaultBuild
  <2>3. VaultTypeOK /\ \A t \in Threads : VaultAt(call[t])
    BY <1>1, <2>1 DEF VaultTypeOK, VaultAt, VaultBuild
  <2>4. Keeps(Idle)
    BY <1>1, <2>1, CallsAssumption DEF Keeps, Kept, KeepAt
  <2> QED
    BY <2>1, <2>2, <2>3, <2>4 DEF KeepInv
<1>6. ReportInv
  <2>1. reports = [f \in Range(ReportFiles) |-> None] /\ answer = None
    BY DEF Init, ReportInit
  <2> QED
    BY <1>1, <2>1 DEF ReportInv, ReportTypeOK, CertifyAt, Certifying, SavedAt
<1>7. CountInv
  <2>1. TokenWaits = {} /\ FileWaits = {} /\ Researching = {} /\ LoadWaits = {}
    BY <1>1 DEF TokenWaits, FileWaits, Researching, LoadWaits
  <2>2. /\ generated = 0 /\ files = {} /\ refused = 0 /\ violations = 0
        /\ Cardinality({}) = 0 /\ IsFiniteSet({}) /\ {} = 1..0
    BY FS_EmptySet DEF Init, TokenInit, DatasetInit
  <2> QED
    BY <1>1, <2>1, <2>2, CallsAssumption DEF CountInv, TokenCount, DatasetCount, Due
<1> QED
  BY <1>2, <1>3, <1>4, <1>5, <1>6, <1>7, InitCore DEF Inv, PartsInv

LEMMA StepParts ==
  ASSUME Inv, [Next]_vars
  PROVE  PartsInv'
<1>1. CoreInv /\ CallInv /\ CoreInv' /\ CallInv'
  BY StepCore DEF Inv, CoreInv
<1>2. /\ TokenInv /\ FilesInv /\ RegistryInv /\ KeepInv /\ ReportInv
      /\ made \in 0..MaxCalls /\ made \in Nat /\ TokenCount /\ DatasetCount
  BY DEF Inv, PartsInv, CountInv
<1>3. {"insert_dataset", "seal"} \subseteq DatasetLabels
      /\ {"parquet", "violation", "read"} \subseteq DatasetLabels \ {"research"}
  BY DEF DatasetLabels
<1>4. ASSUME NEW t \in Threads, Proceeds(t) PROVE made' \in 0..MaxCalls
  BY <1>2, <1>4, CallsAssumption DEF Proceeds
<1>5. ASSUME NEW t \in Threads, PassesBy(t, {"insert_dataset", "seal"}),
             PassesBy(t, {"parquet", "violation", "read"}), Proceeds(t), UNCHANGED datasetVars
      PROVE  FilesInv' /\ DatasetCount'
  BY <1>2, <1>5, PassesByFiles, PassesByDatasetCount
<1>6. ASSUME NEW t \in Threads, PassesBy(t, TokenLabels), Proceeds(t), UNCHANGED tokenVars
      PROVE  TokenInv' /\ TokenCount'
  BY <1>2, <1>6, PassesByToken, PassesByTokenCount DEF tokenVars
<1>7. ASSUME NEW t \in Threads, PassesBy(t, VaultWork), UNCHANGED vaultVars
      PROVE  KeepInv'
  <2>1. UNCHANGED <<salt, key, data, vault, expected>> /\ sick' = sick /\ sick \subseteq Threads
    BY <1>2, <1>7 DEF vaultVars, KeepInv, VaultTypeOK
  <2> QED
    BY <1>2, <1>7, <2>1, PassesByKeep
<1>8. \A t \in Threads : CertifyAt(call[t])
  BY <1>2 DEF ReportInv
<1>9. Next => Stays
  BY <1>1, <1>2, StepStays
<1>10. ASSUME NEW t \in Threads,
              TokenStep(t) /\ UNCHANGED <<vaultVars, strategyVars, datasetVars, reportVars>>
       PROVE  PartsInv'
  <2>1. PassesBy(t, TokenAway) /\ Proceeds(t) /\ Stays
    BY <1>1, <1>9, <1>10, TokenPassesBy, StepProceeds DEF Next
  <2>2. /\ {"insert_dataset", "seal"} \subseteq TokenAway
        /\ {"parquet", "violation", "read"} \subseteq TokenAway
        /\ VaultWork \subseteq TokenAway /\ StrategyLabels \ {"registry"} \subseteq TokenAway
        /\ {"save"} \subseteq TokenAway /\ "certify" \in TokenAway
    BY <1>3 DEF TokenAway, VaultWork, CertificationLabels
  <2>3. call'[t].at # "certify"
    BY <2>1, <2>2 DEF PassesBy
  <2>4. FilesInv' /\ DatasetCount' /\ KeepInv'
    BY <1>5, <1>7, <1>10, <2>1, <2>2, PassesByFewer
  <2>5. RegistryInv'
    BY <1>2, <1>10, <2>1, <2>2, <2>3, PassesByFewer, PassesByRegistry
  <2>6. CertifyAt(call[t])'
    BY <1>1, <1>10, TokenStepCertifies
  <2>7. ReportInv'
    BY <1>2, <1>10, <2>1, <2>2, <2>6, PassesByFewer, PassesByReports
  <2>8. TokenInv' /\ TokenCount'
    BY <1>1, <1>2, <1>10, TokenStepKeeps, TokenStepCounts
  <2> QED
    BY <1>4, <2>1, <2>4, <2>5, <2>7, <2>8 DEF PartsInv, CountInv
<1>11. ASSUME NEW t \in Threads,
              VaultStep(t) /\ UNCHANGED <<tokenVars, strategyVars, datasetVars, reportVars>>
       PROVE  PartsInv'
  <2>1. PassesBy(t, VaultAway) /\ Proceeds(t) /\ Stays
    BY <1>1, <1>9, <1>11, VaultPassesBy, StepProceeds DEF Next
  <2>2. /\ {"insert_dataset", "seal"} \subseteq VaultAway
        /\ {"parquet", "violation", "read"} \subseteq VaultAway
        /\ TokenLabels \subseteq VaultAway /\ StrategyLabels \ {"registry"} \subseteq VaultAway
        /\ {"save"} \subseteq VaultAway /\ "certify" \in VaultAway
    BY <1>3 DEF VaultAway, CertificationLabels
  <2>3. call'[t].at # "certify"
    BY <2>1, <2>2 DEF PassesBy
  <2>4. FilesInv' /\ DatasetCount' /\ TokenInv' /\ TokenCount'
    BY <1>5, <1>6, <1>11, <2>1, <2>2, PassesByFewer
  <2>5. RegistryInv'
    BY <1>2, <1>11, <2>1, <2>2, <2>3, PassesByFewer, PassesByRegistry
  <2>6. CertifyAt(call[t])'
    BY <1>1, <1>2, <1>8, <1>11, VaultStepCertifies DEF KeepInv
  <2>7. ReportInv'
    BY <1>2, <1>11, <2>1, <2>2, <2>6, PassesByFewer, PassesByReports
  <2>8. KeepInv'
    BY <1>1, <1>2, <1>11, VaultStepKeeps
  <2> QED
    BY <1>4, <2>1, <2>4, <2>5, <2>7, <2>8 DEF PartsInv, CountInv
<1>12. ASSUME NEW t \in Threads,
              StrategyStep(t) /\ UNCHANGED <<tokenVars, vaultVars, datasetVars, reportVars>>
       PROVE  PartsInv'
  <2>1. PassesBy(t, StrategyAway) /\ Proceeds(t) /\ Stays
    BY <1>1, <1>9, <1>12, StrategyPassesBy, StepProceeds DEF Next
  <2>2. /\ {"insert_dataset", "seal"} \subseteq StrategyAway
        /\ {"parquet", "violation", "read"} \subseteq StrategyAway
        /\ TokenLabels \subseteq StrategyAway /\ VaultWork \subseteq StrategyAway
        /\ {"save"} \subseteq StrategyAway
    BY <1>3 DEF StrategyAway, VaultWork, CertificationLabels, DatasetLabels
  <2>3. FilesInv' /\ DatasetCount' /\ TokenInv' /\ TokenCount'
    BY <1>5, <1>6, <1>12, <2>1, <2>2, PassesByFewer
  <2>4. KeepInv'
    BY <1>7, <1>12, <2>1, <2>2, PassesByFewer
  <2>5. CertifyAt(call[t])'
    BY <1>1, <1>8, <1>12, StrategyStepCertifies DEF datasetVars
  <2>6. ReportInv'
    BY <1>2, <1>12, <2>1, <2>2, <2>5, PassesByFewer, PassesByReports
  <2>7. RegistryInv'
    BY <1>1, <1>2, <1>12, StrategyStepKeepsRegistry
  <2> QED
    BY <1>4, <2>1, <2>3, <2>4, <2>6, <2>7 DEF PartsInv, CountInv
<1>13. ASSUME NEW t \in Threads,
              DatasetStep(t) /\ UNCHANGED <<tokenVars, vaultVars, reportVars>>
       PROVE  PartsInv'
  <2>1. PassesBy(t, DatasetAway) /\ Proceeds(t) /\ Stays
    BY <1>1, <1>9, <1>13, DatasetPassesBy, StepProceeds DEF Next
  <2>2. /\ TokenLabels \subseteq DatasetAway /\ VaultWork \subseteq DatasetAway
        /\ StrategyLabels \ {"registry"} \subseteq DatasetAway
        /\ {"save"} \subseteq DatasetAway /\ "certify" \in DatasetAway
    BY DEF DatasetAway, VaultWork, CertificationLabels
  <2>3. call'[t].at # "certify" /\ UNCHANGED strategyVars
    BY <1>13, <2>1, <2>2, ListedStays DEF PassesBy
  <2>4. TokenInv' /\ TokenCount' /\ KeepInv'
    BY <1>6, <1>7, <1>13, <2>1, <2>2, PassesByFewer
  <2>5. RegistryInv'
    BY <1>2, <2>1, <2>2, <2>3, PassesByFewer, PassesByRegistry
  <2>6. CertifyAt(call[t])'
    BY <1>1, <1>13, DatasetStepCertifies
  <2>7. ReportInv'
    BY <1>2, <1>13, <2>1, <2>2, <2>6, PassesByFewer, PassesByReports
  <2>8. FilesInv' /\ DatasetCount'
    BY <1>1, <1>2, <1>13, DatasetStepKeepsFiles, DatasetStepCounts
  <2> QED
    BY <1>4, <2>1, <2>4, <2>5, <2>7, <2>8 DEF PartsInv, CountInv
<1>14. ASSUME NEW t \in Threads, CertificationStep(t) /\ UNCHANGED tokenVars
       PROVE  PartsInv'
  <2>1. PassesBy(t, CertificationAway) /\ call'[t].at # "certify" /\ Proceeds(t) /\ Stays
    BY <1>1, <1>9, <1>14, CertificationPassesBy, StepProceeds DEF Next
  <2>2. /\ {"insert_dataset", "seal"} \subseteq CertificationAway
        /\ {"parquet", "violation", "read"} \subseteq CertificationAway
        /\ TokenLabels \subseteq CertificationAway /\ VaultWork \subseteq CertificationAway
        /\ StrategyLabels \ {"registry"} \subseteq CertificationAway
    BY <1>3 DEF CertificationAway, VaultWork
  <2>3. UNCHANGED <<salt, key, data, vault, expected>> /\ UNCHANGED strategyVars
        /\ UNCHANGED datasetVars
    BY <1>14, CertificationLeaves
  <2>4. FilesInv' /\ DatasetCount' /\ TokenInv' /\ TokenCount'
    BY <1>5, <1>6, <1>14, <2>1, <2>2, <2>3, PassesByFewer
  <2>5. RegistryInv'
    BY <1>2, <2>1, <2>2, <2>3, PassesByFewer, PassesByRegistry
  <2>6. sick' \subseteq Threads
    BY <1>1, <1>2, <1>8, <1>14, CertificationSickens
  <2>7. KeepInv'
    BY <1>2, <2>1, <2>2, <2>3, <2>6, PassesByFewer, PassesByKeep
  <2>8. CertifyAt(call[t])'
    BY <1>1, <1>2, <1>8, <1>14, <2>1, CertificationStepCertifies
  <2>9. ReportInv'
    BY <1>1, <1>2, <1>14, <2>1, <2>8, CertificationStepKeepsReports
  <2> QED
    BY <1>4, <2>1, <2>4, <2>5, <2>7, <2>9 DEF PartsInv, CountInv
<1>15. CASE Crash
  <2>1. Stays
    BY <1>9, <1>15 DEF Next
  <2>2. TokenInv' /\ FilesInv' /\ RegistryInv' /\ KeepInv' /\ ReportInv'
    BY <1>1, <1>2, <1>15, <2>1, CrashKeepsToken, CrashKeepsFiles, CrashKeepsRegistry, CrashKeepsVault,
       CrashKeepsReports
  <2>3. CountInv'
    BY <1>1, <1>2, <1>15, CrashKeepsCounts DEF CountInv
  <2> QED
    BY <2>2, <2>3 DEF PartsInv
<1>16. CASE UNCHANGED vars
  <2>1. /\ UNCHANGED <<call, made, overlapped, cut>> /\ UNCHANGED tokenVars /\ UNCHANGED vaultVars
        /\ UNCHANGED strategyVars /\ UNCHANGED datasetVars /\ UNCHANGED reportVars
    BY <1>16 DEF vars, requestVars
  <2>2. TokenInv'
    BY <1>2, <2>1 DEF tokenVars, TokenInv, TokenTypes, TokenText, TokenAt, Remembered, Has
  <2>3. FilesInv'
    BY <1>2, <2>1 DEF datasetVars, FilesInv, DatasetsWhole, Filed, Has
  <2>4. RegistryInv'
    BY <1>2, <2>1 DEF strategyVars, RegistryInv, StrategyTypeOK, RegistryAt, BuildAt, Known,
    HalfWritten,
                      Matched, Has, NextOf
  <2>5. KeepInv'
    BY <1>2, <2>1 DEF vaultVars, KeepInv, VaultTypeOK, HasRoot, VaultAt, AtVault, Keeps, Kept, KeepAt,
                      WholeRoot, Stored, RootKey, Opens, Encrypted, Has, VaultWork, VaultLabels,
                      VaultBuild
  <2>6. ReportInv'
    BY <1>2, <2>1 DEF reportVars, vaultVars, datasetVars, strategyVars, ReportInv, ReportTypeOK, Honest,
                      AllRows, CertifyAt, Certifying, SavedAt, Has, Evaluations, Overalls
  <2>7. CountInv'
    BY <1>2, <2>1 DEF tokenVars, datasetVars, CountInv, TokenCount, DatasetCount, Due, TokenWaits,
                      FileWaits, Researching, LoadWaits
  <2> QED
    BY <2>2, <2>3, <2>4, <2>5, <2>6, <2>7 DEF PartsInv
<1> QED
  BY <1>10, <1>11, <1>12, <1>13, <1>14, <1>15, <1>16 DEF Next

LEMMA StepInv ==
  ASSUME Inv, [Next]_vars
  PROVE  Inv' /\ [FailsClosed]_<<requestVars, vaultVars>>
BY StepCore, StepParts DEF Inv

(* Calls stay among the statements of their operation, one at a time       *)
(* unless they were recorded to overlap; whoever is about to read a file   *)
(* or to write the vault knows what it needs to.                           *)
THEOREM Invariant == Spec => []Inv
<1>1. Inv /\ [Next]_vars => Inv'
  BY StepInv
<1> QED
  BY InitInv, <1>1, PTL DEF Spec

(* get_credential_vault, _load_all and _save_all: whatever the number of   *)
(* threads, calls, failures and deaths, a vault file that does not open is *)
(* never rewritten by a call that came alone.                              *)
THEOREM VaultHolds == Spec => VaultFailsClosed
<1>1. Inv /\ [Next]_vars => [FailsClosed]_<<requestVars, vaultVars>>
  BY StepInv
<1>2. Spec => [][FailsClosed]_<<requestVars, vaultVars>>
  BY Invariant, <1>1, PTL DEF Spec
<1> QED
  BY <1>2 DEF VaultFailsClosed, FailsClosed

(* load_dataset: no call reads a dataset that was sealed when it began to  *)
(* look for it, and the loads that the seal stopped are counted in         *)
(* risk_events, for any number of threads, calls and datasets.             *)
THEOREM SealsHold == Spec => SealHolds
<1> DEFINE Step == /\ \A t \in Threads :
                        At(t, "read") /\ call'[t] = Idle =>
                          Local(t, "dataset") \notin Local(t, "sealedBefore")
                   /\ (Undisturbed("datasets") /\ Quiet("datasets"))' => violations' = refused'
<1>1. Inv /\ Inv' => Step
  <2> SUFFICES ASSUME Inv, Inv' PROVE Step
    OBVIOUS
  <2>1. \A t \in Threads : At(t, "read") => Local(t, "dataset") \notin Local(t, "sealedBefore")
    BY DEF Inv, CoreInv, SealInv, Informed, At, Local
  <2>2. ASSUME Undisturbed("datasets")', Quiet("datasets")' PROVE violations' = refused'
    <3>1. \A t \in Threads : ~At(t, "violation")'
      <4> SUFFICES ASSUME NEW t \in Threads, call'[t].at = "violation" PROVE FALSE
        BY DEF At
      <4>1. Placed(call'[t]) /\ call'[t].at # "idle"
        BY DEF Inv, CoreInv, CallInv, Placed
      <4>2. call'[t].op = "research" /\ call'[t] # Idle
        BY <4>1, Placement DEF Idle
      <4> QED
        BY <2>2, <4>2 DEF Quiet, Busy, Uses
    <3> QED
      BY <2>2, <3>1 DEF Inv, CoreInv, SealInv, Counted, Logging, Undisturbed
  <2> QED
    BY <2>1, <2>2
<1>2. Spec => [][Step]_<<requestVars, datasetVars>>
  BY Invariant, <1>1, PTL DEF Spec
<1> QED
  BY <1>2 DEF SealHolds

(* Every variable of the shared parts keeps its type: no more tokens,      *)
(* datasets and logged violations than calls, whatever fails or dies.      *)
THEOREM TypesHold == Spec => []TypeOK
<1>1. Inv => TypeOK
  <2> SUFFICES ASSUME Inv PROVE TypeOK
    OBVIOUS
  <2>1. TokenInv /\ FilesInv /\ RegistryInv /\ KeepInv /\ ReportInv /\ CountInv
    BY DEF Inv, PartsInv
  <2>2. /\ generated \in 0..MaxCalls /\ files \subseteq 1..MaxCalls
        /\ refused \in 0..MaxCalls /\ violations \in 0..MaxCalls
    BY <2>1, CountInvBounds
  <2>3. TokenTypeOK
    BY <2>1, <2>2 DEF TokenTypeOK, TokenInv, TokenTypes
  <2>4. VaultTypeOK /\ StrategyTypeOK /\ ReportTypeOK
    BY <2>1 DEF KeepInv, RegistryInv, ReportInv
  <2>5. DatasetTypeOK
    BY <2>1, <2>2 DEF DatasetTypeOK, FilesInv
  <2> QED
    BY <2>3, <2>4, <2>5 DEF TypeOK
<1> QED
  BY Invariant, <1>1, PTL

(* OperatorAuthManager and SecureCredentialVault: where the calls of a     *)
(* part came one after another and none was left half done, every caller   *)
(* was given the token the file holds, and the vault gives back exactly    *)
(* what was stored and not removed; deaths of the process included.        *)
THEOREM SecretsHold == Spec => []SecretsKept
<1>1. Inv => SecretsKept
  BY TokenInvLasts, KeepInvKeeps DEF Inv, CoreInv, PartsInv, SecretsKept
<1> QED
  BY Invariant, <1>1, PTL

(* StrategyRegistry and DatasetManager: the registry a call is given holds *)
(* every builtin strategy, each with its row and its version; and a listed *)
(* dataset has its file.                                                   *)
THEOREM RegistriesHold == Spec => []RegistriesWhole
<1>1. Inv => RegistriesWhole
  BY RegistryInvComplete DEF Inv, CoreInv, PartsInv, FilesInv, RegistriesWhole
<1> QED
  BY Invariant, <1>1, PTL

(* DeterministicCertificationSystem: the files of a certificate belong to  *)
(* one evaluation, and CERTIFIED in any of them means that what it says of *)
(* the datasets, the strategies and the vault is still so.                 *)
THEOREM CertificatesHold == Spec => []CertificateHonest
<1>1. Inv => CertificateHonest
  BY ReportInvHonest DEF Inv, CoreInv, PartsInv
<1> QED
  BY Invariant, <1>1, PTL
=============================================================================
