-------------------------- MODULE StrategyRegistry --------------------------
(***************************************************************************)
(* StrategyRegistry: the singleton that registers the builtin strategies,  *)
(* in memory and in the tables strategies and strategy_versions, one       *)
(* commit per statement.                                                   *)
(***************************************************************************)
EXTENDS Requests, Sequences, SequencesExt

CONSTANT Builtins   \* the builtin strategies, in the order of registration

ASSUME BuiltinsAssumption ==
  Builtins \in Seq(Range(Builtins)) /\ None \notin {"DRAFT", "FROZEN", "open", "frozen"}

VARIABLES
  registry,     \* _STRATEGY_REGISTRY: the thread that built it, or None
  held,         \* held[t]: _strategies of the instance t built
  strategyRow,  \* strategyRow[s]: the status of its row, or None
  versionRow    \* versionRow[s]: "open" or "frozen", or None

strategyVars == <<registry, held, strategyRow, versionRow>>

Strategies == Range(Builtins)

StrategyTypeOK ==
  /\ registry \in Threads \cup {None}
  /\ held \in [Threads -> SUBSET Strategies]
  /\ strategyRow \in [Strategies -> {None, "DRAFT", "FROZEN"}]
  /\ versionRow \in [Strategies -> {None, "open", "frozen"}]

StrategyInit ==
  /\ registry = None /\ held = [t \in Threads |-> {}]
  /\ strategyRow = [s \in Strategies |-> None]
  /\ versionRow = [s \in Strategies |-> None]

StrategyCall(t) ==
  /\ \E op \in {"consult", "freeze"} : Begin(t, op, None, "registry")
  /\ UNCHANGED strategyVars

-----------------------------------------------------------------------------
(* get_strategy_registry.                                                  *)

GetRegistry(t) ==
  /\ At(t, "registry")
  /\ IF registry = None THEN /\ held' = [held EXCEPT ![t] = {}]
                             /\ Assign(t, [next |-> 1], "register")
     ELSE Goto(t, call[t].op) /\ UNCHANGED held
  /\ UNCHANGED <<registry, strategyRow, versionRow>>

NextBuiltin(t) == Builtins[Local(t, "next")]
Remaining(t) == Local(t, "next") <= Len(Builtins)

(* Slip: one known builtin ends the registration. *)
RegisterUntilKnown(t) ==
  /\ At(t, "register")
  /\ IF ~Remaining(t) THEN Goto(t, "install_registry") /\ UNCHANGED held
     ELSE /\ held' = [held EXCEPT ![t] = @ \cup {NextBuiltin(t)}]
          /\ Goto(t, IF strategyRow[NextBuiltin(t)] = None THEN "insert_strategy" ELSE "install_registry")
  /\ UNCHANGED <<registry, strategyRow, versionRow>>

(* register_strategy: in memory first, and then a SELECT. *)
Register(t) ==
  /\ At(t, "register")
  /\ IF ~Remaining(t) THEN Goto(t, "install_registry") /\ UNCHANGED held
     ELSE /\ held' = [held EXCEPT ![t] = @ \cup {NextBuiltin(t)}]
          /\ IF strategyRow[NextBuiltin(t)] = None THEN Goto(t, "insert_strategy")
             ELSE Assign(t, [next |-> Local(t, "next") + 1], "register")
  /\ UNCHANGED <<registry, strategyRow, versionRow>>

(* A row that another thread inserted meanwhile makes the INSERT raise,    *)
(* and the exception ends the loading of the builtins unseen.              *)
InsertStrategy(t) ==
  /\ At(t, "insert_strategy")
  /\ IF strategyRow[NextBuiltin(t)] # None THEN Goto(t, "install_registry") /\ UNCHANGED strategyRow
     ELSE /\ strategyRow' = [strategyRow EXCEPT ![NextBuiltin(t)] = "DRAFT"]
          /\ Goto(t, "insert_version")
  /\ UNCHANGED <<registry, held, versionRow>>

InsertVersion(t) ==
  /\ At(t, "insert_version")
  /\ versionRow' = [versionRow EXCEPT ![NextBuiltin(t)] = "open"]
  /\ Assign(t, [next |-> Local(t, "next") + 1], "register")
  /\ UNCHANGED <<registry, held, strategyRow>>

(* The SELECT fails: the strategy stays in memory without a row, and the   *)
(* next builtins are not registered at all; nobody is told.                *)
LookupFails(t) ==
  /\ At(t, "register") /\ Remaining(t)
  /\ held' = [held EXCEPT ![t] = @ \cup {NextBuiltin(t)}]
  /\ Spoil(t, "strategies", "install_registry")
  /\ UNCHANGED <<registry, strategyRow, versionRow>>

(* Any other error of an INSERT is swallowed in the same way. *)
RegisterFails(t) ==
  /\ At(t, "insert_strategy") \/ At(t, "insert_version")
  /\ Spoil(t, "strategies", "install_registry")
  /\ UNCHANGED strategyVars

InstallRegistry(t) ==
  /\ At(t, "install_registry") /\ registry' = t /\ Goto(t, call[t].op)
  /\ UNCHANGED <<held, strategyRow, versionRow>>

-----------------------------------------------------------------------------
(* list_strategies, a SELECT. *)
ListStrategies(t) == At(t, "consult") /\ Return(t) /\ UNCHANGED strategyVars

(* promote_to_paper: a strategy without a row raises ValueError, and every *)
(* other one AttributeError, since StrategyStatus has no VALIDATED: no     *)
(* statement of the promotion is reached.                                  *)
Promote(t) == At(t, "consult") /\ Return(t) /\ UNCHANGED strategyVars

Freeze(t) ==
  /\ At(t, "freeze")
  /\ \E s \in Strategies :
       /\ strategyRow' = [strategyRow EXCEPT ![s] = IF @ = None THEN None ELSE "FROZEN"]
       /\ Assign(t, [strategy |-> s], "freeze_version")
  /\ UNCHANGED <<registry, held, versionRow>>

FreezeVersion(t) ==
  /\ At(t, "freeze_version")
  /\ versionRow' = [versionRow EXCEPT ![Local(t, "strategy")] = IF @ = None THEN None ELSE "frozen"]
  /\ Return(t)
  /\ UNCHANGED <<registry, held, strategyRow>>

FreezeFails(t) ==
  /\ At(t, "freeze_version") /\ Break(t, "strategies") /\ UNCHANGED strategyVars

StrategyStep(t) ==
  \/ StrategyCall(t) \/ GetRegistry(t) \/ Register(t) \/ InsertStrategy(t)
  \/ InsertVersion(t) \/ LookupFails(t) \/ RegisterFails(t) \/ InstallRegistry(t)
  \/ ListStrategies(t) \/ Freeze(t) \/ FreezeVersion(t) \/ FreezeFails(t) \/ Promote(t)

WritesStrategies(t) == At(t, "insert_version") \/ At(t, "freeze_version")

RegistryForgotten ==
  /\ registry' = None /\ held' = [t \in Threads |-> {}]
  /\ UNCHANGED <<strategyRow, versionRow>>

-----------------------------------------------------------------------------
(* A registry that was built alone and without a failed statement, on      *)
(* tables where no pair of writes was left half done, has every builtin,   *)
(* each with its row and its version, frozen together or not at all: also  *)
(* when an earlier process died among the builtins.                        *)
BuiltinsComplete ==
  /\ \A s \in Strategies : versionRow[s] # None => strategyRow[s] # None
  /\ Undisturbed("strategies") /\ Quiet("strategies") /\ registry # None =>
       \A s \in Strategies :
         /\ s \in held[registry] /\ strategyRow[s] # None /\ versionRow[s] # None
         /\ strategyRow[s] = "FROZEN" <=> versionRow[s] = "frozen"
=============================================================================
