------------------------------ MODULE Platform ------------------------------
(***************************************************************************)
(* The parts of the platform that the thread pool's calls share, in one    *)
(* process that may die and start again: what is in memory is gone, and    *)
(* the files and tables stay as they are.                                  *)
(***************************************************************************)
EXTENDS OperatorToken, Certification

vars == <<requestVars, tokenVars, vaultVars, strategyVars, datasetVars, reportVars>>

Init ==
  /\ CallsBegin /\ TokenInit /\ VaultInit /\ StrategyInit /\ DatasetInit /\ ReportInit

(* What a call is in the middle of when it dies; the token file repairs    *)
(* itself.                                                                 *)
Half(t) ==
  {part \in {"vault", "strategies", "datasets", "reports"} :
     CASE part = "vault" -> WritesVault(t)
       [] part = "strategies" -> WritesStrategies(t)
       [] part = "datasets" -> WritesDatasets(t)
       [] OTHER -> WritesReports(t)}

Crash ==
  /\ CallsDie([t \in Busy |-> Half(t)])
  /\ TokenForgotten /\ VaultForgotten /\ RegistryForgotten
  /\ UNCHANGED <<datasetVars, reportVars>>

Next ==
  \/ \E t \in Threads :
       \/ TokenStep(t) /\ UNCHANGED <<vaultVars, strategyVars, datasetVars, reportVars>>
       \/ VaultStep(t) /\ UNCHANGED <<tokenVars, strategyVars, datasetVars, reportVars>>
       \/ StrategyStep(t) /\ UNCHANGED <<tokenVars, vaultVars, datasetVars, reportVars>>
       \/ DatasetStep(t) /\ UNCHANGED <<tokenVars, vaultVars, reportVars>>
       \/ CertificationStep(t) /\ UNCHANGED tokenVars
  \/ Crash

Spec == Init /\ [][Next]_vars

TypeOK == TokenTypeOK /\ VaultTypeOK /\ StrategyTypeOK /\ DatasetTypeOK /\ ReportTypeOK

(* What core/security keeps in files outlasts the process. *)
SecretsKept == TokenLasts /\ VaultKeeps

(* What the registries keep in tables is complete. *)
RegistriesWhole == BuiltinsComplete /\ DatasetsWhole
=============================================================================
