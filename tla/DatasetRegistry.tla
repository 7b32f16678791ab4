-------------------------- MODULE DatasetRegistry --------------------------
(***************************************************************************)
(* DatasetManager: a parquet file and a row per dataset, the seal, and the *)
(* research endpoints that load one.  A dataset is the number of its       *)
(* registration.                                                           *)
(***************************************************************************)
EXTENDS StrategyRegistry, FiniteSets

VARIABLES
  files,       \* datasets whose parquet file is written
  listed,      \* datasets with a row
  sealed,      \* datasets whose row says is_sealed
  violations,  \* number of SEALED_DATA_VIOLATION rows in risk_events
  refused      \* history: number of loads that met a sealed row

datasetVars == <<files, listed, sealed, violations, refused>>

DatasetTypeOK ==
  /\ files \subseteq 1..MaxCalls /\ sealed \subseteq listed
  /\ violations \in 0..MaxCalls /\ refused \in 0..MaxCalls

DatasetInit ==
  files = {} /\ listed = {} /\ sealed = {} /\ violations = 0 /\ refused = 0

DatasetCall(t) ==
  /\ \/ Begin(t, "register", None, "parquet")
     \/ \E d \in listed : Begin(t, "seal", d, "seal")
     \/ Begin(t, "research", None, "registry")
  /\ UNCHANGED <<strategyVars, datasetVars>>

-----------------------------------------------------------------------------
(* register_dataset.                                                       *)

WriteParquet(t) ==
  /\ At(t, "parquet")
  /\ LET d == Cardinality(files) + 1
     IN  files' = files \cup {d} /\ Assign(t, [dataset |-> d], "insert_dataset")
  /\ UNCHANGED <<strategyVars, listed, sealed, violations, refused>>

(* The caller says whether it is sealed from the start. *)
InsertDataset(t) ==
  /\ At(t, "insert_dataset")
  /\ listed' = listed \cup {Local(t, "dataset")}
  /\ sealed' \in {sealed, sealed \cup {Local(t, "dataset")}}
  /\ Goto(t, "manifest")
  /\ UNCHANGED <<strategyVars, files, violations, refused>>

(* get_config is not imported: before the manifest and the quality audit   *)
(* the call raises NameError, and the dataset stays listed.                *)
ManifestRaises(t) == At(t, "manifest") /\ Return(t) /\ UNCHANGED <<strategyVars, datasetVars>>

InsertDatasetFails(t) ==
  At(t, "insert_dataset") /\ Return(t) /\ UNCHANGED <<strategyVars, datasetVars>>

SealDataset(t) ==
  /\ At(t, "seal")
  /\ sealed' = sealed \cup {call[t].arg} /\ Return(t)
  /\ UNCHANGED <<strategyVars, files, listed, violations, refused>>

-----------------------------------------------------------------------------
(* run_backtest and run_walk_forward, up to the dataset they run on.       *)

(* The strategy the request names is in memory or not. *)
FindStrategy(t) ==
  /\ At(t, "research")
  /\ \E s \in Strategies :
       IF s \in held[registry] THEN Assign(t, [sealedBefore |-> sealed], "dataset") ELSE Return(t)
  /\ UNCHANGED <<strategyVars, datasetVars>>

(* The dataset the request names, or the newest. *)
FindDataset(t) ==
  /\ At(t, "dataset")
  /\ \/ listed = {} /\ Return(t)
     \/ \E d \in listed : Assign(t, [dataset |-> d], "load_dataset")
  /\ UNCHANGED <<strategyVars, datasetVars>>

(* Slip: the newest row is asked for its seal, not the row of the dataset. *)
LoadDatasetAskingNewest(t) ==
  /\ At(t, "load_dataset")
  /\ IF Cardinality(listed) \in sealed THEN refused' = refused + 1 /\ Goto(t, "violation")
     ELSE refused' = refused /\ Goto(t, "read")
  /\ UNCHANGED <<strategyVars, files, listed, sealed, violations>>

(* load_dataset: SELECT, and the firewall. *)
LoadDataset(t) ==
  /\ At(t, "load_dataset")
  /\ IF Local(t, "dataset") \in sealed THEN refused' = refused + 1 /\ Goto(t, "violation")
     ELSE refused' = refused /\ Goto(t, "read")
  /\ UNCHANGED <<strategyVars, files, listed, sealed, violations>>

LogViolation(t) ==
  /\ At(t, "violation")
  /\ violations' = violations + 1 /\ Return(t)
  /\ UNCHANGED <<strategyVars, files, listed, sealed, refused>>

LogViolationFails(t) ==
  At(t, "violation") /\ Break(t, "datasets") /\ UNCHANGED <<strategyVars, datasetVars>>

ReadParquet(t) ==
  At(t, "read") /\ Return(t) /\ UNCHANGED <<strategyVars, datasetVars>>

DatasetStep(t) ==
  \/ DatasetCall(t) \/ WriteParquet(t) \/ InsertDataset(t) \/ InsertDatasetFails(t)
  \/ ManifestRaises(t) \/ SealDataset(t) \/ FindStrategy(t) \/ FindDataset(t)
  \/ LoadDataset(t) \/ LogViolation(t) \/ LogViolationFails(t) \/ ReadParquet(t)

WritesDatasets(t) == At(t, "violation")

-----------------------------------------------------------------------------
(* A row is never there before its file, whatever raises in between. *)
DatasetsWhole == listed \subseteq files

(* No call reads a dataset that was sealed before the call looked for it,  *)
(* and, undisturbed, every load that met a seal is in risk_events, once.   *)
(* A seal set while the call is under way is not excluded and may come too *)
(* late (dataset.py:134, 147).  docs/RESEARCH.md:7 says that a refused     *)
(* read "is logged to the audit engine"; the code writes the row of        *)
(* risk_events only (dataset.py:158-172), and no audit event.              *)
SealHolds ==
  [][/\ \A t \in Threads :
          At(t, "read") /\ call'[t] = Idle =>
            Local(t, "dataset") \notin Local(t, "sealedBefore")
     /\ (Undisturbed("datasets") /\ Quiet("datasets"))' => violations' = refused']_<<requestVars, datasetVars>>
=============================================================================
