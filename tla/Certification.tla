--------------------------- MODULE Certification ---------------------------
(***************************************************************************)
(* DeterministicCertificationSystem: one call reads one part of the        *)
(* platform after another, sums up their checks domain by domain, and      *)
(* writes the reports one file after another; the endpoint answers.        *)
(***************************************************************************)
EXTENDS CredentialVault, DatasetRegistry

CONSTANTS
  ConfigSafe,         \* the configuration is paper-only and binds to localhost
  InstallerPresent,   \* the two installer scripts are there
  ChainVerdicts,      \* what verifying the audit chain may come to
  Coinbase, Alpaca,   \* the exchanges whose credentials are looked for
  ReportFiles         \* the files of a certificate, in the order of writing

ASSUME CertificationAssumption ==
  /\ ConfigSafe \in BOOLEAN /\ InstallerPresent \in BOOLEAN /\ ChainVerdicts \subseteq BOOLEAN
  /\ {Coinbase, Alpaca} \subseteq Exchanges
  /\ ReportFiles \in Seq(Range(ReportFiles)) /\ ReportFiles # <<>>

VARIABLES
  reports,     \* reports[f]: the evaluation file f shows, or None
  answer       \* the last answer of the endpoint, or None

reportVars == <<reports, answer>>
otherVars == <<vaultVars, strategyVars, datasetVars>>

Statuses == {"PASS", "FAIL", "UNVERIFIED"}
Overalls == {"CERTIFIED", "PARTIAL_CERTIFIED_UNVERIFIED_GATES", "FAIL"}
Evaluations == [number : 1..MaxCalls, overall : Overalls]

ReportTypeOK ==
  /\ reports \in [Range(ReportFiles) -> Evaluations \cup {None}]
  /\ answer \in [overall_status : {"PASS"}, overall : Overalls] \cup {None}

ReportInit ==
  /\ reports = [f \in Range(ReportFiles) |-> None]
  /\ answer = None

-----------------------------------------------------------------------------
(* What each domain's checks come to.                                      *)

PassOr(status, holds) == IF holds THEN "PASS" ELSE status

(* _compile_domain *)
Compiled(checks) ==
  IF "FAIL" \in checks THEN "FAIL" ELSE IF "UNVERIFIED" \in checks THEN "UNVERIFIED" ELSE "PASS"

SoftwareSafety == Compiled({PassOr("FAIL", ConfigSafe), "PASS"})
SoftwareSecurity(healthy) == Compiled({PassOr("FAIL", ConfigSafe), PassOr("FAIL", healthy)})
DataPipeline(holds) == Compiled({PassOr("FAIL", holds)})
Dataset(count) == Compiled({PassOr("UNVERIFIED", count > 0)})
\* The guard rejects a strategy that reads the next close (LookaheadGuard).
ResearchDomain == Compiled({"PASS"})
Strategy(count) == Compiled({PassOr("FAIL", count >= 2)})
PaperDomain(hasCredentials) == Compiled({PassOr("UNVERIFIED", hasCredentials)})
Accounting == Compiled({"PASS"})
Installation == Compiled({PassOr("FAIL", InstallerPresent)})

(* The statuses of the domains that read nothing, and of those call t has  *)
(* evaluated so far: the overall status asks no more of them.              *)
Fixed == {SoftwareSafety, ResearchDomain, Accounting, Installation}
Domains(t) == IF "domains" \in DOMAIN call[t].local THEN Local(t, "domains") ELSE Fixed

(* The domain has come to `status'; its own local variables are gone. *)
Evaluated(t, status, label) ==
  Enter(t, [self |-> Local(t, "self"), domains |-> Domains(t) \cup {status}], label)

Overall(domains) ==
  CASE Compiled(domains) = "FAIL" -> "FAIL"
    [] Compiled(domains) = "UNVERIFIED" -> "PARTIAL_CERTIFIED_UNVERIFIED_GATES"
    [] OTHER -> "CERTIFIED"

-----------------------------------------------------------------------------
(* evaluate_all_domains.                                                   *)

(* One at a time (a bound of the model): two at once mix their files. *)
Certify(t) ==
  /\ \A u \in Threads : ~Runs(u, "certify")
  /\ Begin(t, "certify", made + 1, "vault") /\ UNCHANGED <<otherVars, reportVars>>

(* get_vault_health: an instance in its error state stays there. *)
VaultHealth(t) ==
  /\ At(t, "health")
  /\ \E entries \in Readings :
       LET self == Local(t, "self")
           healthy == self \notin sick /\ entries # None
       IN  /\ sick' = IF healthy THEN sick ELSE sick \cup {self}
           /\ Evaluated(t, SoftwareSecurity(healthy), "data")
  /\ UNCHANGED <<salt, key, data, vault, expected, strategyVars, datasetVars, reportVars>>

(* The audit chain is verified (AuditChain) and the datasets are counted.  *)
EvaluateData(t) ==
  /\ At(t, "data")
  /\ \E holds \in ChainVerdicts :
       Assign(t, [domains |-> Domains(t) \cup {DataPipeline(holds), Dataset(Cardinality(listed))}],
              "registry")
  /\ UNCHANGED <<otherVars, reportVars>>

CountStrategies(t) ==
  /\ At(t, "certify")
  /\ Evaluated(t, Strategy(Cardinality(held[registry])), "coinbase")
  /\ UNCHANGED <<otherVars, reportVars>>

(* get_credentials, outside of any try: a vault that does not open or      *)
(* cannot be read raises here, and there is no certificate at all.         *)
VaultRaises(t) ==
  /\ None \in Readings
  /\ sick' = sick \cup {Local(t, "self")} /\ Return(t)

LookForCoinbase(t) ==
  /\ At(t, "coinbase")
  /\ \/ VaultRaises(t)
     \/ /\ Loaded(data) # None /\ UNCHANGED sick
        /\ Assign(t, [coinbase |-> Coinbase \in Loaded(data)], "alpaca")
  /\ UNCHANGED <<salt, key, data, vault, expected, strategyVars, datasetVars, reportVars>>

LookForAlpaca(t) ==
  /\ At(t, "alpaca")
  /\ \/ VaultRaises(t)
     \/ /\ Loaded(data) # None /\ UNCHANGED sick
        /\ LET paper == PaperDomain(Local(t, "coinbase") \/ Alpaca \in Loaded(data))
               payload == [number |-> call[t].arg, overall |-> Overall(Domains(t) \cup {paper})]
           IN  Enter(t, [payload |-> payload, saved |-> 0], "save")
  /\ UNCHANGED <<salt, key, data, vault, expected, strategyVars, datasetVars, reportVars>>

-----------------------------------------------------------------------------
(* _save_all_reports and the answer.                                       *)

(* Slip: a report that is there is kept. *)
SaveMissingReport(t) ==
  /\ At(t, "save") /\ Local(t, "saved") < Len(ReportFiles)
  /\ LET n == Local(t, "saved") + 1
     IN  /\ reports' = [reports EXCEPT ![ReportFiles[n]] =
                          IF @ = None \/ n = 1 THEN Local(t, "payload") ELSE @]
         /\ Assign(t, [saved |-> n], "save")
  /\ UNCHANGED <<otherVars, answer>>

SaveReport(t) ==
  /\ At(t, "save") /\ Local(t, "saved") < Len(ReportFiles)
  /\ LET n == Local(t, "saved") + 1
     IN  /\ reports' = [reports EXCEPT ![ReportFiles[n]] = Local(t, "payload")]
         /\ Assign(t, [saved |-> n], "save")
  /\ UNCHANGED <<otherVars, answer>>

SaveReportFails(t) ==
  /\ At(t, "save") /\ Break(t, "reports")
  /\ UNCHANGED <<otherVars, reportVars>>

(* generate_full_certification_report: the status it adds is fixed. *)
AnswerCertificate(t) ==
  /\ At(t, "save") /\ Local(t, "saved") = Len(ReportFiles)
  /\ answer' = [overall_status |-> "PASS", overall |-> Local(t, "payload").overall]
  /\ Return(t)
  /\ UNCHANGED <<otherVars, reports>>

CertificationStep(t) ==
  \/ Certify(t) \/ VaultHealth(t) \/ EvaluateData(t) \/ CountStrategies(t)
  \/ LookForCoinbase(t) \/ LookForAlpaca(t) \/ SaveReport(t) \/ SaveReportFails(t) \/ AnswerCertificate(t)

WritesReports(t) == At(t, "save")

-----------------------------------------------------------------------------
(* The files of a certificate belong to one evaluation when certificates   *)
(* are made one at a time and are written to the end; and CERTIFIED, in    *)
(* any file, means that a dataset is listed and, where the calls did not   *)
(* disturb each other, that the builtin strategies have their rows and the *)
(* vault was filled.                                                       *)
CertificateHonest ==
  /\ Undisturbed("reports") /\ Quiet("reports") => Cardinality(Range(reports)) = 1
  /\ (\E f \in DOMAIN reports : reports[f] # None /\ reports[f].overall = "CERTIFIED") =>
       /\ listed # {}
       /\ Undisturbed("strategies") => \A s \in Strategies : strategyRow[s] # None
       /\ Undisturbed("vault") => data # Absent

(* What the endpoint answers as its overall status is what the evaluation  *)
(* came to: no PASS for a platform that is not certified.                  *)
AnswerIsOverall == answer # None => (answer.overall_status = "PASS" <=> answer.overall = "CERTIFIED")
=============================================================================
