SPECIFICATION Spec
CONSTANTS
  t1 = t1  t2 = t2  cvd = cvd  poc = poc
  Coinbase = Coinbase  Alpaca = Alpaca
  None = None  Absent = Absent  Torn = Torn
  Threads <- MCThreads
  Builtins <- MCBuiltins
  Exchanges <- MCExchanges
  ReportFiles <- MCReportFiles
  ConfigSafe = TRUE
  InstallerPresent = TRUE
  ChainVerdicts = {TRUE}
  MaxCalls = 3
  MaxFaults = 1
SYMMETRY Symmetry
INVARIANTS
  TypeOK
  SecretsKept
  RegistriesWhole
  CertificateHonest
PROPERTIES
  VaultFailsClosed
  SealHolds
CHECK_DEADLOCK FALSE
