SPECIFICATION FairSpec
CONSTANTS
  Registered <- MCRegistered
  Exclusive <- MCExclusive
  Housed <- MCHoused
  Schema <- MCSchema
  Fields <- MCFields
  Bad <- MCBad
  Args <- MCArgs
  Configs <- MCConfigs
  Namespaces <- MCNamespaces
  LastRun = 2
  CallsMayFail = TRUE
INVARIANTS
  TypeOK
  AllReport
  EffectiveOptions
  SuiteHasNamespace
  NoLeftovers
PROPERTIES
  NothingBeforeValid
  RunEnds
