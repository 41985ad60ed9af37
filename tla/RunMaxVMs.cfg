SPECIFICATION Spec
CONSTANTS
  Registered <- MCRegistered
  Exclusive <- MCExclusive
  Housed <- MCHoused
  Schema <- MCSchema
  Fields <- MCFields
  Bad <- MCBad
  Args <- MCArgs
  Configs <- MCConfigs
  Namespaces <- MCNamespaces
  LastRun = 1
  CallsMayFail = FALSE
PROPERTY BlockIsAccepted
