SPECIFICATION Spec
CONSTANTS
  Texts <- MCTexts
  Specs <- MCSpecs
  SecretSets <- MCSecretSets
  MaxRestarts = 1
INVARIANTS
  TypeOK
  SecretsChecked
  TLSPodFits
  
  LimitChecked
  CommandFits
CHECK_DEADLOCK FALSE
