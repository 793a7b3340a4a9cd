SPECIFICATION Spec
CONSTANTS
  Texts <- MCTexts
  Specs <- MCSpecs
  SecretSets <- MCSecretSets
  MaxRestarts = 0
INVARIANTS
  PodFindsSecrets
CHECK_DEADLOCK FALSE
