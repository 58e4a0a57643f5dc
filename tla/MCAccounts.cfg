CONSTANTS
  c1 = c1
  c2 = c2
  Profiles = {default, other}
  Default = default
  Attempts <- MCAttempts
  Calls = {c1, c2}
  Kinds <- AnyAndCreate
  None = None
  ActivationMayFail = TRUE
  MaxRestarts = 1
SPECIFICATION Spec
INVARIANTS SecretMatchesAccount SecretsHaveOwners ObsoleteLoginsInstallNothing MutexIsReleased
CHECK_DEADLOCK FALSE
