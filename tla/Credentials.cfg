SPECIFICATION Spec
CONSTANTS
    Stored <- MCStored
    Template <- MCTemplate
    SecurityKey = {1}
    MaxRuns = 3
    MaxFails = 2
    MaxOwn = 2
CHECK_DEADLOCK FALSE
INVARIANTS TypeOK CredentialKept SecretsRight
