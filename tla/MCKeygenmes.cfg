CONSTANTS
    W = 8
    MAX_INPUT = 20
    USERNAME_MAX = 6
    Usernames = 2
    Builds = 2
    LICENSE_SEED <- MCLicenseSeed
    transformed_key <- MCTransformedKey
    EXPECTED_KEY <- MCExpectedKey
    EXPECTED_PASSWORD <- MCExpectedPassword
    Sessions <- MCSessions
SPECIFICATION Spec
INVARIANTS AcceptsExactly
PROPERTIES WaitingEnds
CHECK_DEADLOCK FALSE
