SPECIFICATION Spec
CONSTANTS
    Client = {c1, c2}
    Purpose = {"REGISTRATION", "PASSWORD_RESET"}
    OtpMaxAttempts = 2
    MaxCodes = 2
    MaxGuesses = 5
    MaxLogins = 2
    MaxFaults = 1
SYMMETRY Symmetry
CHECK_DEADLOCK FALSE
INVARIANTS
    TypeOK
    GuessesBounded
    RowHasLogin
    NoHalfAccount
