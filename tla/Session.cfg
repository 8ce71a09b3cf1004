SPECIFICATION FairSpec
CONSTANTS
    n1 = n1
    n2 = n2
    p1 = p1
    p2 = p2
    None = None
    there = there
    w1 = w1
    w2 = w2
    Names = {n1, n2}
    Passwords = {p1, p2}
    SeedUser <- MCSeedUser
    Modes = {"real", "demo"}
    MaxAttempts = 1
    Window = 1
    MaxFaults = 1
    Others = {there}
    Threads = {w1, w2}
    Credentials <- MCCredentials
    Guesses <- MCGuesses
    Budgets <- MCBudgets
INVARIANTS
    TypeOK
    LoggedOutStaysOut
    AccountIsCurrent
    AttemptsBounded
PROPERTIES
    FormOffered
CHECK_DEADLOCK FALSE
