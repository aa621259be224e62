SPECIFICATION FairSpec
CONSTANTS
    Texts <- MCTexts
    Setups <- MCSetups
    Keys <- MCKeys
    Trimmed <- MCTrimmed
    Secrets <- MCSecrets
    Credentials <- MCCredentials
    MaxRequests = 2
    MaxEdits = 2
    MaxEvents = 1
INVARIANTS
    TypeOK
    RunsAreAskedFor
    AcceptedWasAllowed
    AllowedIsNotRefused
PROPERTIES
    TicksAreServed
CHECK_DEADLOCK FALSE
