SPECIFICATION FairSpec
CONSTANTS
    pam = pam
    app = app
    andre = andre
    root = root
    Clients = {pam, app}
    Users = {andre, root}
    RootClients = {pam}
    UserOf <- MCUserOf
    NoClient = NoClient
    NoUser = NoUser
    MaxCurrent = 3
    MaxCalls = 1
    MaxEvents = 1
INVARIANTS TypeOK CurrentUnderClaim BusyWhileUnsaid OnlyForWhoMayBeNamed RetryIsNotFinal
PROPERTIES FinalUnderItsClaim ClaimKept StoppedTakesNoFinger ImplementsService StoppedLeavesSensor ResultSaid
CHECK_DEADLOCK FALSE
