\* A request of any method for any kind of path, with a password configured and without.
SPECIFICATION HttpSpec
CONSTANTS
    None = None
    did = did cid = cid secret = secret wrong = wrong
    Requests <- MCRequests
    Passwords <- MCPasswords
INVARIANTS
    XrpcStaysApart
    PurgesAreAdmins
    AnswersAreWhole
    RefusalsNotStored
