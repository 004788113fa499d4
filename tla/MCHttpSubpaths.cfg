\* What the changelog says of paths below /xrpc that no method has.
SPECIFICATION HttpSpec
CONSTANTS
    None = None
    did = did cid = cid secret = secret wrong = wrong
    Requests <- MCRequests
    Passwords <- MCPasswords
INVARIANTS
    SubpathsNotImplemented
