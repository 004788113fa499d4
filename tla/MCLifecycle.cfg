\* Three processes and two connections, on either kind of address, one process
\* after another or overlapping.
SPECIFICATION FairLifeSpec
CONSTANTS
    None = None
    p1 = p1 p2 = p2 p3 = p3 c1 = c1 c2 = c2
    Processes <- MCProcesses
    Clients <- MCClients
    Setups <- MCSetups
INVARIANTS
    ServingIsReachable
    RestartBinds
PROPERTIES
    OrderlyExitCleansUp
    AcceptedIsNotCut
    StartsUp
    ShutsDown
