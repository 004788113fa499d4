\* A purge of any kind beside two requests for one actor's blob, while the
\* actor migrates to another host and either host deletes the blob.  No policy.
SPECIFICATION Spec
CONSTANTS
    None = None
    t1 = t1 t2 = t2 t3 = t3 a1 = a1 a2 = a2
    alice = alice bob = bob c1 = c1 c2 = c2 h1 = h1 h2 = h2 ip = ip
    good = good video = video exe = exe huge = huge junk = junk
    Digest <- MCDigest
    Tasks = {t1, t2}
    Admins = {a1}
    Dids = {alice}
    Cids = {c1}
    Hosts = {h1, h2}
    DomainHosts = {h1, h2}
    Bodies = {good}
    AllowedBodies = {good}
    CappedBodies = {good}
    MediaBodies = {}
    HomePds <- Apart
    Holdings <- AllHostsHold
    Faults = {}
    WorldChanges = {"migrate","delete"}
    Requests <- AliceOnly
    Purges <- AnyPurge
    AdminPassword = TRUE
    PolicyConfigured = FALSE
    PolicyFailOpen = FALSE
    Expiry = TRUE
    Disconnects = TRUE
SYMMETRY TaskSymmetry
INVARIANTS
    PurgedStaysPurged
    RevokedIsNotServed
