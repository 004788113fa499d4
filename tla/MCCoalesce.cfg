\* Three requests of two actors for one blob only one of them has; every exchange may
\* fail, every client may go away.  No policy service.
SPECIFICATION FairSpec
CONSTANTS
    None = None
    t1 = t1 t2 = t2 t3 = t3 a1 = a1 a2 = a2
    alice = alice bob = bob c1 = c1 c2 = c2 h1 = h1 h2 = h2 ip = ip
    good = good video = video exe = exe huge = huge junk = junk
    Digest <- MCDigest
    Tasks = {t1, t2, t3}
    Admins = {}
    Dids = {alice, bob}
    Cids = {c1}
    Hosts = {h1, h2}
    DomainHosts = {h1, h2}
    Bodies = {good}
    AllowedBodies = {good}
    CappedBodies = {good}
    MediaBodies = {}
    HomePds <- Apart
    Holdings <- OnlyBobHolds
    Faults = {"lost"}
    WorldChanges = {}
    Requests <- Both
    Purges = {}
    AdminPassword = FALSE
    PolicyConfigured = FALSE
    PolicyFailOpen = FALSE
    Expiry = FALSE
    Disconnects = TRUE
INVARIANTS
    WaitersHaveLeader
    NoCircularWait
    CachedBytesHaveOwner
PROPERTIES
    RequestsFinish
