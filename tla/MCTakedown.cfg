\* A purge of any kind beside two requests of two actors for one blob, while
\* the policy service takes blobs down.  The policy is binding.
SPECIFICATION Spec
CONSTANTS
    None = None
    t1 = t1 t2 = t2 t3 = t3 a1 = a1 a2 = a2
    alice = alice bob = bob c1 = c1 c2 = c2 h1 = h1 h2 = h2 ip = ip
    good = good video = video exe = exe huge = huge junk = junk
    Digest <- MCDigest
    Tasks = {t1, t2}
    Admins = {a1}
    Dids = {alice, bob}
    Cids = {c1}
    Hosts = {h1}
    DomainHosts = {h1}
    Bodies = {good}
    AllowedBodies = {good}
    CappedBodies = {good}
    MediaBodies = {}
    HomePds <- Together
    Holdings <- EverybodyHolds
    Faults = {}
    WorldChanges = {"takedown"}
    Requests <- Both
    Purges <- AnyPurge
    AdminPassword = TRUE
    PolicyConfigured = TRUE
    PolicyFailOpen = FALSE
    Expiry = FALSE
    Disconnects = TRUE
SYMMETRY TaskSymmetry
INVARIANTS
    PurgedStaysPurged
    RevokedIsNotServed
