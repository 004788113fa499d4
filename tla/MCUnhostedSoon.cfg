\* Three requests for a blob whose actor moves to a host that does not have it, in
\* time.  No policy.
SPECIFICATION TimedSpec
CONSTANTS
    None = None
    t1 = t1 t2 = t2 t3 = t3 a1 = a1 a2 = a2
    alice = alice bob = bob c1 = c1 c2 = c2 h1 = h1 h2 = h2 ip = ip
    good = good video = video exe = exe huge = huge junk = junk
    Digest <- MCDigest
    Tasks = {t1, t2, t3}
    Admins = {}
    Dids = {alice}
    Cids = {c1}
    Hosts = {h1, h2}
    DomainHosts = {h1, h2}
    Bodies = {good}
    AllowedBodies = {good}
    CappedBodies = {good}
    MediaBodies = {}
    HomePds <- Apart
    Holdings <- OnlyHomeHolds
    Faults = {}
    WorldChanges = {"migrate"}
    Requests <- AliceOnly
    Purges = {}
    AdminPassword = TRUE
    PolicyConfigured = FALSE
    PolicyFailOpen = FALSE
    Expiry = FALSE
    Disconnects = TRUE
    PolicyTtl = 1
    IdentityTtl = 2
    OwnershipTtl = 1
    Horizon = 5
    PolicyTimeout = 1
    IdentityTimeout = 1
    BlobHttpTimeout = 1
    ProcessingTimeout = 1
SYMMETRY TaskSymmetry
PROPERTIES
    UnhostedSoon
