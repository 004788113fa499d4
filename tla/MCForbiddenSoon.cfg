\* Two requests for a blob that is taken down and purged, in time.  The policy is
\* binding, and its exchanges take up to their timeout.
SPECIFICATION TimedSpec
CONSTANTS
    None = None
    t1 = t1 t2 = t2 t3 = t3 a1 = a1 a2 = a2
    alice = alice bob = bob c1 = c1 c2 = c2 h1 = h1 h2 = h2 ip = ip
    good = good video = video exe = exe huge = huge junk = junk
    Digest <- MCDigest
    Tasks = {t1, t2}
    Admins = {a1}
    Dids = {alice}
    Cids = {c1}
    Hosts = {h1}
    DomainHosts = {h1}
    Bodies = {good}
    AllowedBodies = {good}
    CappedBodies = {good}
    MediaBodies = {}
    HomePds <- Together
    Holdings <- EverybodyHolds
    Faults = {}
    WorldChanges = {"takedown"}
    Requests <- AliceOnly
    Purges <- PurgeOfTheBlob
    AdminPassword = TRUE
    PolicyConfigured = TRUE
    PolicyFailOpen = FALSE
    Expiry = FALSE
    Disconnects = TRUE
    PolicyTtl = 2
    IdentityTtl = 3
    OwnershipTtl = 2
    Horizon = 4
    PolicyTimeout = 1
    IdentityTimeout = 1
    BlobHttpTimeout = 1
    ProcessingTimeout = 1
SYMMETRY TaskSymmetry
PROPERTIES
    ForbiddenSoon
