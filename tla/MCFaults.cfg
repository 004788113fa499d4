\* Two requests of two actors, either endpoint, with every way an exchange can fail and every
\* kind of body a host can send; the policy is binding.
SPECIFICATION Spec
CONSTANTS
    None = None
    t1 = t1 t2 = t2 t3 = t3 a1 = a1 a2 = a2
    alice = alice bob = bob c1 = c1 c2 = c2 h1 = h1 h2 = h2 ip = ip
    good = good video = video exe = exe huge = huge junk = junk
    Digest <- MCDigest
    Tasks = {t1, t2}
    Admins = {}
    Dids = {alice, bob}
    Cids = {c1, c2}
    Hosts = {h1, ip}
    DomainHosts = {h1}
    Bodies = {good, video, exe, huge, junk}
    AllowedBodies = {good, video, huge, junk}
    CappedBodies = {good, video, exe, junk}
    MediaBodies = {video}
    HomePds <- OnAnAddress
    Holdings <- EverybodyHolds
    Faults = {"refused", "garbled", "lost", "cut"}
    WorldChanges = {}
    Requests <- Everything
    Purges = {}
    AdminPassword = FALSE
    PolicyConfigured = TRUE
    PolicyFailOpen = FALSE
    Expiry = FALSE
    Disconnects = TRUE
INVARIANTS
    TypeOK
    ServedIsVerified
    ServedIsPermitted
PROPERTIES
    KeepsPromise
