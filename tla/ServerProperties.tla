-------------------------- MODULE ServerProperties --------------------------
(* What the server must keep, whatever the interleaving of requests, purges,*)
(* expiries, drops and changes of the world.                               *)
EXTENDS Server

-----------------------------------------------------------------------------
(* Types.                                                                  *)

Decisions == {"Allowed", "Forbidden"}
Locations == {"idle", "policy", "data", "owner", "metadata", "done"}
WireAnswers == {"allowed", "forbidden", "owned", "notFound",
                "refused", "garbled", "lost", "cut"} \cup Hosts \cup Bodies

Values == Decisions \cup Hosts \cup Bodies \cup {"owned"}

Errors == {"StatusCode", "Deserialize", "HttpClient", "Identity",
           "BlobResolutionFailure", "NotFound", "ErrorStatusCode", "FetchFailure",
           "StreamFailed", "TooLarge", "CidMismatch", "ForbiddenMimeType"}
Outcomes == {Aborted} \cup {Ok(v) : v \in Values} \cup {Err(e) : e \in Errors}

MokaTypeOK ==
    /\ entries \in [CacheKeys -> Values \cup {None}]
    /\ flight \in [CacheKeys -> Tasks \cup {None}]
    /\ parked \in [Tasks -> CacheKeys \cup {None}]
    /\ inbox \in [Tasks -> Outcomes \cup {None}]

UpstreamsTypeOK ==
    /\ verdict \in [Dids \X Cids -> {"allowed", "forbidden"}]
    /\ pds \in [Dids -> Hosts]
    /\ holds \subseteq Hosts \X Dids \X Cids
    /\ wire \in [Tasks -> WireAnswers \cup {None}]
    /\ vouched \subseteq Dids \X Cids
    /\ permitted \subseteq Dids \X Cids

HandlersTypeOK ==
    /\ stage \in [Tasks -> {"none", "pds", "get", "own", "ret"}]
    /\ host \in [Tasks -> Hosts \cup {None}]
    /\ bytes \in [Tasks -> Bodies \cup {None}]
    /\ pc \in [Tasks -> Locations]
    /\ req \in [Tasks -> Requests \cup {None}]
    /\ blob \in [Tasks -> Bodies \cup {None}]
    /\ resp \in [Tasks -> {0, 200, 403, 404, 408, 410, 413, 422, 424, 500, 502}]

PurgesTypeOK ==
    /\ order \in [Admins -> Purges \cup {None}]
    /\ step \in [Admins -> Nat]
    /\ answer \in [Admins -> {0, 200, 401, 422, 499}]
    /\ watch \in [Admins -> SUBSET CacheKeys]
    /\ purged \subseteq CacheKeys
    /\ late \in [Tasks -> SUBSET CacheKeys]

\* The types of the variables.
TypeOK == MokaTypeOK /\ UpstreamsTypeOK /\ HandlersTypeOK /\ PurgesTypeOK

-----------------------------------------------------------------------------
(* What is served.                                                         *)

Served(t) == resp[t] = 200
PairOf(t) == <<req[t].did, req[t].cid>>

\* A 200 is about bytes with the digest of the requested CID, within the size
\* cap and of an allowed type, even when another request downloaded them from
\* another actor's host (fetch_blob's checks and its cache keyed by CID).
ServedIsVerified == \A t \in Tasks : Served(t) => blob[t] \in Verified(req[t].cid)

\* A 200 for an actor needs a host of that actor to have answered 2xx for the
\* blob: bytes cached on behalf of another actor are not enough (the ownership
\* check of both handlers).
ServedIsVouched == \A t \in Tasks : Served(t) => PairOf(t) \in vouched

\* Where a policy service is configured and failing open is not, a 200 needs a
\* decision that allowed this very pair, from the service or its cache.
ServedIsPermitted ==
    PolicyConfigured /\ ~PolicyFailOpen =>
        \A t \in Tasks : Served(t) => PairOf(t) \in permitted

\* What an entry v under k claims is true, or was when an upstream said it.
Authentic(k, v) ==
    /\ k \in PolicyKeys => v \in Decisions /\ (v = "Allowed" => <<k[2], k[3]>> \in permitted)
    /\ k \in IdentityKeys => v \in DomainHosts
    /\ k \in DataKeys => v \in Verified(k[3])
    /\ k \in OwnershipKeys => v = "owned" /\ <<k[2], k[3]>> \in vouched

\* No cache holds what was not checked: neither a load that failed or was
\* dropped half-way nor one that raced a purge leaves such an entry.
CachesAuthentic == \A k \in CacheKeys : entries[k] # None => Authentic(k, entries[k])

-----------------------------------------------------------------------------
(* Coalescing.                                                             *)

\* The key the handler of t looks up, and the one t waits for at its await.
MainKey(t) ==
    CASE pc[t] = "policy" -> PolicyKey(req[t].did, req[t].cid)
      [] pc[t] = "data"   -> DataKey(req[t].cid)
      [] OTHER            -> OwnershipKey(req[t].did, req[t].cid)
AwaitedKey(t) == IF stage[t] = "pds" THEN IdentityKey(req[t].did) ELSE MainKey(t)

\* A parked task waits for what its handler asked for, on a load some other
\* task still runs: no failure, drop or purge leaves a waiter behind.
WaitersHaveLeader ==
    \A t \in Tasks : parked[t] # None =>
        /\ parked[t] = AwaitedKey(t)
        /\ flight[parked[t]] \in Tasks \ {t}
        /\ inbox[t] = None

\* Waiting is never circular though a load of a blob waits inside the load of
\* an identity: whoever loads an identity is not parked, and whoever loads
\* anything else is parked on an identity at most.
NoCircularWait ==
    \A k \in CacheKeys :
        flight[k] # None =>
            \/ parked[flight[k]] = None
            \/ k \notin IdentityKeys /\ parked[flight[k]] \in IdentityKeys

\* While nothing expires or is purged, cached bytes have a known owner: the pair
\* is marked before the bytes are stored (the comment at the ownership check:
\* it "will just return from cache if the blob was just fetched").
CachedBytesHaveOwner ==
    \A c \in Cids : entries[DataKey(c)] # None =>
        \E d \in Dids : entries[OwnershipKey(d, c)] # None

-----------------------------------------------------------------------------
(* Purges.                                                                 *)

\* What an entry v under k says of a withdrawn fact.
Stale(k, v) ==
    \/ k \in PolicyKeys /\ v = "Allowed"
    \/ k \in IdentityKeys /\ v = HomePds[k[2]]
    \/ k \in OwnershipKeys

\* A fact was withdrawn upstream, then a purge that is about it ran to its end,
\* and no load of it was in flight when the purge began: no cache says it ever
\* again, whatever requests ran beside the purge.  (A load that was in flight
\* may store what it was told before: the caches do not prevent that.)
PurgedStaysPurged ==
    \A k \in purged : entries[k] # None => ~Stale(k, entries[k])

\* A request that arrives after such a purge of the decision on its pair, or of
\* its ownership, is not served.
RevokedIsNotServed ==
    \A t \in Tasks : Served(t) =>
        /\ OwnershipKey(req[t].did, req[t].cid) \notin late[t]
        /\ PolicyConfigured /\ ~PolicyFailOpen =>
             PolicyKey(req[t].did, req[t].cid) \notin late[t]

-----------------------------------------------------------------------------
(* Errors.                                                                 *)

\* blob_service.rs: "If the initial fetch fails, the next pending request will
\* try instead".  So in a world where nothing fails, changes or is dropped, 404
\* is for a blob the actor's host does not have.
NotFoundMeansAbsent ==
    \A t \in Tasks : resp[t] = 404 => <<pds[req[t].did], req[t].did, req[t].cid>> \notin holds

-----------------------------------------------------------------------------
(* Liveness.                                                               *)

\* The runtime polls every task that can go on, every exchange is answered or
\* times out, and a purge that was admitted runs to its end.  Nothing makes a
\* client go away, an entry expire or the world change.
FairSpec ==
    /\ Spec
    /\ \A t \in Tasks : WF_vars(Handle(t))
    /\ \A a \in Admins : WF_vars(RunPurgeStep(a))

\* Every request that arrives is answered: no wakeup is lost when a load fails
\* or its leader is dropped while others are parked on it.
RequestsFinish == \A t \in Tasks : (pc[t] # "idle") ~> (pc[t] = "done")

-----------------------------------------------------------------------------
(* Refinement.                                                             *)

Promise == INSTANCE Gateway WITH
    Pairs <- Dids \X Cids,
    Genuine <- [c \in Cids |-> Verified(c)],
    PolicyBinding <- PolicyConfigured /\ ~PolicyFailOpen,
    asked <- req,
    status <- resp,
    content <- [t \in Tasks |-> IF resp[t] = 200 THEN blob[t] ELSE None]

\* The server keeps the promise made to its clients.
KeepsPromise == Promise!Spec
=============================================================================
