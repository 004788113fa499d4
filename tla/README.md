# A formal model of Porxie

Porxie is a proxy for ATProto blobs. A request names an actor (a DID) and a blob
(a CID); the proxy asks a policy service whether the blob may be served, resolves
the actor's PDS host, downloads and verifies the bytes, checks that this actor has
the blob, and answers. Four caches are shared by all requests, and an admin can
purge them. This directory holds TLA+ modules for that core, the TLC runs that
check them on small instances, and theorems about them that TLAPS checks for every
value of the constants.

Paths below are relative to `crates/porxie/src/`, those of documents to the root of the
repository. `PROJECT.json` maps every definition to the lines it models and lists the
hazards of the code with the properties that cover them.

## 1. Inventory

| component | code | state | operations |
|---|---|---|---|
| policy client | `policy_client.rs` | decisions, cached per (DID, CID) | `get_policy`, two invalidations |
| identity service | `identity_service.rs` | PDS host, cached per DID | `pds_for_did`, two invalidations |
| blob service | `blob_service.rs` | bytes, cached per CID; ownership, cached per (CID, DID) | `fetch_blob`, `fetch_blob_ownership`, four invalidations |
| blob handlers | `server/routes/blob.rs`, `.../get_blob_metadata.rs`, `.../get_blob.rs` | the request's locals | policy, then bytes, then ownership, then the answer |
| purge handlers | `.../cache/purge_{actor,blob,all}.rs` | none | a sequence of invalidations |
| admin authentication | `server/extractors/admin_xrpc_auth.rs` | the password | admits a purge or answers 401 |
| router and layers | `server/mod.rs`, `server/middlewares/`, `server/routes/` | none | picks a route; headers, CORS, panics, time limits |
| listeners and shutdown | `server/mod.rs`, `server/socket_address.rs`, `main.rs` | the socket, or its file | bind, serve, drain, exit |
| command line | `main.rs` | the arguments | parses, and builds the services in an order |
| capped stream | `networking/http.rs` | a growing buffer | reads a body up to a cap |
| cache sizes and weights | `cache.rs`, `blob_service.rs` | what is admitted | splits the memory; weighs blobs |
| guarded DNS resolver | `networking/dns.rs` | none | drops private addresses |
| blob CID | `types/blob_cid.rs` | none | which CIDs are blobs; the check of a download |
| MIME sniffing | `porxie-mediautil` | none | infers a type, matches the allow-list |
| media metadata | `porxie-mediautil`, `.../get_blob_metadata.rs` | none | dimensions and durations, into the lexicon's types |
| lexicon types | `porxie-lexgen` | none | generated; only its builders and validation of media data carry logic |

How they interact. A handler calls the policy client, `fetch_blob` and
`fetch_blob_ownership` one after the other and awaits each. Both functions of the
blob service call `pds_for_did` from inside the init future of their own cache, so
loads nest. `fetch_blob` also inserts into the ownership cache. Purges invalidate
entries of all four caches while requests run. Everything runs as tasks on a
multi-threaded runtime, and a task may be dropped at any await: by its time limit
or because its client went away. Before all that, `main` parses the options, builds
the services and starts the server; a request passes the router and its layers; the
clients resolve host names through the guarded resolver; a blob's bytes are capped,
hashed and sniffed; and in the end a signal makes the server drain and exit.

What is hard, and what makes each component correct:

- *Coalescing* (`try_get_with`). Requests that miss on one key share one load,
  which is one request's own future. No waiter may be left behind when that load
  fails or is dropped, and the nesting of loads must not make requests wait in a
  circle. (`WaitersHaveLeader`, `NoCircularWait`, `RequestsFinish`)
- *Sharing across actors*. Bytes are cached by CID alone. What another actor's
  request has put there must be genuine and must not stand in for ownership.
  (`CachesAuthentic`, `ServedIsVerified`, `ServedIsVouched`, `CachedBytesHaveOwner`)
- *Policy*. Only what the policy service permitted is served, unless failing open
  is configured. (`ServedIsPermitted`)
- *Purges*. A purge runs beside requests, and half a purge may happen. A finished
  one must remove what was withdrawn. (`PurgedStaysPurged`, `RevokedIsNotServed`)
- *Time*. What is withdrawn without a purge, or during a load that races one, must
  be gone after a time that adds up from lifetimes and timeouts.
  (`ForbiddenSoon`, `UnhostedSoon`)
- *Untrusted hosts*. A host sends any bytes, of any length, cut anywhere, under a
  name that may resolve to anything. (`MemoryBounded`, `OkIsWhole`,
  `TooLargeIsTrue`, `StopsAtCap`, `PassedIsWhole`, `GivenIsPublic`)
- *The router*. Paths of actors and of XRPC methods have one shape; the order of the
  layers decides what a panic, a refusal and a preflight look like outside.
  (`XrpcStaysApart`, `PurgesAreAdmins`, `AnswersAreWhole`, `RefusalsNotStored`)
- *The life of a process*. A socket file outlives a crash; a shutdown must wait for
  what was accepted and for nothing else, and nothing limits how long that takes. (`ServingIsReachable`, `RestartBinds`,
  `OrderlyExitCleansUp`, `AcceptedIsNotCut`, `StartsUp`, `ShutsDown`)
- *Boundaries of numbers*: the memory split, the options, weights, media numbers.
  (`SizesPartition`, `ReadyIsSound`, `PanicsOverOptions`, `HeldFits`, `ReportsTheMedia`,
  `UnreadableHasNoData`, `VerdictIsTheList`)

## 2. Modules

    Base
     |- Moka            the caches (library)          Upstreams   the world outside
     |        \_______________________  ____________________/
     |- PolicyClient                  IdentityService
     |        \                            |
     |         \                      BlobService
     |          \_____  CachePurge _______/
     |                      |
     |                   Server ---- ServerProperties ---- MCServer ----.
     |                      |             |   \______ ServerProofs      |
     |                      |             |              /     \        |
     |- Gateway  <- refined by -----------'  GatewayProofs  PurgeProofs |
                            |                                           |
                        Freshness ------ FreshnessProofs -------- MCFreshness

    HttpServer - MCHttpServer, HttpServerProofs      one request through router and layers
    Lifecycle  - MCLifecycle, LifecycleProofs        processes and their socket

    CacheSizes - Options - OptionsProofs            \
    DnsGuard, BlobCid, ContentType, BytesStream,     >  MCParts
    MediaMetadata, BlobWeights   - PartsProofs      /

The modules meet in the code as follows, and each stands for the others at that
place. `HttpServer` lets a blob handler answer with any status the handlers of
`Server` have, and `Server` starts where a request has reached its handler. `Server`
takes from `BlobCid`, `BytesStream` and `ContentType` that a download is whole, has
the digest and has an allowed type, as `Digest`, `CappedBodies` and `AllowedBodies`.
`MediaMetadata` is what `Server` has as the one step `MetadataExtracted`. `Options`
says with which constants a server can be started, and ends where `Lifecycle` begins.

**Moka** is the cache library as the code uses it, stated from its call sites and
marked external. The four caches are one function `entries` whose keys carry the
name of the cache. `flight[k]` is the request that runs the init future of `k`,
`parked[t]` the key on whose waiter `t` is parked, `inbox[t]` what the library has
for `t`. `LookUp` is a look-up (`Hit`, `Park` or `Lead`), `Resolve` the return of an
init future, `DropFuture` its cancellation, `Invalidate` any of the three
invalidations. An invalidation does not stop a load that is running. An insertion
that the eviction policy turns down is an insertion followed by `Expire`.

**Upstreams** is the policy service, the DID directory and the PDS hosts, also
external. An exchange has two steps, the answer (from the state of that moment) and
its receipt, so an answer may be stale when it arrives. `Faults` says which failures
happen: `refused` (an error status), `garbled` (not a decision), `lost` (no answer,
or a time limit), `cut` (a body that breaks). `WorldChanges` says what changes:
a takedown, a migration, a deletion, each for good. `vouched` and `permitted` are
history variables: what was ever said.

**PolicyClient, IdentityService, BlobService** have one action per await of their
functions. `stage[t]`, `host[t]` and `bytes[t]` are the locals of an init future of
the blob service. `DownloadOutcome` has the order of the code: status, stream, cap,
digest, MIME type. The bytes are model values; their digest, type and size class
are constants (`Digest`, `AllowedBodies`, `CappedBodies`).

**CachePurge** is the three handlers: `PurgePlan` is the sequence of invalidations,
`PurgeStep` runs one, `DropPurge` cancels where the code awaits. Only a client that
goes away cancels a purge, because these routes have no time limit.

**Server** composes them. A task of `Tasks` serves one request; `pc[t]` names the
await of its handler. The getBlob shim and the path route call the same handler and
are one operation. `Drop` is the time limit (408) or a lost client. `watch`,
`purged` and `late` are history for the properties of purges.

**ServerProperties** states what the server must keep. **Gateway** is the abstract
specification, with no cache and no exchange: a request is answered once, and 200 is
for genuine bytes of a vouched and, where the policy binds, permitted pair.
`KeepsPromise` says that the server implements it under the mapping of `Promise`.

**Freshness** puts a clock beside `Server`. Steps of the server take no time; time
passes between them, by `Tick`, only as long as no exchange and no request is due.
`stored`, `asked` and `arrived` are when an entry was written, an exchange begun, a
request received; a `Tick` removes the entries whose time to live has passed. `gone`
is history: since when a fact a 200 relies on is withdrawn.

**HttpServer** takes one request through the layers in their order: the route is picked
from the path as it came, `depth` counts the layers the request has passed, `way`
whether it goes in, comes out or unwinds. A handler answers, panics, or is cut by the
`TimeoutLayer`; the extractors run before it, the password check first.

**Lifecycle** has one action per step of `Server::start` and `shutdown_signal`:
`Launch`, `RemoveStaleFile`, `Bind`, `Serve`, `Shutdown`, `Drained`, `Exit`, and
`Die` at any point. A connection is accepted once the first of its request is read, and
answered once the last of the answer is written. `bound` is where the address leads: to a listener, or to a file
that a dead process left. `setup` says whether the address is a UNIX socket and
whether a process may be started before the previous one is gone.

**Options** is `AppArgs::parse` and `main` up to the start: the value parsers, the
options that require another, and the parts in the order `main` builds them in. A part
panics over a lifetime moka refuses, that of the identities also over a directory's URL
that `fluent_uri` does not read; or `main` returns the error of the part's HTTP client
(`failed`), which each constructor builds at its own place. It uses **CacheSizes**, the split of the memory.

**DnsGuard** has the predicates of the resolver bit by bit, with those of `core::net`
it calls (external), and the filter over a look-up's answer. **BlobCid** has the
checks of `try_from_cid` and the comparison of a download with the computed CID; a
digest is a length and the contents it is of. **ContentType** has `sniff_mime` around
the inference of the `infer` crate, and `is_mime_allowed`. **MediaMetadata** has both
extractions, the casts and the lexicon's builders, with words of `Word` bits.
**BlobWeights** has the weigher beside what moka does with weights. **BytesStream** is
the loop of `bytes_stream_capped` with the growth of its vector.

**MCParts** runs these together, one at a time: `active` is the part that runs, the
others stay as they are. They share nothing, so running them together checks each as
running it alone would.

Operators whose comment begins with *A bug:* are not part of the model. Each is a
plausible mistake in the definition that follows it, and shows that a property
notices it.

## 3. Runs

`tlc -workers 2 -config X.cfg M` runs each of them.

| run | cfg | what it shows |
|---|---|---|
| coalescing | `MCCoalesce` | three requests of two actors for one blob, loads failing and being dropped: `WaitersHaveLeader`, `NoCircularWait`, `CachedBytesHaveOwner`, `RequestsFinish` |
| faults | `MCFaults` | both endpoints, every failure, every kind of body, an actor whose host is an IP literal: `TypeOK`, `ServedIsVerified`, `ServedIsPermitted`, `KeepsPromise` |
| takedown | `MCTakedown` | decisions withdrawn beside requests and a purge: `PurgedStaysPurged`, `RevokedIsNotServed` |
| move | `MCMove` | an actor migrates and hosts delete the blob beside requests and a purge, with expiry: the same two |
| sharing | `MCShared` | a blob only one of two actors has, beside a failing policy service that does not bind, with expiry and drops: `CachesAuthentic`, `ServedIsVouched`, `RequestsFinish` |
| shared_error | `MCSharedError` | **violated**: `NotFoundMeansAbsent`, see below |
| forbidden_soon | `MCForbiddenSoon` | a takedown and a purge against the clock, also with a load that races the purge: `ForbiddenSoon` |
| unhosted_soon | `MCUnhostedSoon` | an actor moves away from a blob, against the clock: `UnhostedSoon` |
| http_server | `MCHttpServer` | every method, kind of path and credentials, with a password and without, with panics: `XrpcStaysApart`, `PurgesAreAdmins`, `AnswersAreWhole`, `RefusalsNotStored` |
| http_subpaths | `MCHttpSubpaths` | **violated**: `SubpathsNotImplemented`, see below |
| lifecycle | `MCLifecycle` | three processes and two connections, on a port and on a UNIX socket, with crashes, restarts and overlaps: `ServingIsReachable`, `RestartBinds`, `OrderlyExitCleansUp`, `AcceptedIsNotCut`, `StartsUp`, `ShutsDown` |
| parts | `MCParts` | every part that no two requests share, over the boundaries of its inputs; thirteen invariants |

### Bounds

- *Requests.* Each task serves one request, so `Tasks` bounds how many there are.
  Three is the least number with a leader, a waiter that takes over, and one that
  still waits; `coalescing` has three. What two requests can do to each other through
  a cache needs two.
- *Actors and blobs.* Two actors are needed for sharing; a blob is only ever looked
  up by its own CID, so a second CID adds the other endpoint and no interaction.
- *Hosts.* Two: the actors' own, or an old one and a new one; in `MCFaults` the
  second is an IP literal.
- *Bodies.* One of each kind that `fetch_blob` tells apart: genuine and allowed,
  a video, a disallowed type, too large, the wrong digest.
- *Purges.* One of any kind, by one admin, that may be cancelled. In `sharing` any
  entry may expire at any time, which removes all that a purge could.
- *Changes of the world.* Each happens once per decision, actor and copy.
- *Time.* Lifetimes of one to three units and timeouts of one. `Horizon` is the
  least clock that goes beyond the sum the property allows: a 200 after
  that sum is within reach, and the mutants reach it. The sums are exact: with one unit less either
  property is violated. Three requests in `unhosted_soon` are one that fills the
  identity cache, one that then fills the ownership cache, and one that is served
  from it; two in `forbidden_soon` are the one that loads and the one that is served.
- *HTTP.* A path for every route and one beside each: empty segments, a trailing
  slash, too many segments, an unknown method.
- *Processes.* Three: one that crashes or drains, one that replaces it, and one
  after that; two connections, one that is queued and one that is accepted.
- *Parts.* Options at and next to what their parsers refuse, and cache sizes around
  the least one and around the point where a tenth reaches 48 MB. Both ends of each
  address range, the addresses beside them, mapped into IPv6 too, and answers of up to
  three addresses. A cap of 11 with chunks of 1, 3 and 4: chunks end below, at and
  above it. All combinations of codec, version, hash function, length of the digest
  and contents. An SVG marker around the edge of the sniffed part, lists of up to two
  patterns. Words of six bits. Blobs around a greatest weight of 8.

`TaskSymmetry` permutes tasks, which no definition tells apart; the runs with a
liveness property do not use it.

### Fairness

`FairSpec` asks that a request that can go on does (`WF_vars(Handle(t))`): the
runtime polls every woken task, and every exchange has a time limit in its HTTP
client, so it is answered or `lost`. `RunPurgeStep` is fair because nothing in a
purge waits on the outside. Nothing makes a client go away, an entry expire, the
world change or a request arrive. In particular `RequestsFinish` does not lean on
the time limit of the route, which ends any request, even one that hangs.

`FairLifeSpec` asks that a process goes on by itself (`WF_lifeVars(Proceed(p))`): `Proceed`
has the steps of `main`, none of which waits for a client but `Drained`, which is enabled
only when none is left. No signal, crash, start or connection is fair, and no answer:
`with_graceful_shutdown` (`server/mod.rs:155-157`, `168-170`) has no deadline, the head of
a request is read without one, the purge routes have no time limit, and that of the blob
routes ends where the answer's head begins. So `ShutsDown` has the assumption in it that
in the end no client is being served (`ClientsFinish`). Without the assumption TLC finds
the behaviour in which one client stalls and the process drains for ever.

### Disagreements the runs show

The comment on `fetch_blob` (`blob_service.rs:176-178`) says that if the initial
fetch fails "the next pending request will try instead, continuing until one
succeeds or all have failed". The code hands the leader's error to every waiter. As
the load is shared by CID, a request about an actor who has the blob is answered
404, or 424 or 502, on account of another actor's host: the run `shared_error` shows
it in a world where nothing fails, changes or is dropped. What the code does promise
is weaker: a later request tries again, because errors are not cached.

The changelog (`CHANGELOG.md:17`) says that "XRPC subpaths now correctly return
`XrpcNotImplemented` on 404." The catch-all of the XRPC router is `/{rest}`
(`server/mod.rs:116`), one segment: `/xrpc/a/b` gets axum's bare 404, and so do
`/xrpc/` and `/xrpc/unknown/`. `NormalizePathLayer` (`server/mod.rs:121`) does not
help, because a layer added to a router runs after the route was picked. The run
`http_subpaths` asks for such a path.

### Disagreements met while reading

No run states these; each is where a reader of the documents would be misled.

- `networking/dns.rs:64` refuses 3fff::/18. The documentation prefix of RFC 9637 is
  3fff::/20, so a few public addresses are refused; `V6Ranges` has what the code's
  comment says.
- The lexicon of `getBlobMetadata` gives width and height a minimum of 1, and the
  extraction of videos answers 0 where a tag is missing; a tag, or the header of an
  image, may also say 0. `ReportsTheMedia` asks for a valid ratio only where the media
  has dimensions and they are not 0.
- The README of the repository (lines 139 and 186) says that neither the largest blob
  nor the memory for the caches can be set higher than the system's memory. Nothing in
  `main.rs` looks at the system's memory.
- It calls the latter the total memory of the cache. A blob longer than 4 GiB
  weighs `u32::MAX`, less than it is, so `HeldFits` is stated for shorter ones.
- `identity_service.rs:74` expects that "conversion between url and fluent_uri should
  always succeed". The first parser is lenient: it keeps `|`, `[` and `]` in a path, which
  RFC 3986 does not allow, so `--identity-plc-url 'https://plc.directory/a|b'` passes the
  command line and `main` panics. `PanicsOverOptions` has this beside the lifetimes.
- On a UNIX socket, a process that exits in order removes the file even if a younger
  process has bound there since. `ServingIsReachable` and `OrderlyExitCleansUp` leave
  processes that overlap on a UNIX socket out.

## 4. Proofs

`tlapm M.tla` checks each module's proofs.

- **ServerProofs**: `TypeCorrect`, `CachesStayAuthentic`, `ServesVerified`,
  `ServesVouched`, `ServesPermitted`, `WaitersAreLed`, `WaitsAreNotCircular`, for any
  sets of tasks, actors, blobs, hosts, purges and admins, any faults and changes.
- **GatewayProofs**: `Implements`, that `Spec` implies `KeepsPromise`.
- **PurgeProofs**: `PurgesLast`, `RevocationsHold`, and `CachedBytesStayOwned` with its
  corollary `BytesOwnedWithoutPurges`, for the same constants.
- **FreshnessProofs**: `ForbidsSoon`, `UnhostsSoon`, of `TimedSpec`, for the same
  constants and any lifetimes, timeouts and horizon.
- **HttpServerProofs**: `XrpcIsApart`, `OnlyAdminsPurge`, `AnswersStayWhole`,
  `RefusalsStayUnstored`, for any requests and passwords.
- **LifecycleProofs**: `AddressLeads`, `StartsAfterCrash`, `ShutdownIsGraceful`,
  `ExitsInOrder`, for any number of processes and connections.
- **OptionsProofs**: `Partition`, `StartsSound`, `PanicsAreExplained`, for every command
  line, whatever sizes and URLs it gives.
- **PartsProofs**: `DownloadsAreWhole` for any CIDs, hash functions and contents;
  `VerdictsFollowTheList` for any types and lists; `ReportsAreTrue` and
  `DataUnlessUnreadable` for any media and any width of the integers;
  `ClientGetsPublic` for answers of any length made of any IPv4 and IPv6 addresses;
  `BytesFit` for any blobs and any capacity; and the four properties of the stream, for
  every cap, chunk size and length.

With these every property that a passing run checks has a theorem, but for liveness.

*Assumptions.* Each is on constants, and TLC evaluates it in a run. `NoneAssumption`,
`NoneIsNothing`, `NobodyAssumption` and `CidAssumption`: what stands for no value is none
of the values it is beside. `WorldAssumption`: the first hosts and holdings are well
typed, and no host is named like a failure. `HostAssumption`, `RequestAssumption`,
`SizeAssumption`, `LengthAssumption`: types. `PurgeAssumption`: purgeBlob names a CID,
which the extractor makes sure of. `HttpAssumption`: credentials are a user and a
password. `LineAssumption` and `ArgsAssumption`: sizes are numbers where they are
readable. `MediaAssumption`: a blob is no longer than `isize::MAX`, as no slice is, and
its tags are unsigned. `AnswersAssumption`: a look-up answers with addresses, of four
octets or eight segments, or fails. `TimesAssumption`: lifetimes and timeouts are natural
numbers, zero included. `NoneIsNoAnswer`: an answer, and an outcome made of it, is told
apart from its absence.

*The argument for the server.* The properties are not inductive: that what is served
is vouched for depends on what an inbox holds, which depends on what the load
another task ran has stored, which depends on the answer that was on the wire. `IInv`
is the conjunction of `TypeOK`, `CachesAuthentic` and six parts for each task.
`LeadInv`: a task leads at most the load its handler awaits and, inside it, the load
of its identity. `StageInv`: an init future's locals exist exactly while it runs, and
past the digest check they are genuine and vouched for. `WaitInv`: a waiter waits for
what it asked for, on another task. `InboxInv`: a delivered success is authentic
under the awaited key. `WireInv`: an answer travels only to the leader that asked and
bears out what it says. `HandlerInv`: what the handler has established at each await.
A step of one task leaves another's part intact when it only grows what was said and
wakes it, if at all, with an authentic outcome (`OthersKeepInv`, `MokaFrame`); so
each action is proved for its own task and framed for the others. `NoCircularWait`
follows from `LeadInv` and `WaitInv`: whoever leads an identity is at stage `pds` and
awaits that very identity, so it is parked on nothing.

*The refinement.* Every step that answers maps to `Refuse` or `Serve`, the arrival to
`Ask`, an upstream's answer to `Vouch` or `Permit`, and everything else to a stutter;
`IInv` gives the guards of `Serve`.

*Purges.* `PInv` has, beside `IInv`, what is left of a fact once it is withdrawn. It is
settled (`Settled`) when also no load in flight was told otherwise: nothing stale is
then on the wire, at a later stage of a load, or about to be stored, and the world takes
no withdrawal back, so it stays settled. `PurgeInv` says that the steps a purge has done
have cleared what they were to clear, for good, and that a purge that is not over has
steps left; a purge that ends has run through all of its plan, which has everything its
lexicon covers (`PlanRemoves`). `LateInv` follows a request that arrives afterwards: it
is not told, and does not act on, what was purged. `NoPolicyInv` is for the server
without a policy service, whose purges have no step for its cache.

*Time.* `TimeInv` has two halves. `PunctualInv`: nothing is late, since a `Tick` waits for
what is due and removes what has expired. `PermissionInv` and `HostingInv` say, for each
place in which a withdrawn fact can still show, how long after the withdrawal what is
there may have begun (`By`): an answer on the wire was asked for before it, an entry was
stored within one timeout of it, a request that acts on the entry arrived within one
lifetime more (`PolicySeen`). For a hosting the chain has two more links, as a request
that goes to the old host marks the pair as owned while it is served
(`OwnershipTold`, `OwnershipSeen`). Each link is one lemma about who can put something
there: an answer is of its moment (`AnswersAreCurrent`), what a task is told is the entry
or what the leader was answered (`Told`), and an entry that changes is sourced likewise
(`StoredStays`). A purge does not enter: the bound holds also where one raced the load.

*Owners of bytes.* `CachedBytesHaveOwner` does not hold while entries expire or are
purged, as the two caches forget separately. Under `NothingRemoved`, which says that a
step keeps every entry, the invariant `OwnerInv` adds that an init future at its stage
`ret` has marked its pair.

*HTTP.* By induction over the request's way through the layers: what has run belongs to
the route and, for a purge, to the admin (`RanInv`), and an answer has the marks of the
layers it has passed (`AnswerInv`), whatever it was when it left the handler (`Sound`).

*The parts.* The invariant of each says that a step's result is the function of its input
that the code computes (`CidInv`, `MimeInv`, `MediaInv`, `DnsInv`, `WeightsInv`); the rest
are facts about these functions. For the resolver they are lemmas about single addresses:
two addresses differ at a least position (`LeastOf`), so an address lies within a range
given by its prefixes exactly when its parts do (`PrefixRange`), which is compared with
masks and patterns for both families (`SafeIsPublic`). Sums over sets of blobs are
unfolded one blob at a time (`SumsAgree`), by an argument with a least counterexample,
because the induction theorems of the library cannot be instantiated.

*The stream.* The invariant adds that the buffer holds all that was sent until the
stream is given up, and never more than was declared.

*Processes.* That a start finds the address free is not inductive. `LifeInv` adds who
has a listener (`ListenersServe`), that without overlap whoever runs runs alone
(`RunsAlone`), that a port in use has a listener (`PortHasListener`), and that what a
process has cleared stays clear until it binds (`ClearIsFree`). The two action
properties follow from it step by step.

*The command line.* What the parser admits (`Checked`) holds of the arguments from
then on, and `main` has always built a prefix of its parts, none of which panics
(`Prefix`). As every cache that is built has a part, and the directory's URL too
(`PartsHaveAll`), a server that starts has nothing main would have panicked over. The split of
the memory is a lemma about natural numbers (`SharesFit`).

## 5. Only model-checked

`RequestsFinish`, `StartsUp` and `ShutsDown` are liveness, which the prover does not
reach; `ShutsDown` holds for clients that finish. Both disagreements are single behaviours that TLC finds.

## 6. Abstractions, and what is not modelled

- `Server` itself has no time: entries expire and requests are dropped at any moment.
  `Freshness` has it, for the caches with a time to live; the bytes of a blob do not
  go stale, and their cache expires by idleness alone.
- A load in flight when a purge begins may store, after the purge, what it was told
  before: the caches allow it, no document excludes it, and `PurgedStaysPurged` is
  stated for the other loads. `ForbiddenSoon` bounds how long it shows.
- moka panics after some 200 look-ups in a row whose leader was dropped: the limit is
  the library's and beyond these instances. What a panic of a handler looks like
  outside is in `HttpServer`.
- The order of eviction: an entry may vanish at any time.
- In `Server` malformed input is answered 422; `HttpServer` has the extractors'
  statuses. A cancelled request is recorded as 408 whether or not somebody is there
  to read it.
- `CidUnsupportedMultihash` and the check of a CID's version cannot be reached after
  the checks before them; `BlobCid` has them, and `PassedIsWhole` says so of the first.
- The floating-point products of `compute_cache_sizes` are the integer quotients:
  below 480 MB a truncated `n * 0.10` is `n \div 10`, and above it the cap decides.
- The options that only have to be readable are one, `others`. That an HTTP client cannot
  be built is a choice: the options have no part in it that the model tells apart.
- Purges and an old host: as long as a host that the actor has left still has the blob, an
  ownership it vouched for does not count as withdrawn, so `PurgedStaysPurged` and
  `RevokedIsNotServed` say nothing of it. A request that read the old host before a purge
  may mark the pair after it. `UnhostedSoon` bounds how long that shows.
- A request past its policy check is served whatever is taken down, or purged, meanwhile;
  `ForbiddenSoon` bounds that.
- TLC has one admin. A half purge followed by another one is in the theorems alone.
- Blobs longer than `u32::MAX` weigh less than they are, so for them the cache holds more
  than its capacity; no property bounds how much.
- The drain takes as long as the slowest client. How fast a client sends and reads is left
  open, as is an end of the drain by force: that is `Die`.
- A connection carries one request; keep-alive adds only connections that are idle.
- Not modelled: the configuration of the HTTP clients and their redirects, compression,
  `TraceLayer` and logging, the values of headers beyond caching and authentication, the
  bodies of answers beyond what is reported of media, the codecs of images and
  videos, and the generated lexicon types apart from the builders and the validation
  the metadata endpoint uses: they are accessors, conversions and schema text.

## 7. Plan

Done: the caches and services, `Server`, `Gateway`, `Freshness`, `HttpServer`,
`Lifecycle`, and the parts in `MCParts`, with proofs of every invariant and of every
action property.

To prove more: the half of `RequestsFinish` that is no liveness. Between two failures a
request takes only so many steps (a measure that every `Handle` step of its task lowers),
and a task that cannot step waits for one that leads.
