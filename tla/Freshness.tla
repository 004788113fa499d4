------------------------------ MODULE Freshness ------------------------------
(***************************************************************************)
(* The server in time: how long it goes on serving what its upstreams have *)
(* withdrawn.  An entry lives no longer than its cache's time to live, an  *)
(* exchange no longer than the timeout of its HTTP client, a request no    *)
(* longer than the processing timeout of its route.  The steps of Server   *)
(* take no time; time passes between them, and only as long as nothing is  *)
(* due.  The bytes of a blob do not go stale, so their cache, which expires *)
(* by idleness, is left to EntryExpires.                                   *)
(***************************************************************************)
EXTENDS Server

CONSTANTS
    PolicyTtl, IdentityTtl, OwnershipTtl,  \* --cache-policy-ttl and so on
    PolicyTimeout, IdentityTimeout,        \* ten seconds, both
    BlobHttpTimeout,                       \* --blob-http-timeout
    ProcessingTimeout,                     \* --blob-processing-timeout
    Horizon                                \* bounds the clock

ASSUME TimesAssumption ==
    {PolicyTtl, IdentityTtl, OwnershipTtl, PolicyTimeout, IdentityTimeout,
     BlobHttpTimeout, ProcessingTimeout, Horizon} \subseteq Nat

\* What an upstream says, and what the caches make of it, is something.
ASSUME NoneIsNoAnswer ==
    \A v \in Hosts \cup Bodies \cup {"allowed", "Allowed", "Forbidden", "owned"} :
        None # v /\ None # Ok(v)

VARIABLES
    now,      \* the clock
    stored,   \* stored[k]: when the entry under k was last written, 0 where none
    asked,    \* asked[t]: when the exchange of t began, 0 where none
    arrived,  \* arrived[t]: when the request of t arrived, 0 before
    gone      \* gone[f]: since when the fact f is withdrawn, None while it holds

clockVars == <<now, stored, asked, arrived, gone>>
timedVars == <<vars, clockVars>>

Pairs == Dids \X Cids

\* The facts a 200 relies on: the service allows the pair; the actor's host of
\* this moment has the blob.
Facts == {"allowed", "hosted"} \X Pairs
Holds(f) ==
    IF f[1] = "allowed" THEN verdict[f[2]] = "allowed"
                        ELSE <<pds[f[2][1]], f[2][1], f[2][2]>> \in holds

TimedInit ==
    /\ Init
    /\ now = 0
    /\ stored = [k \in CacheKeys |-> 0]
    /\ asked = [t \in Tasks |-> 0]
    /\ arrived = [t \in Tasks |-> 0]
    /\ gone = [f \in Facts |-> IF Holds(f) THEN None ELSE 0]

-----------------------------------------------------------------------------
(* Time to live.                                                           *)

\* A bug: the policy cache is given the identity cache's time to live.
TtlSwapped(k) ==
    CASE k \in PolicyKeys    -> IdentityTtl
      [] k \in IdentityKeys  -> PolicyTtl
      [] k \in OwnershipKeys -> OwnershipTtl
      [] OTHER               -> Horizon + 1

\* A bug: the ownership cache is given none either.
TtlForgotten(k) ==
    CASE k \in PolicyKeys    -> PolicyTtl
      [] k \in IdentityKeys  -> IdentityTtl
      [] OTHER               -> Horizon + 1

\* The time to live of k's cache; that of the blobs has none.
Ttl(k) ==
    CASE k \in PolicyKeys    -> PolicyTtl
      [] k \in IdentityKeys  -> IdentityTtl
      [] k \in OwnershipKeys -> OwnershipTtl
      [] OTHER               -> Horizon + 1

\* The entries that are not there any more at time n.
Expired(n) == {k \in CacheKeys : entries[k] # None /\ n >= stored[k] + Ttl(k)}

\* This step writes the entry under k: its init future succeeds, or a fetch of
\* the bytes marks its pair.
Written(k) ==
    \/ /\ flight[k] # None /\ flight'[k] = None
       /\ inbox'[flight[k]] # None /\ inbox'[flight[k]].tag = "ok"
    \/ \E t \in Tasks : /\ stage[t] = "own" /\ stage'[t] = "ret"
                        /\ k = OwnershipKey(req[t].did, req[t].cid)

-----------------------------------------------------------------------------
(* Timeouts.                                                               *)

Exchanging(t) == stage[t] = "get" \/ \E k \in PolicyKeys \cup IdentityKeys : flight[k] = t

ExchangeTimeout(t) ==
    CASE stage[t] = "get"   -> BlobHttpTimeout
      [] pc[t] = "policy"   -> PolicyTimeout
      [] OTHER              -> IdentityTimeout

Processing(t) == pc[t] \notin {"idle", "done"}

\* t has something to end before time passes: its exchange, or its request,
\* which the TimeoutLayer drops.
Due(t) ==
    \/ Exchanging(t) /\ now >= asked[t] + ExchangeTimeout(t)
    \/ Processing(t) /\ now >= arrived[t] + ProcessingTimeout

-----------------------------------------------------------------------------

\* A step of the server, and what the clock shows when it is taken.
Untimed ==
    /\ Next
    /\ now' = now
    /\ stored' = [k \in CacheKeys |-> IF entries'[k] = None THEN 0
                                      ELSE IF Written(k) THEN now ELSE stored[k]]
    /\ asked' = [t \in Tasks |-> IF ~Exchanging(t)' THEN 0
                                 ELSE IF Exchanging(t) THEN asked[t] ELSE now]
    /\ arrived' = [t \in Tasks |-> IF pc[t] = "idle" /\ pc'[t] # "idle" THEN now ELSE arrived[t]]
    /\ gone' = [f \in Facts |-> IF Holds(f)' THEN None
                                ELSE IF Holds(f) THEN now ELSE gone[f]]

Tick ==
    /\ now < Horizon
    /\ \A t \in Tasks : ~Due(t)
    /\ now' = now + 1
    /\ Invalidate(Expired(now + 1))
    /\ stored' = [k \in CacheKeys |-> IF entries'[k] = None THEN 0 ELSE stored[k]]
    /\ UNCHANGED <<asked, arrived, gone, upstreamVars, blobVars, purgeVars, handlerVars, historyVars>>

TimedSpec == TimedInit /\ [][Untimed \/ Tick]_timedVars

-----------------------------------------------------------------------------
(* Staleness.                                                              *)

\* The last instant somebody is told of an entry stored at 0: who waits for it is
\* told at once, also where it does not live.
LastSeen(ttl) == IF ttl = 0 THEN 0 ELSE ttl - 1

\* This step answers t with 200, when the fact f has been gone for longer than n.
ServesStale(t, f, n) ==
    /\ resp[t] = 0 /\ resp'[t] = 200
    /\ f[2] = <<req[t].did, req[t].cid>>
    /\ gone[f] # None /\ now > gone[f] + n

\* What the policy service forbids is served no longer than one exchange, one
\* time to live and one request add up to: also where the load of the decision
\* raced a purge that was to remove it, and stored it afterwards
\* (policy_client.rs's time_to_live, its client's timeout and the TimeoutLayer
\* of the blob routes).
ForbiddenSoon ==
    [][PolicyConfigured /\ ~PolicyFailOpen =>
         \A t \in Tasks, p \in Pairs :
           ~ServesStale(t, <<"allowed", p>>,
                        PolicyTimeout + LastSeen(PolicyTtl) + ProcessingTimeout)]_timedVars

\* A blob its actor's host does not have any more, because the host deleted it or
\* the actor moved, is served no longer than two lifetimes in a row allow: of the
\* identity that names the old host, and then of the ownership a request that
\* still went there brought in.
UnhostedSoon ==
    [][\A t \in Tasks, p \in Pairs :
         ~ServesStale(t, <<"hosted", p>>,
                      IdentityTimeout + LastSeen(IdentityTtl) + ProcessingTimeout
                      + LastSeen(OwnershipTtl) + ProcessingTimeout)]_timedVars
=============================================================================
