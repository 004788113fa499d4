------------------------------- MODULE Server -------------------------------
(***************************************************************************)
(* The server: blob requests (get_blob_handler and                         *)
(* xrpc_get_blob_metadata_handler) and purges over the shared caches, while *)
(* entries expire, clients go away, requests time out and the world around *)
(* the proxy changes.                                                      *)
(*                                                                         *)
(* A task serves one request.  Its pc names the await the handler is at.   *)
(***************************************************************************)
EXTENDS CachePurge

CONSTANTS
    Requests,        \* the requests that arrive, a set of records [op, did, cid]
    PolicyFailOpen,  \* --policy-fail-open: go on when the policy service fails
    MediaBodies,     \* the bytes whose MIME type is an image or a video
    Expiry,          \* whether entries expire or are evicted
    Disconnects      \* whether requests are dropped

VARIABLES
    pc,      \* pc[t]: "idle", "policy", "data", "owner", "metadata", "done"
    req,     \* req[t]: the request t serves, or None
    blob,    \* blob[t]: the blob the handler of t holds, or served, or None
    resp,    \* resp[t]: the status t answered; 0 before
    \* history, for the properties of purges:
    watch,   \* watch[a]: the withdrawn facts the purge of a is to remove
    purged,  \* the withdrawn facts (cache keys) a finished purge was to remove
    late     \* late[t]: those that were purged before t arrived

handlerVars == <<pc, req, blob, resp>>
historyVars == <<watch, purged, late>>
vars == <<mokaVars, upstreamVars, blobVars, purgeVars, handlerVars, historyVars>>

CacheKeys == PolicyKeys \cup IdentityKeys \cup DataKeys \cup OwnershipKeys

ASSUME RequestAssumption ==
    Requests \subseteq [op : {"getBlob", "getBlobMetadata"}, did : Dids, cid : Cids]

ASSUME NoneIsNothing ==
    None \notin CacheKeys \cup Requests \cup {"owned"}

Init ==
    /\ MokaInit(CacheKeys)
    /\ UpstreamsInit
    /\ BlobInit
    /\ PurgeInit
    /\ pc = [t \in Tasks |-> "idle"]
    /\ req = [t \in Tasks |-> None]
    /\ blob = [t \in Tasks |-> None]
    /\ resp = [t \in Tasks |-> 0]
    /\ watch = [a \in Admins |-> {}]
    /\ purged = {}
    /\ late = [t \in Tasks |-> {}]

-----------------------------------------------------------------------------
(* The blob handlers.                                                      *)

GoTo(t, l) == pc' = [pc EXCEPT ![t] = l]

\* The handler returns an error.
Refuse(t, status) ==
    /\ GoTo(t, "done")
    /\ resp' = [resp EXCEPT ![t] = status]
    /\ blob' = [blob EXCEPT ![t] = None]

\* The handler returns the blob it holds, or its metadata.
Serve(t) ==
    /\ GoTo(t, "done")
    /\ resp' = [resp EXCEPT ![t] = 200]
    /\ UNCHANGED blob

\* A DID or CID that does not parse.  The rejections of the XRPC extractor, which
\* end the request at the same point, are not told apart from it.
RejectMalformed(t) ==
    /\ pc[t] = "idle"
    /\ Refuse(t, 422)
    /\ UNCHANGED <<req, mokaVars, upstreamVars, blobVars, purgeVars, historyVars>>

Arrive(t, r) ==
    /\ pc[t] = "idle"
    /\ req' = [req EXCEPT ![t] = r]
    /\ GoTo(t, IF PolicyConfigured THEN "policy" ELSE "data")
    /\ late' = [late EXCEPT ![t] = purged]
    /\ UNCHANGED <<blob, resp, watch, purged, mokaVars, upstreamVars, blobVars, purgeVars>>

\* A service runs for the handler of t.
CallPolicyClient(t) ==
    /\ pc[t] = "policy"
    /\ PolicyClientStep(t, req[t].did, req[t].cid)
    /\ UNCHANGED <<blobVars, purgeVars, handlerVars, historyVars>>

CallFetchBlob(t) ==
    /\ pc[t] = "data"
    /\ FetchBlob(t, req[t].did, req[t].cid)
    /\ UNCHANGED <<purgeVars, handlerVars, historyVars>>

CallFetchOwnership(t) ==
    /\ pc[t] = "owner"
    /\ FetchBlobOwnership(t, req[t].did, req[t].cid)
    /\ UNCHANGED <<purgeVars, handlerVars, historyVars>>

\* The call has returned and the handler goes on.
Returned(t, l) == pc[t] = l /\ stage[t] = "none" /\ Delivered(t) /\ Consume(t)

\* A bug: where failing open is configured the query is repeated until it succeeds.
PolicyAskedAgain(t) ==
    /\ Returned(t, "policy")
    /\ \/ Succeeded(t) /\ inbox[t].val = "Allowed" /\ GoTo(t, "data") /\ UNCHANGED <<blob, resp>>
       \/ Succeeded(t) /\ inbox[t].val = "Forbidden" /\ Refuse(t, 410)
       \/ Failed(t) /\ PolicyFailOpen /\ UNCHANGED <<pc, blob, resp>>
       \/ Failed(t) /\ ~PolicyFailOpen /\ Refuse(t, 500)
    /\ UNCHANGED <<req, upstreamVars, blobVars, purgeVars, historyVars>>

PolicyDecided(t) ==
    /\ Returned(t, "policy")
    /\ \/ Succeeded(t) /\ inbox[t].val = "Allowed" /\ GoTo(t, "data") /\ UNCHANGED <<blob, resp>>
       \/ Succeeded(t) /\ inbox[t].val = "Forbidden" /\ Refuse(t, 410)
       \/ Failed(t) /\ PolicyFailOpen /\ GoTo(t, "data") /\ UNCHANGED <<blob, resp>>
       \/ Failed(t) /\ ~PolicyFailOpen /\ Refuse(t, 500)
    /\ UNCHANGED <<req, upstreamVars, blobVars, purgeVars, historyVars>>

DownloadStatus(e) ==
    CASE e = "ForbiddenMimeType"     -> 403
      [] e = "TooLarge"              -> 413
      [] e = "BlobResolutionFailure" -> 424
      [] e = "NotFound"              -> 404
      [] OTHER                       -> 502

\* A bug: the blob is served as soon as it is there.
BlobServedAtOnce(t) ==
    /\ Returned(t, "data")
    /\ \/ /\ Succeeded(t)
          /\ blob' = [blob EXCEPT ![t] = inbox[t].val]
          /\ GoTo(t, "done")
          /\ resp' = [resp EXCEPT ![t] = 200]
       \/ Failed(t) /\ Refuse(t, DownloadStatus(inbox[t].val))
    /\ UNCHANGED <<req, upstreamVars, blobVars, purgeVars, historyVars>>

BlobFetched(t) ==
    /\ Returned(t, "data")
    /\ \/ /\ Succeeded(t)
          /\ blob' = [blob EXCEPT ![t] = inbox[t].val]
          /\ GoTo(t, "owner")
          /\ UNCHANGED resp
       \/ Failed(t) /\ Refuse(t, DownloadStatus(inbox[t].val))
    /\ UNCHANGED <<req, upstreamVars, blobVars, purgeVars, historyVars>>

OwnershipStatus(e) ==
    CASE e = "BlobResolutionFailure" -> 424
      [] e = "NotFound"              -> 404
      [] OTHER                       -> 502

OwnershipVerified(t) ==
    /\ Returned(t, "owner")
    /\ \/ Failed(t) /\ Refuse(t, OwnershipStatus(inbox[t].val))
       \/ /\ Succeeded(t)
          /\ IF req[t].op = "getBlobMetadata" /\ blob[t] \in MediaBodies
             THEN GoTo(t, "metadata") /\ UNCHANGED <<blob, resp>>
             ELSE Serve(t)
    /\ UNCHANGED <<req, upstreamVars, blobVars, purgeVars, historyVars>>

\* The format's metadata is extracted, or cannot be: both are answered with 200.
MetadataExtracted(t) ==
    /\ pc[t] = "metadata"
    /\ Serve(t)
    /\ UNCHANGED <<req, mokaVars, upstreamVars, blobVars, purgeVars, historyVars>>

\* The TimeoutLayer answers 408, or the client is gone: the handler's future is
\* dropped at the await it is at.
Drop(t) ==
    /\ Disconnects
    /\ pc[t] \notin {"idle", "done"}
    /\ DropFuture(t)
    /\ Refuse(t, 408)
    /\ wire' = [wire EXCEPT ![t] = None]
    /\ stage' = [stage EXCEPT ![t] = "none"]
    /\ host' = [host EXCEPT ![t] = None]
    /\ bytes' = [bytes EXCEPT ![t] = None]
    /\ UNCHANGED <<req, worldVars, saidVars, purgeVars, historyVars>>

-----------------------------------------------------------------------------
(* Purges, and what they remove for good.                                  *)

\* What the lexicons say a purge is about.
Covered(p) ==
    CASE p.op = "purgeActor" -> {k \in CacheKeys : k[2] = p.did}
      [] p.op = "purgeBlob"  -> {k \in CacheKeys : k[3] = p.cid}
      [] OTHER               -> CacheKeys

\* The upstreams no longer say what they said of k at first, and never will
\* again.  The bytes under a CID do not stop being the bytes of that CID.
Withdrawn(k) ==
    \/ k \in PolicyKeys /\ verdict[k[2], k[3]] = "forbidden"
    \/ k \in IdentityKeys /\ pds[k[2]] # HomePds[k[2]]
    \/ k \in OwnershipKeys /\ \A h \in Hosts : <<h, k[2], k[3]>> \notin holds

\* A task runs an init future that may have asked, and stores an entry under k.
Loading(k) ==
    \/ flight[k] # None
    \/ /\ k \in OwnershipKeys
       /\ \E t \in Tasks : flight[DataKey(k[3])] = t /\ req[t].did = k[2]

PurgeArrives(a, p) ==
    /\ StartPurge(a, p)
    /\ watch' = [watch EXCEPT ![a] = {k \in Covered(p) : Withdrawn(k) /\ ~Loading(k)}]
    /\ UNCHANGED <<purged, late, handlerVars>>

RunPurgeStep(a) ==
    /\ PurgeStep(a)
    /\ purged' = IF answer'[a] = 200 THEN purged \cup watch[a] ELSE purged
    /\ UNCHANGED <<watch, late, handlerVars>>

PurgeFails(a) ==
    /\ RejectPurge(a) \/ DropPurge(a)
    /\ UNCHANGED <<handlerVars, historyVars>>

-----------------------------------------------------------------------------

EntryExpires(k) ==
    /\ Expiry
    /\ Expire(k)
    /\ UNCHANGED <<upstreamVars, blobVars, purgeVars, handlerVars, historyVars>>

World ==
    /\ WorldStep
    /\ UNCHANGED <<mokaVars, blobVars, purgeVars, handlerVars, historyVars>>

\* Every request was answered and every purge asked for is over.
Quiescent ==
    /\ \A t \in Tasks : pc[t] = "done"
    /\ \A a \in Admins : answer[a] # 0
    /\ UNCHANGED vars

Handle(t) ==
    \/ CallPolicyClient(t) \/ PolicyDecided(t)
    \/ CallFetchBlob(t) \/ BlobFetched(t)
    \/ CallFetchOwnership(t) \/ OwnershipVerified(t)
    \/ MetadataExtracted(t)

Next ==
    \/ \E t \in Tasks : RejectMalformed(t) \/ Handle(t) \/ Drop(t)
    \/ \E t \in Tasks, r \in Requests : Arrive(t, r)
    \/ \E a \in Admins, p \in Purges : PurgeArrives(a, p)
    \/ \E a \in Admins : PurgeFails(a) \/ RunPurgeStep(a)
    \/ \E k \in CacheKeys : EntryExpires(k)
    \/ World
    \/ Quiescent

Spec == Init /\ [][Next]_vars
=============================================================================
