----------------------------- MODULE BlobService -----------------------------
(***************************************************************************)
(* blob_service.rs: fetch_blob and fetch_blob_ownership.  The bytes of a   *)
(* blob are cached per CID, whoever it was fetched from; that an actor has *)
(* the blob is cached per pair.  A fetch of the bytes marks its own pair as*)
(* owned before its result is cached and handed to the tasks parked on it. *)
(*                                                                         *)
(* Both init futures resolve the actor's host through the identity cache,  *)
(* so a task that leads here may park there on another task's resolution.  *)
(***************************************************************************)
EXTENDS IdentityService

CONSTANTS
    AllowedBodies,  \* the bytes whose sniffed MIME type is allowed
    CappedBodies    \* the bytes no longer than max_blob_size

VARIABLES
    stage,  \* stage[t]: where the init future t runs is: "none", "pds", "get", "own", "ret"
    host,   \* host[t]: the PDS that init future resolved, or None
    bytes   \* bytes[t]: what that init future has downloaded and verified, or None

blobVars == <<stage, host, bytes>>

DataKey(c) == <<"data", None, c>>
DataKeys == {"data"} \X {None} \X Cids
\* A bug: ownership is cached per blob, whoever owns it.
OwnershipKeyOfBlob(d, c) == <<"ownership", CHOOSE x \in Dids : TRUE, c>>

OwnershipKey(d, c) == <<"ownership", d, c>>
OwnershipKeys == {"ownership"} \X Dids \X Cids

\* The bytes fetch_blob accepts for c.
Verified(c) == {b \in Bodies \cap CappedBodies \cap AllowedBodies : Digest[b] = c}

BlobInit ==
    /\ stage = [t \in Tasks |-> "none"]
    /\ host = [t \in Tasks |-> None]
    /\ bytes = [t \in Tasks |-> None]

\* The init future of t under k returns o, and its locals are gone.
Return(t, k, o) ==
    /\ Resolve(t, k, o)
    /\ stage' = [stage EXCEPT ![t] = "none"]
    /\ host' = [host EXCEPT ![t] = None]
    /\ bytes' = [bytes EXCEPT ![t] = None]

\* try_get_with under k, whose init future starts by resolving the host.
Fetch(t, k) ==
    /\ stage[t] = "none"
    /\ \/ (Hit(t, k) \/ Park(t, k)) /\ UNCHANGED blobVars
       \/ Lead(t, k) /\ stage' = [stage EXCEPT ![t] = "pds"] /\ UNCHANGED <<host, bytes>>
    /\ UNCHANGED upstreamVars

\* identity_resolver.pds_for_did(did).await, in the init future under k.
ResolveHost(t, d, k) ==
    /\ flight[k] = t /\ stage[t] = "pds"
    /\ \/ IdentityStep(t, d) /\ UNCHANGED blobVars
       \/ /\ Succeeded(t)
          /\ Consume(t)
          /\ host' = [host EXCEPT ![t] = inbox[t].val]
          /\ stage' = [stage EXCEPT ![t] = "get"]
          /\ UNCHANGED <<bytes, upstreamVars>>
       \/ /\ Failed(t)
          /\ Return(t, k, Err("BlobResolutionFailure"))
          /\ UNCHANGED upstreamVars

-----------------------------------------------------------------------------
(* fetch_blob.                                                             *)

\* A bug: the bytes are not hashed.
DownloadUnhashed(c, a) ==
    CASE a = "notFound"          -> Err("NotFound")
      [] a = "refused"           -> Err("ErrorStatusCode")
      [] a = "lost"              -> Err("FetchFailure")
      [] a = "cut"               -> Err("StreamFailed")
      [] a \notin CappedBodies   -> Err("TooLarge")
      [] a \notin AllowedBodies  -> Err("ForbiddenMimeType")
      [] OTHER                   -> Ok(a)

\* The bytes of the response, or the error, up to the MIME check.
DownloadOutcome(c, a) ==
    CASE a = "notFound"          -> Err("NotFound")
      [] a = "refused"           -> Err("ErrorStatusCode")
      [] a = "lost"              -> Err("FetchFailure")
      [] a = "cut"               -> Err("StreamFailed")
      [] a \notin CappedBodies   -> Err("TooLarge")
      [] Digest[a] # c           -> Err("CidMismatch")
      [] a \notin AllowedBodies  -> Err("ForbiddenMimeType")
      [] OTHER                   -> Ok(a)

BlobQueried(t, d, c) ==
    /\ flight[DataKey(c)] = t /\ stage[t] = "get"
    /\ BlobAnswers(t, host[t], d, c)
    /\ UNCHANGED <<mokaVars, blobVars>>

BlobReceived(t, c) ==
    LET o == DownloadOutcome(c, wire[t])
    IN  /\ flight[DataKey(c)] = t /\ stage[t] = "get"
        /\ Receive(t)
        /\ \/ o.tag = "err" /\ Return(t, DataKey(c), o)
           \/ /\ o.tag = "ok"
              /\ bytes' = [bytes EXCEPT ![t] = o.val]
              /\ stage' = [stage EXCEPT ![t] = "own"]
              /\ UNCHANGED <<host, mokaVars>>

\* A bug: the pair is left to the ownership check.
OwnershipForgotten(t, d, c) ==
    /\ flight[DataKey(c)] = t /\ stage[t] = "own"
    /\ stage' = [stage EXCEPT ![t] = "ret"]
    /\ UNCHANGED <<host, bytes, mokaVars, upstreamVars>>

\* ownership_cache.insert((cid, did), ()).await
OwnershipInserted(t, d, c) ==
    /\ flight[DataKey(c)] = t /\ stage[t] = "own"
    /\ InsertEntry(OwnershipKey(d, c), "owned")
    /\ stage' = [stage EXCEPT ![t] = "ret"]
    /\ UNCHANGED <<host, bytes, upstreamVars>>

\* Ok(BlobData { bytes, mime_type })
BlobReturned(t, c) ==
    /\ flight[DataKey(c)] = t /\ stage[t] = "ret"
    /\ Return(t, DataKey(c), Ok(bytes[t]))
    /\ UNCHANGED upstreamVars

FetchBlob(t, d, c) ==
    \/ Fetch(t, DataKey(c))
    \/ ResolveHost(t, d, DataKey(c))
    \/ BlobQueried(t, d, c) \/ BlobReceived(t, c)
    \/ OwnershipInserted(t, d, c) \/ BlobReturned(t, c)

-----------------------------------------------------------------------------
(* fetch_blob_ownership.                                                   *)

\* A bug: a host that answers at all is taken to have the blob.
OwnershipOfAnyAnswer(a) == IF a = "lost" THEN Err("FetchFailure") ELSE Ok("owned")

OwnershipOutcome(a) ==
    CASE a = "owned"    -> Ok("owned")
      [] a = "notFound" -> Err("NotFound")
      [] a = "refused"  -> Err("ErrorStatusCode")
      [] OTHER          -> Err("FetchFailure")

OwnershipQueried(t, d, c) ==
    /\ flight[OwnershipKey(d, c)] = t /\ stage[t] = "get"
    /\ OwnershipAnswers(t, host[t], d, c)
    /\ UNCHANGED <<mokaVars, blobVars>>

OwnershipReceived(t, d, c) ==
    /\ flight[OwnershipKey(d, c)] = t /\ stage[t] = "get"
    /\ Receive(t)
    /\ Return(t, OwnershipKey(d, c), OwnershipOutcome(wire[t]))

FetchBlobOwnership(t, d, c) ==
    \/ Fetch(t, OwnershipKey(d, c))
    \/ ResolveHost(t, d, OwnershipKey(d, c))
    \/ OwnershipQueried(t, d, c) \/ OwnershipReceived(t, d, c)

\* A bug: the predicate compares the wrong half of the key.
OwnershipKeysMixedUp(d) == {k \in OwnershipKeys : k[3] = d}

\* The predicates the purges pass to invalidate_ownership_cache_entries_if.
OwnershipKeysOfDid(d) == {k \in OwnershipKeys : k[2] = d}
OwnershipKeysOfCid(c) == {k \in OwnershipKeys : k[3] = c}
=============================================================================
