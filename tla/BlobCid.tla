------------------------------- MODULE BlobCid -------------------------------
(***************************************************************************)
(* BlobCid and the check of a download against it: which identifiers a     *)
(* request may name, and which bytes then count as the blob.               *)
(*                                                                         *)
(* A CID has a version, a codec and a multihash, which names a hash        *)
(* function, says how long its digest is, and has the digest.  A digest is *)
(* the first bytes of what the function yields for some contents; the      *)
(* functions have no collisions, nor have their prefixes.                  *)
(***************************************************************************)
EXTENDS Naturals

CONSTANTS
    Contents,  \* the bytes hosts may send
    Cids,      \* the CIDs a request may name, and Malformed
    Malformed, \* a text the cid crate cannot read
    Code,      \* the hash functions of multihash_codetable, as it is built
    FullSize,  \* FullSize[f]: the length of f's digests
    Nothing

ASSUME CidAssumption == Nothing # "ok"

Multihash(f, size, of) == [function |-> f, size |-> size, of |-> of]
Cid(version, codec, hash) == [version |-> version, codec |-> codec, hash |-> hash]

\* Code::digest never truncates.
Digest(f, bytes) == Multihash(f, FullSize[f], bytes)

-----------------------------------------------------------------------------

\* BlobCid::try_from of a string: the length of the digest is not looked at.
TryFromCid(cid) ==
    IF cid = Malformed THEN "CidError"
    ELSE IF cid.codec # "raw" THEN "InvalidBlobCodec"
    ELSE IF cid.version # "v1" THEN "InvalidBlobVersion"
    ELSE IF cid.hash.function \notin Code \/ cid.hash.function # "sha2-256" THEN "InvalidMultihash"
    ELSE "ok"

\* A bug: as much of the digest is compared as the CID has.
VerifyByPrefix(cid, bytes) ==
    IF cid.hash.function \notin Code THEN "CidUnsupportedMultihash"
    ELSE IF cid.hash.of = bytes THEN "ok" ELSE "CidMismatch"

\* The closure that fetch_blob gives to spawn_blocking.
Verify(cid, bytes) ==
    IF cid.hash.function \notin Code THEN "CidUnsupportedMultihash"
    ELSE LET computed == Cid("v1", "raw", Digest(cid.hash.function, bytes))
         IN  IF computed = cid THEN "ok" ELSE "CidMismatch"

VARIABLES
    asked,    \* the CID of the request, or Nothing
    parsed,   \* what BlobCid made of it, or Nothing
    received, \* the bytes a host sent for it, or Nothing
    verified  \* the outcome of the check, or Nothing

cidVars == <<asked, parsed, received, verified>>

CidInit == asked = Nothing /\ parsed = Nothing /\ received = Nothing /\ verified = Nothing

Ask == asked = Nothing /\ asked' \in Cids /\ UNCHANGED <<parsed, received, verified>>

Parse ==
    /\ asked # Nothing /\ parsed = Nothing
    /\ parsed' = TryFromCid(asked)
    /\ UNCHANGED <<asked, received, verified>>

\* The host need not send what it was asked for.
Download ==
    /\ parsed = "ok" /\ received = Nothing
    /\ received' \in Contents
    /\ UNCHANGED <<asked, parsed, verified>>

Check ==
    /\ received # Nothing /\ verified = Nothing
    /\ verified' = Verify(asked, received)
    /\ UNCHANGED <<asked, parsed, received>>

CidDone == (verified # Nothing \/ parsed \notin {Nothing, "ok"}) /\ UNCHANGED cidVars

CidNext == Ask \/ Parse \/ Download \/ Check \/ CidDone
CidSpec == CidInit /\ [][CidNext]_cidVars

-----------------------------------------------------------------------------

\* A download passes the check if and only if its whole SHA-256 is the one in the CID:
\* one with a cut digest, which BlobCid lets through, is no way around the check, and
\* whatever BlobCid accepts the check can compute.
PassedIsWhole ==
    verified # Nothing =>
        /\ verified # "CidUnsupportedMultihash"
        /\ verified = "ok" <=>
               asked = Cid("v1", "raw", Multihash("sha2-256", FullSize["sha2-256"], received))
=============================================================================
