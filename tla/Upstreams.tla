------------------------------ MODULE Upstreams ------------------------------
(***************************************************************************)
(* What lies outside the proxy: the policy service, the DID directory and  *)
(* the PDS hosts that store blobs.  An exchange has two steps.  The        *)
(* upstream answers from its state of that moment, and the answer is on the*)
(* wire; the task that asked receives it later, when that state may have   *)
(* changed.  A PDS is not trusted: one that claims to hold a blob may send *)
(* any bytes for it.  A request that times out answers "lost".             *)
(*                                                                         *)
(* vouched and permitted are history: what the upstreams have ever said.   *)
(***************************************************************************)

EXTENDS Base

CONSTANTS
    Dids, Cids, Hosts, Bodies,
    Digest,         \* Digest[b]: the CID whose digest the bytes b have, or None
    HomePds,        \* HomePds[d]: the host d's document names at first
    Holdings,       \* the <<host, did, cid>> held at first
    Faults,         \* the failures that happen, of "refused", "garbled", "lost", "cut"
    WorldChanges    \* the changes that happen, of "takedown", "migrate", "delete"

ASSUME WorldAssumption ==
    /\ HomePds \in [Dids -> Hosts]
    /\ Holdings \subseteq Hosts \X Dids \X Cids
    /\ "lost" \notin Hosts

VARIABLES
    verdict,    \* verdict[d, c]: what the policy service decides now
    pds,        \* pds[d]: the host d's document names now
    holds,      \* the <<host, did, cid>> held now
    wire,       \* wire[t]: the answer on its way to t, or None
    vouched,    \* pairs <<did, cid>> a host has answered 2xx for
    permitted   \* pairs <<did, cid>> the policy service has answered allowed for

worldVars == <<verdict, pds, holds>>
saidVars == <<vouched, permitted>>
upstreamVars == <<worldVars, wire, saidVars>>

UpstreamsInit ==
    /\ verdict = [p \in Dids \X Cids |-> "allowed"]
    /\ pds = HomePds
    /\ holds = Holdings
    /\ wire = [t \in Tasks |-> None]
    /\ vouched = {}
    /\ permitted = {}

Answer(t, a) == wire[t] = None /\ wire' = [wire EXCEPT ![t] = a]

\* One of the failures in fs befalls the exchange of t.
Fail(t, fs) == \E f \in Faults \cap fs : Answer(t, f) /\ UNCHANGED saidVars

-----------------------------------------------------------------------------
(* The answers.                                                            *)

\* "garbled": a success status whose body is not one of the two decisions.
PolicyServiceAnswers(t, d, c) ==
    /\ \/ /\ Answer(t, verdict[d, c])
          /\ permitted' = IF verdict[d, c] = "allowed"
                          THEN permitted \cup {<<d, c>>} ELSE permitted
          /\ UNCHANGED vouched
       \/ Fail(t, {"refused", "garbled", "lost"})
    /\ UNCHANGED worldVars

DirectoryAnswers(t, d) ==
    /\ \/ Answer(t, pds[d]) /\ UNCHANGED saidVars
       \/ Fail(t, {"lost"})
    /\ UNCHANGED worldVars

\* 2xx with a claim a, or 404 from a host that does not have the blob.
HostAnswers(t, h, d, c, claims, failures) ==
    /\ \/ /\ <<h, d, c>> \in holds
          /\ \E a \in claims : Answer(t, a)
          /\ vouched' = vouched \cup {<<d, c>>}
          /\ UNCHANGED permitted
       \/ /\ <<h, d, c>> \notin holds
          /\ Answer(t, "notFound")
          /\ UNCHANGED saidVars
       \/ Fail(t, failures)
    /\ UNCHANGED worldVars

\* "cut": the stream of the body breaks after a success status.
BlobAnswers(t, h, d, c) == HostAnswers(t, h, d, c, Bodies, {"refused", "lost", "cut"})

\* Only the status of a range request matters.
OwnershipAnswers(t, h, d, c) == HostAnswers(t, h, d, c, {"owned"}, {"refused", "lost"})

Receive(t) ==
    /\ wire[t] # None
    /\ wire' = [wire EXCEPT ![t] = None]
    /\ UNCHANGED <<worldVars, saidVars>>

-----------------------------------------------------------------------------
(* The world changes.  Each change is for good, which bounds them.         *)

Takedown(d, c) ==
    /\ "takedown" \in WorldChanges
    /\ verdict[d, c] = "allowed"
    /\ verdict' = [verdict EXCEPT ![<<d, c>>] = "forbidden"]
    /\ UNCHANGED <<pds, holds, wire, saidVars>>

Migrate(d, h) ==
    /\ "migrate" \in WorldChanges
    /\ pds[d] = HomePds[d] /\ h # HomePds[d]
    /\ pds' = [pds EXCEPT ![d] = h]
    /\ UNCHANGED <<verdict, holds, wire, saidVars>>

Delete(x) ==
    /\ "delete" \in WorldChanges
    /\ x \in holds
    /\ holds' = holds \ {x}
    /\ UNCHANGED <<verdict, pds, wire, saidVars>>

WorldStep ==
    \/ \E d \in Dids, c \in Cids : Takedown(d, c)
    \/ \E d \in Dids, h \in Hosts : Migrate(d, h)
    \/ \E x \in Holdings : Delete(x)
=============================================================================
