----------------------------- MODULE CachePurge -----------------------------
(***************************************************************************)
(* The purge handlers.  A purge is a sequence of invalidations, one cache  *)
(* after another, and requests run between them.  purgeActor and purgeBlob *)
(* await in between and are dropped there when their client goes away;     *)
(* purgeAll never awaits and runs to its end.                              *)
(***************************************************************************)
EXTENDS PolicyClient, BlobService, Integers, Sequences

CONSTANTS
    Admins,           \* the tasks that serve purge requests
    Purges,           \* the purges that are asked for, a set of records [op, did, cid]
    AdminPassword,    \* whether one is configured
    PolicyConfigured  \* whether a policy service is configured

\* purgeBlob has the CID it is about.
ASSUME PurgeAssumption ==
    None \notin Purges /\ \A p \in Purges : p.op = "purgeBlob" => p.cid # None

VARIABLES
    order,   \* order[a]: the purge a runs or ran, or None
    step,    \* step[a]: how many of its invalidations are done
    answer   \* answer[a]: the status a's client got; 0 before

purgeVars == <<order, step, answer>>

PurgeInit ==
    /\ order = [a \in Admins |-> None]
    /\ step = [a \in Admins |-> 0]
    /\ answer = [a \in Admins |-> 0]

\* The policy client's part, where one is configured.
PolicyPart(ks) == IF PolicyConfigured THEN <<ks>> ELSE <<>>

\* A bug: the actor's host is kept.
PurgeActorButHost(d) == PolicyPart(PolicyKeysOfDid(d)) \o <<OwnershipKeysOfDid(d)>>

PurgeActor(d) ==
    PolicyPart(PolicyKeysOfDid(d)) \o <<{IdentityKey(d)}, OwnershipKeysOfDid(d)>>

\* A bug: the decisions on the blob are kept.
PurgeBlobButPolicy(c) == <<{DataKey(c)}, OwnershipKeysOfCid(c)>>

PurgeBlob(c) ==
    PolicyPart(PolicyKeysOfCid(c)) \o <<{DataKey(c)}, OwnershipKeysOfCid(c)>>

PurgeAll == PolicyPart(PolicyKeys) \o <<IdentityKeys, DataKeys, OwnershipKeys>>

\* The invalidations of a purge, in their order.
PurgePlan(p) ==
    CASE p.op = "purgeActor" -> PurgeActor(p.did)
      [] p.op = "purgeBlob"  -> PurgeBlob(p.cid)
      [] OTHER               -> PurgeAll

Purging(a) == order[a] # None /\ answer[a] = 0
StepsLeft(a) == Len(PurgePlan(order[a])) - step[a]
CurrentStep(a) == PurgePlan(order[a])[step[a] + 1]

\* The extractor rejects the request unless a password is configured and given.
RejectPurge(a) ==
    /\ order[a] = None /\ answer[a] = 0
    /\ answer' = [answer EXCEPT ![a] = 401]
    /\ UNCHANGED <<order, step, mokaVars, upstreamVars, blobVars>>

StartPurge(a, p) ==
    /\ AdminPassword
    /\ order[a] = None /\ answer[a] = 0
    /\ \/ order' = [order EXCEPT ![a] = p] /\ UNCHANGED answer
       \/ /\ p.op = "purgeBlob"  \* with a CID that does not parse
          /\ answer' = [answer EXCEPT ![a] = 422]
          /\ UNCHANGED order
    /\ UNCHANGED <<step, mokaVars, upstreamVars, blobVars>>

PurgeStep(a) ==
    /\ Purging(a)
    /\ Invalidate(CurrentStep(a))
    /\ step' = [step EXCEPT ![a] = @ + 1]
    /\ answer' = [answer EXCEPT ![a] = IF StepsLeft(a) = 1 THEN 200 ELSE @]
    /\ UNCHANGED <<order, upstreamVars, blobVars>>

\* The client goes away during the invalidation that is awaited, the last but
\* one: what precedes it is done, what follows is not.  499 stands for no answer.
DropPurge(a) ==
    /\ Purging(a)
    /\ order[a].op # "purgeAll"
    /\ StepsLeft(a) \in {1, 2}
    /\ answer' = [answer EXCEPT ![a] = 499]
    /\ UNCHANGED <<order, step, mokaVars, upstreamVars, blobVars>>
=============================================================================
