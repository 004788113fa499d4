----------------------------- MODULE PurgeProofs -----------------------------
(***************************************************************************)
(* Proofs about purges, for any number of requests, actors, blobs, hosts   *)
(* and purges: a withdrawn fact that a purge has removed stays removed, and *)
(* a request that arrives afterwards is not served on it.  And one about   *)
(* the order of the blob cache's two insertions.                           *)
(***************************************************************************)
EXTENDS ServerProofs

-----------------------------------------------------------------------------
(* The inductive invariant, beside IInv.  A fact is settled when it is      *)
(* withdrawn and no load that runs was told otherwise: since the world does *)
(* not take a withdrawal back, it stays settled, and nothing stale is      *)
(* stored or told under its key any more.                                  *)

Failures == {"notFound", "refused", "lost", "cut"}

\* The loads t runs are not about to store something stale under k.
NoStaleLoad(t, k) ==
    /\ wire[t] # None /\ flight[k] = t =>
         /\ k \in PolicyKeys => wire[t] # "allowed"
         /\ k \in IdentityKeys => wire[t] # HomePds[k[2]]
         /\ k \in OwnershipKeys /\ stage[t] = "get" => wire[t] # "owned"
    /\ k \in OwnershipKeys /\ flight[DataKey(k[3])] = t /\ req[t].did = k[2] =>
         /\ stage[t] \notin {"own", "ret"}
         /\ stage[t] = "get" => wire[t] \in Failures \cup {None}

Settled(k) == Withdrawn(k) /\ \A t \in Tasks : NoStaleLoad(t, k)

\* What finished purges have removed, and what others are to remove.
Watched == purged \cup UNION {watch[a] : a \in Admins}

NotStale(k) == entries[k] # None => ~Stale(k, entries[k])

\* The steps of a purge that are done have removed what they are about for good.
PurgeInv(a) ==
    /\ order[a] = None => step[a] = 0
    /\ order[a] # None =>
         /\ order[a] \in Purges /\ watch[a] \subseteq Covered(order[a])
         /\ answer[a] = 0 => step[a] < Len(PurgePlan(order[a]))
         /\ \A i \in 1..step[a] : \A k \in watch[a] \cap PurgePlan(order[a])[i] : NotStale(k)

NoPolicyInv ==
    ~PolicyConfigured =>
        /\ \A t \in Tasks : pc[t] # "policy"
        /\ \A k \in PolicyKeys : entries[k] = None

\* A request is not told, and does not act on, what was purged before it arrived.
LateInv(t) ==
    late[t] # {} =>
        /\ late[t] \subseteq purged
        /\ req[t] \in Requests
        /\ OwnershipKey(req[t].did, req[t].cid) \in late[t] =>
             /\ pc[t] # "metadata" /\ ~Served(t)
             /\ pc[t] = "owner" /\ stage[t] = "none" => ~Succeeded(t)
        /\ Binding /\ PolicyKey(req[t].did, req[t].cid) \in late[t] =>
             /\ pc[t] \in {"policy", "done"} /\ ~Served(t)
             /\ pc[t] = "policy" /\ Succeeded(t) => inbox[t].val # "Allowed"

PInv ==
    /\ \A k \in Watched : Settled(k)
    /\ \A k \in purged : NotStale(k)
    /\ \A a \in Admins : PurgeInv(a)
    /\ NoPolicyInv
    /\ \A t \in Tasks : LateInv(t)

-----------------------------------------------------------------------------
(* The steps of a task, in a few shapes.                                   *)

TaskStep(t) ==
    RejectMalformed(t) \/ Handle(t) \/ Drop(t) \/ \E r \in Requests : Arrive(t, r)

\* What t was answered bears out the entry v under k; verified bytes need no more.
Bears(t, k, v) ==
    k \notin DataKeys =>
        /\ wire[t] # None
        /\ k \in PolicyKeys /\ v = "Allowed" => wire[t] = "allowed"
        /\ k \in IdentityKeys => wire[t] = v
        /\ k \in OwnershipKeys => stage[t] = "get" /\ wire[t] = "owned"

\* The load under k returns o; a success is what t waits for and was told.
Returns(t, k, o) ==
    /\ Resolve(t, k, o)
    /\ o.tag = "ok" => k = AwaitedKey(t) /\ Bears(t, k, o.val)

\* t stores nothing and tells the others nothing.
KeepsToItself(t) ==
    /\ UNCHANGED <<entries, flight, parked>>
    /\ inbox'[t] \in {inbox[t], None}
    /\ \A u \in Tasks \ {t} : inbox'[u] = inbox[u]

Shape(t) ==
    /\ \A k \in CacheKeys : Settled(k) => NoStaleLoad(t, k)'
    /\ \/ LookUp(t, AwaitedKey(t)) /\ req[t] \in Requests
       \/ \E k \in CacheKeys, o \in Outcomes : Returns(t, k, o)
       \/ OwnershipInserted(t, req[t].did, req[t].cid) /\ pc[t] = "data"
       \/ DropFuture(t)
       \/ KeepsToItself(t)

\* What every key says it is about.
LEMMA KeyParts ==
    ASSUME NEW k \in CacheKeys
    PROVE  /\ k \in PolicyKeys => k[2] \in Dids /\ k[3] \in Cids /\ k = PolicyKey(k[2], k[3])
           /\ k \in IdentityKeys => k[2] \in Dids /\ k = IdentityKey(k[2])
           /\ k \in OwnershipKeys =>
                k[2] \in Dids /\ k[3] \in Cids /\ k = OwnershipKey(k[2], k[3])
           /\ k \in PolicyKeys => k \notin IdentityKeys \cup OwnershipKeys \cup DataKeys
           /\ k \in IdentityKeys => k \notin PolicyKeys \cup OwnershipKeys \cup DataKeys
           /\ k \in OwnershipKeys => k \notin PolicyKeys \cup IdentityKeys \cup DataKeys
BY DEF PolicyKeys, IdentityKeys, OwnershipKeys, DataKeys, PolicyKey, IdentityKey, OwnershipKey

\* What is settled is not stored stale.
LEMMA BorneOut ==
    ASSUME NEW t \in Tasks, NEW k \in CacheKeys, NEW v, flight[k] = t, Bears(t, k, v), Settled(k)
    PROVE  ~Stale(k, v)
BY KeyParts DEF Bears, Settled, NoStaleLoad, Stale

\* A task with no answer on the way and no verified bytes in hand stores nothing stale.
LEMMA IdleLoads ==
    ASSUME NEW t, NEW k, wire'[t] = None, stage'[t] \in {"none", "pds", "get"}
    PROVE  NoStaleLoad(t, k)'
BY DEF NoStaleLoad

\* The start and the end of a request, and a handler that goes on by itself.
LEMMA HandlerShapes ==
    ASSUME IInv, NEW t \in Tasks,
           \/ RejectMalformed(t) \/ Drop(t) \/ MetadataExtracted(t)
           \/ PolicyDecided(t) \/ BlobFetched(t) \/ OwnershipVerified(t)
           \/ \E r \in Requests : Arrive(t, r)
    PROVE  Shape(t)
<1>. USE DEF upstreamVars, blobVars, mokaVars
<1>0. MokaTypeOK /\ HandlersTypeOK /\ UpstreamsTypeOK
  BY DEF IInv, TypeOK
<1>1. CASE Drop(t)
  <2>1. wire'[t] = None /\ stage'[t] = "none" /\ DropFuture(t)
    BY <1>0, <1>1 DEF Drop, HandlersTypeOK, UpstreamsTypeOK
  <2>. QED BY <2>1, IdleLoads DEF Shape
<1>2. CASE RejectMalformed(t) \/ MetadataExtracted(t) \/ \E r \in Requests : Arrive(t, r)
  <2>1. pc[t] \notin Working /\ UNCHANGED <<mokaVars, wire, stage>>
    BY <1>2 DEF RejectMalformed, MetadataExtracted, Arrive, Working
  <2>2. wire'[t] = None /\ stage'[t] = "none"
    BY <2>1, OutsideCalls DEF Detached
  <2>. QED BY <2>1, <2>2, IdleLoads DEF Shape, KeepsToItself
<1>3. CASE PolicyDecided(t) \/ BlobFetched(t) \/ OwnershipVerified(t)
  <2>1. PICK l \in Working : Returned(t, l) /\ UNCHANGED <<wire, stage>>
    BY <1>3 DEF PolicyDecided, BlobFetched, OwnershipVerified, Working
  <2>2. wire'[t] = None /\ stage'[t] = "none"
    BY <2>1, AfterCall DEF Detached
  <2>3. KeepsToItself(t)
    BY <1>0, <2>1 DEF Returned, Consume, KeepsToItself, MokaTypeOK
  <2>. QED BY <2>2, <2>3, IdleLoads DEF Shape
<1>. QED BY <1>1, <1>2, <1>3

\* A look-up leaves no answer on the way.
LEMMA LookUpShape ==
    ASSUME IInv, NEW t \in Tasks, req[t] \in Requests, LookUp(t, AwaitedKey(t)),
           wire' = wire, stage'[t] \in {"none", "pds", "get"}
    PROVE  Shape(t)
<1>1. wire'[t] = None
  BY CallerAfterLookUp
<1>. QED BY <1>1, IdleLoads DEF Shape

\* A load that returns has consumed its answer.
LEMMA ReturnShape ==
    ASSUME NEW t \in Tasks, NEW k \in CacheKeys, NEW o \in Outcomes, Returns(t, k, o),
           wire'[t] = None, stage'[t] \in {"none", "pds", "get"}
    PROVE  Shape(t)
BY IdleLoads DEF Shape

\* An upstream's answer to t is not what it no longer says.
LEMMA AnswerShape ==
    ASSUME IInv, NEW t \in Tasks, UNCHANGED <<mokaVars, stage, req>>, NEW l \in CacheKeys,
           flight[l] = t, l = AwaitedKey(t), stage[t] \in {"none", "pds", "get"},
           \A k \in CacheKeys : Settled(k) /\ k = l =>
             /\ k \in PolicyKeys => wire'[t] # "allowed"
             /\ k \in IdentityKeys => wire'[t] # HomePds[k[2]]
             /\ k \in OwnershipKeys => wire'[t] # "owned",
           \A k \in CacheKeys :
             Settled(k) /\ k \in OwnershipKeys /\ l = DataKey(k[3]) /\ req[t].did = k[2] =>
               wire'[t] \in Failures
    PROVE  Shape(t)
<1>. USE DEF mokaVars
<1>1. KeepsToItself(t)
  BY DEF KeepsToItself
<1>2. ASSUME NEW k \in CacheKeys, Settled(k) PROVE NoStaleLoad(t, k)'
  <2>1. TaskInv(t)
    BY DEF IInv
  <2>2. flight[k] = t => k = l \/ stage[t] = "pds"
    BY <2>1 DEF TaskInv, LeadInv, AwaitedKey
  <2>3. flight[k] = t /\ k # l => k = MainKey(t)
    BY <2>1 DEF TaskInv, LeadInv, AwaitedKey
  <2>4. flight[k] = t /\ k # l => k \notin PolicyKeys \cup IdentityKeys
    <3>1. SUFFICES ASSUME flight[k] = t, k # l PROVE k \notin PolicyKeys \cup IdentityKeys
      OBVIOUS
    <3>2. pc[t] \in {"data", "owner"} /\ req[t] \in Requests
      BY <2>1, <2>2, <3>1 DEF TaskInv, StageInv, HandlerInv
    <3>. QED BY <2>3, <3>1, <3>2, RequestKeys, Keys DEF MainKey
  <2>5. CASE k \in OwnershipKeys /\ flight[DataKey(k[3])] = t
    <3>1. DataKey(k[3]) \in CacheKeys
      BY <2>5, KeyParts, Keys
    <3>2. stage[t] = "get" => l = DataKey(k[3])
      BY <2>1, <2>5, <3>1 DEF TaskInv, LeadInv, AwaitedKey
    <3>. QED BY <1>2, <2>2, <2>4, <2>5, <3>2 DEF NoStaleLoad
  <2>. QED BY <1>2, <2>2, <2>4, <2>5 DEF NoStaleLoad
<1>. QED BY <1>1, <1>2 DEF Shape

\* get_policy.
LEMMA PolicyShape ==
    ASSUME IInv, NEW t \in Tasks, CallPolicyClient(t)
    PROVE  Shape(t)
<1>. DEFINE d == req[t].did
            c == req[t].cid
            k == PolicyKey(d, c)
<1>0. TypeOK /\ TaskInv(t)
  BY DEF IInv
<1>1. /\ pc[t] = "policy" /\ UNCHANGED <<blobVars, req>> /\ req[t] \in Requests
      /\ stage[t] = "none" /\ stage' = stage
  BY <1>0 DEF CallPolicyClient, TaskInv, HandlerInv, StageInv, blobVars, handlerVars
<1>2. AwaitedKey(t) = k /\ d \in Dids /\ c \in Cids /\ k \in CacheKeys /\ k \in PolicyKeys
      /\ k[2] = d /\ k[3] = c /\ k \notin IdentityKeys \cup OwnershipKeys \cup DataKeys
  BY <1>1, RequestKeys, Keys DEF AwaitedKey, MainKey
<1>. HIDE DEF k
<1>3. CASE GetPolicy(t, d, c)
  BY <1>1, <1>2, <1>3, LookUpShape DEF GetPolicy, upstreamVars, k
<1>4. CASE PolicyQueried(t, d, c)
  <2>1. flight[k] = t /\ UNCHANGED mokaVars
    BY <1>4 DEF PolicyQueried, k
  <2>2. ASSUME Settled(k) PROVE wire'[t] # "allowed"
    <3>1. verdict[d, c] = "forbidden"
      BY <1>2, <2>2 DEF Settled, Withdrawn
    <3>2. \E a \in {"forbidden", "refused", "garbled", "lost"} : wire' = [wire EXCEPT ![t] = a]
      BY <1>4, <3>1 DEF PolicyQueried, PolicyServiceAnswers, Fail, Answer
    <3>. QED BY <1>0, <3>2 DEF TypeOK, UpstreamsTypeOK
  <2>3. \A b : k # DataKey(b)
    BY KeysDiffer DEF k
  <2>. QED BY <1>1, <1>2, <2>1, <2>2, <2>3, AnswerShape
<1>5. CASE PolicyReceived(t, d, c)
  <2>. DEFINE o == PolicyOutcome(wire[t])
  <2>1. Receive(t) /\ Resolve(t, k, o)
    BY <1>5 DEF PolicyReceived, k
  <2>2. o \in Outcomes /\ (o.tag = "ok" /\ o.val = "Allowed" => wire[t] = "allowed")
    BY PolicyOutcomes
  <2>3. wire[t] # None
    BY <2>1 DEF Receive
  <2>4. Returns(t, k, o)
    BY <1>2, <2>1, <2>2, <2>3 DEF Returns, Bears
  <2>5. wire'[t] = None
    BY <1>0, <2>1 DEF Receive, TypeOK, UpstreamsTypeOK
  <2>. QED BY <1>1, <1>2, <2>2, <2>4, <2>5, ReturnShape
<1>. QED BY <1>3, <1>4, <1>5 DEF CallPolicyClient, PolicyClientStep

\* pds_for_did, called from an init future at stage "pds".
LEMMA IdentityShape ==
    ASSUME IInv, NEW t \in Tasks, stage[t] = "pds", IdentityStep(t, req[t].did),
           UNCHANGED <<blobVars, handlerVars>>
    PROVE  Shape(t)
<1>. DEFINE d == req[t].did
            k == IdentityKey(d)
<1>0. TypeOK /\ TaskInv(t)
  BY DEF IInv
<1>1. /\ pc[t] \in {"data", "owner"} /\ req[t] \in Requests /\ req' = req /\ stage' = stage
  BY <1>0 DEF TaskInv, StageInv, HandlerInv, blobVars, handlerVars
<1>2. AwaitedKey(t) = k /\ d \in Dids /\ k \in CacheKeys /\ k \in IdentityKeys
      /\ k[2] = d /\ k \notin PolicyKeys \cup OwnershipKeys \cup DataKeys
  BY <1>1, RequestKeys, Keys DEF AwaitedKey, IdentityKey
<1>. HIDE DEF k
<1>3. CASE PdsForDid(t, d)
  BY <1>1, <1>2, <1>3, LookUpShape DEF PdsForDid, upstreamVars, k
<1>4. CASE DirectoryQueried(t, d)
  <2>1. flight[k] = t /\ UNCHANGED mokaVars
    BY <1>4 DEF DirectoryQueried, k
  <2>2. ASSUME Settled(k) PROVE wire'[t] # HomePds[d]
    <3>1. pds[d] # HomePds[d]
      BY <1>2, <2>2 DEF Settled, Withdrawn
    <3>2. HomePds[d] # "lost"
      BY <1>2, WorldAssumption
    <3>3. wire' = [wire EXCEPT ![t] = pds[d]] \/ wire' = [wire EXCEPT ![t] = "lost"]
      BY <1>4 DEF DirectoryQueried, DirectoryAnswers, Fail, Answer
    <3>. QED BY <1>0, <3>1, <3>2, <3>3 DEF TypeOK, UpstreamsTypeOK
  <2>3. \A b : k # DataKey(b)
    BY KeysDiffer DEF k
  <2>. QED BY <1>1, <1>2, <2>1, <2>2, <2>3, AnswerShape
<1>5. CASE DirectoryReceived(t, d)
  <2>. DEFINE o == PdsOutcome(wire[t])
  <2>1. Receive(t) /\ Resolve(t, k, o)
    BY <1>5 DEF DirectoryReceived, k
  <2>2. o \in Outcomes /\ (o.tag = "ok" => o.val = wire[t])
    BY PdsOutcomes DEF PdsOutcome, Ok, Err
  <2>3. wire[t] # None
    BY <2>1 DEF Receive
  <2>4. Returns(t, k, o)
    BY <1>2, <2>1, <2>2, <2>3 DEF Returns, Bears
  <2>5. wire'[t] = None
    BY <1>0, <2>1 DEF Receive, TypeOK, UpstreamsTypeOK
  <2>. QED BY <1>1, <1>2, <2>2, <2>4, <2>5, ReturnShape
<1>. QED BY <1>3, <1>4, <1>5 DEF IdentityStep

\* try_get_with under the handler's own key.
LEMMA FetchShape ==
    ASSUME IInv, NEW t \in Tasks, pc[t] \in {"data", "owner"}, Fetch(t, MainKey(t))
    PROVE  Shape(t)
<1>1. /\ req[t] \in Requests /\ stage[t] = "none" /\ wire' = wire
      /\ LookUp(t, MainKey(t)) /\ stage'[t] \in {"none", "pds"}
  BY DEF IInv, TaskInv, HandlerInv, Fetch, LookUp, upstreamVars, blobVars, TypeOK, HandlersTypeOK
<1>2. AwaitedKey(t) = MainKey(t)
  BY <1>1 DEF AwaitedKey
<1>. QED BY <1>1, <1>2, LookUpShape

\* The resolution of the host within a load.
LEMMA ResolveHostShape ==
    ASSUME IInv, NEW t \in Tasks, pc[t] \in {"data", "owner"},
           ResolveHost(t, req[t].did, MainKey(t)), UNCHANGED handlerVars
    PROVE  Shape(t)
<1>0. /\ TypeOK /\ TaskInv(t) /\ stage[t] = "pds"
      /\ req[t] \in Requests /\ MainKey(t) \in CacheKeys
  BY TaskKeys DEF IInv, ResolveHost, TaskInv, HandlerInv
<1>1. inbox[t] # None => wire[t] = None
  BY <1>0 DEF TaskInv, InboxInv, WireInv
<1>2. CASE IdentityStep(t, req[t].did) /\ UNCHANGED blobVars
  BY <1>0, <1>2, IdentityShape
<1>3. CASE /\ Succeeded(t) /\ Consume(t)
           /\ stage' = [stage EXCEPT ![t] = "get"]
           /\ UNCHANGED upstreamVars
  <2>1. wire'[t] = None /\ stage'[t] = "get" /\ KeepsToItself(t)
    BY <1>0, <1>1, <1>3 DEF Succeeded, Consume, KeepsToItself, upstreamVars, TypeOK, MokaTypeOK,
                            HandlersTypeOK
  <2>. QED BY <2>1, IdleLoads DEF Shape
<1>4. CASE Failed(t) /\ Return(t, MainKey(t), Err("BlobResolutionFailure")) /\ UNCHANGED upstreamVars
  <2>. DEFINE o == Err("BlobResolutionFailure")
  <2>1. o \in Outcomes /\ o.tag # "ok"
    BY DEF Err, Outcomes, Errors
  <2>2. wire'[t] = None /\ stage'[t] = "none" /\ Returns(t, MainKey(t), o)
    BY <1>0, <1>1, <1>4, <2>1 DEF Failed, Return, Returns, upstreamVars, TypeOK, HandlersTypeOK
  <2>. QED BY <1>0, <2>1, <2>2, ReturnShape
<1>. QED BY <1>2, <1>3, <1>4 DEF ResolveHost

\* A host that has the blob no longer does not claim it.
LEMMA HostDenies ==
    ASSUME IInv, NEW t \in Tasks, NEW h, NEW d \in Dids, NEW c \in Cids, NEW claims,
           NEW failures \in SUBSET Failures, HostAnswers(t, h, d, c, claims, failures),
           Withdrawn(OwnershipKey(d, c))
    PROVE  wire'[t] \in Failures
<1>1. \A g \in Hosts : <<g, d, c>> \notin holds
  BY Keys DEF Withdrawn
<1>2. <<h, d, c>> \notin holds
  BY <1>1 DEF IInv, TypeOK, UpstreamsTypeOK
<1>3. \E a \in Failures : wire' = [wire EXCEPT ![t] = a]
  BY <1>2 DEF HostAnswers, Fail, Answer, Failures
<1>. QED BY <1>3 DEF IInv, TypeOK, UpstreamsTypeOK

\* fetch_blob.
LEMMA BlobShape ==
    ASSUME IInv, NEW t \in Tasks, CallFetchBlob(t)
    PROVE  Shape(t)
<1>. DEFINE d == req[t].did
            c == req[t].cid
            k == DataKey(c)
<1>0. TypeOK /\ TaskInv(t)
  BY DEF IInv
<1>1. pc[t] = "data" /\ UNCHANGED handlerVars /\ req' = req /\ req[t] \in Requests
  BY <1>0 DEF CallFetchBlob, TaskInv, HandlerInv, handlerVars
<1>2. /\ MainKey(t) = k /\ d \in Dids /\ c \in Cids /\ k \in CacheKeys /\ k \in DataKeys
      /\ k \notin PolicyKeys \cup IdentityKeys \cup OwnershipKeys /\ k[3] = c
      /\ OwnershipKey(d, c) \in OwnershipKeys /\ OwnershipKey(d, c) \in CacheKeys
  BY <1>1, RequestKeys, Keys DEF MainKey
<1>3. CASE Fetch(t, DataKey(c)) \/ ResolveHost(t, d, DataKey(c))
  BY <1>1, <1>2, <1>3, FetchShape, ResolveHostShape
<1>4. CASE BlobQueried(t, d, c)
  <2>1. /\ flight[k] = t /\ stage[t] = "get" /\ UNCHANGED <<mokaVars, stage>>
        /\ HostAnswers(t, host[t], d, c, Bodies, {"refused", "lost", "cut"})
    BY <1>4 DEF BlobQueried, BlobAnswers, blobVars
  <2>2. AwaitedKey(t) = k
    BY <1>2, <2>1 DEF AwaitedKey
  <2>3. ASSUME NEW j \in CacheKeys, Settled(j), j \in OwnershipKeys, k = DataKey(j[3]), d = j[2]
        PROVE  wire'[t] \in Failures
    <3>1. j = OwnershipKey(d, c)
      BY <1>2, <2>3, KeyParts, Keys
    <3>2. Withdrawn(OwnershipKey(d, c))
      BY <2>3, <3>1 DEF Settled
    <3>3. {"refused", "lost", "cut"} \in SUBSET Failures
      BY DEF Failures
    <3>. QED BY <1>2, <2>1, <3>2, <3>3, HostDenies
  <2>. HIDE DEF k
  <2>. QED BY <1>1, <1>2, <2>1, <2>2, <2>3, AnswerShape
<1>5. CASE BlobReceived(t, c)
  <2>. DEFINE o == DownloadOutcome(c, wire[t])
  <2>1. /\ flight[k] = t /\ stage[t] = "get" /\ Receive(t) /\ wire[t] # None
        /\ \/ o.tag = "err" /\ Return(t, k, o)
           \/ /\ o.tag = "ok" /\ stage' = [stage EXCEPT ![t] = "own"] /\ UNCHANGED mokaVars
    BY <1>5 DEF BlobReceived, Receive
  <2>2. wire'[t] = None
    BY <1>0, <2>1 DEF Receive, TypeOK, UpstreamsTypeOK
  <2>3. /\ o \in Outcomes
        /\ o.tag = "ok" => wire[t] \notin Failures
    <3>1. wire[t] \in {"notFound", "refused", "lost", "cut"} \/ wire[t] \in Bodies
      BY <1>0, <1>1, <2>1 DEF TaskInv, WireInv
    <3>. QED BY <3>1, DownloadOutcomes DEF Failures
  <2>4. CASE o.tag = "err" /\ Return(t, k, o)
    <3>1. stage'[t] = "none" /\ Returns(t, k, o)
      BY <1>0, <2>4 DEF Return, Returns, TypeOK, HandlersTypeOK
    <3>. QED BY <1>2, <2>2, <2>3, <3>1, ReturnShape
  <2>5. CASE o.tag = "ok" /\ stage' = [stage EXCEPT ![t] = "own"] /\ UNCHANGED mokaVars
    <3>1. KeepsToItself(t)
      BY <2>5 DEF mokaVars, KeepsToItself
    <3>2. ASSUME NEW j \in CacheKeys, Settled(j) PROVE NoStaleLoad(t, j)'
      <4>1. j \in OwnershipKeys /\ flight[DataKey(j[3])] = t => req[t].did # j[2]
        BY <2>1, <2>3, <2>5, <3>2 DEF Settled, NoStaleLoad
      <4>. QED BY <1>1, <2>2, <2>5, <4>1 DEF NoStaleLoad, mokaVars
    <3>. QED BY <3>1, <3>2 DEF Shape
  <2>. QED BY <2>1, <2>4, <2>5
<1>6. CASE OwnershipInserted(t, d, c)
  <2>1. /\ flight[k] = t /\ stage[t] = "own" /\ UNCHANGED <<flight, wire>>
        /\ wire[t] = None
    BY <1>0, <1>6 DEF OwnershipInserted, InsertEntry, upstreamVars, TaskInv, WireInv
  <2>2. ASSUME NEW j \in CacheKeys, Settled(j) PROVE NoStaleLoad(t, j)'
    BY <1>1, <2>1, <2>2 DEF Settled, NoStaleLoad
  <2>. QED BY <1>1, <1>6, <2>2 DEF Shape
<1>7. CASE BlobReturned(t, c)
  <2>1. /\ stage[t] = "ret" /\ Return(t, k, Ok(bytes[t])) /\ wire' = wire
        /\ bytes[t] \in Verified(c) /\ wire[t] = None
    BY <1>0, <1>7 DEF BlobReturned, TaskInv, StageInv, WireInv, upstreamVars
  <2>2. Ok(bytes[t]) \in Outcomes
    BY <2>1 DEF Ok, Outcomes, Values, Verified
  <2>3. stage'[t] = "none" /\ Returns(t, k, Ok(bytes[t]))
    BY <1>0, <1>2, <2>1 DEF Return, Returns, Bears, AwaitedKey, TypeOK, HandlersTypeOK
  <2>. QED BY <1>2, <2>1, <2>2, <2>3, ReturnShape
<1>. QED BY <1>3, <1>4, <1>5, <1>6, <1>7 DEF CallFetchBlob, FetchBlob

\* fetch_blob_ownership.
LEMMA OwnershipShape ==
    ASSUME IInv, NEW t \in Tasks, CallFetchOwnership(t)
    PROVE  Shape(t)
<1>. DEFINE d == req[t].did
            c == req[t].cid
            k == OwnershipKey(d, c)
<1>0. TypeOK /\ TaskInv(t)
  BY DEF IInv
<1>1. pc[t] = "owner" /\ UNCHANGED handlerVars /\ req' = req /\ req[t] \in Requests
  BY <1>0 DEF CallFetchOwnership, TaskInv, HandlerInv, handlerVars
<1>2. /\ MainKey(t) = k /\ d \in Dids /\ c \in Cids /\ k \in CacheKeys /\ k \in OwnershipKeys
      /\ k \notin PolicyKeys \cup IdentityKeys \cup DataKeys /\ k[2] = d /\ k[3] = c
  BY <1>1, RequestKeys, Keys DEF MainKey
<1>3. CASE Fetch(t, OwnershipKey(d, c)) \/ ResolveHost(t, d, OwnershipKey(d, c))
  BY <1>1, <1>2, <1>3, FetchShape, ResolveHostShape
<1>4. CASE OwnershipQueried(t, d, c)
  <2>1. /\ flight[k] = t /\ stage[t] = "get" /\ UNCHANGED <<mokaVars, stage>>
        /\ HostAnswers(t, host[t], d, c, {"owned"}, {"refused", "lost"})
    BY <1>4 DEF OwnershipQueried, OwnershipAnswers, blobVars
  <2>2. AwaitedKey(t) = k
    BY <1>2, <2>1 DEF AwaitedKey
  <2>3. Settled(k) => wire'[t] # "owned"
    <3>1. {"refused", "lost"} \in SUBSET Failures /\ "owned" \notin Failures
      BY DEF Failures
    <3>. QED BY <1>2, <2>1, <3>1, HostDenies DEF Settled
  <2>4. \A j \in CacheKeys : k # DataKey(j[3])
    BY KeysDiffer
  <2>. HIDE DEF k
  <2>. QED BY <1>1, <1>2, <2>1, <2>2, <2>3, <2>4, AnswerShape
<1>5. CASE OwnershipReceived(t, d, c)
  <2>. DEFINE o == OwnershipOutcome(wire[t])
  <2>1. flight[k] = t /\ stage[t] = "get" /\ Receive(t) /\ Return(t, k, o)
    BY <1>5 DEF OwnershipReceived
  <2>2. o \in Outcomes /\ (o.tag = "ok" => wire[t] = "owned")
    BY OwnershipOutcomes
  <2>3. o.tag = "ok" => Bears(t, k, o.val)
    BY <1>2, <2>1, <2>2 DEF Receive, Bears
  <2>4. wire'[t] = None /\ stage'[t] = "none" /\ Returns(t, k, o)
    BY <1>0, <1>2, <2>1, <2>2, <2>3 DEF Receive, Return, Returns, AwaitedKey, TypeOK,
                                        UpstreamsTypeOK, HandlersTypeOK
  <2>. QED BY <1>2, <2>2, <2>4, ReturnShape
<1>. QED BY <1>3, <1>4, <1>5 DEF CallFetchOwnership, FetchBlobOwnership

\* Every step of a task has one of the shapes.
LEMMA TaskStepShape ==
    ASSUME IInv, NEW t \in Tasks, TaskStep(t)
    PROVE  Shape(t)
BY HandlerShapes, PolicyShape, BlobShape, OwnershipShape DEF TaskStep, Handle

-----------------------------------------------------------------------------
(* What a step of one task leaves alone.                                   *)

\* An exchange concerns the wire of the task that runs it.
LEMMA WireFrame ==
    ASSUME TypeOK, NEW t \in Tasks, NEW u \in Tasks \ {t},
           (\E a : Answer(t, a)) \/ Receive(t) \/ wire' = wire
    PROVE  wire'[u] = wire[u]
BY DEF Answer, Receive, TypeOK, UpstreamsTypeOK

\* The services change neither the world nor what another task holds.
LEMMA ServiceFrame ==
    ASSUME TypeOK, NEW t \in Tasks,
           CallPolicyClient(t) \/ CallFetchBlob(t) \/ CallFetchOwnership(t)
    PROVE  /\ UNCHANGED <<worldVars, purgeVars, handlerVars, historyVars>>
           /\ \A u \in Tasks \ {t} : LocalsKept(u)
<1>. DEFINE d == req[t].did
            c == req[t].cid
<1>1. UNCHANGED <<purgeVars, handlerVars, historyVars>>
  BY DEF CallPolicyClient, CallFetchBlob, CallFetchOwnership
<1>2. ((\E a : Answer(t, a)) \/ Receive(t) \/ wire' = wire) /\ UNCHANGED worldVars
  <2>1. CASE CallPolicyClient(t)
    BY <2>1 DEF CallPolicyClient, PolicyClientStep, GetPolicy, PolicyQueried, PolicyReceived,
                PolicyServiceAnswers, Fail, Receive, upstreamVars
  <2>2. ASSUME NEW k, Fetch(t, k) \/ ResolveHost(t, d, k)
        PROVE  ((\E a : Answer(t, a)) \/ Receive(t) \/ wire' = wire) /\ UNCHANGED worldVars
    BY <2>2 DEF Fetch, ResolveHost, IdentityStep, PdsForDid, DirectoryQueried, DirectoryReceived,
                DirectoryAnswers, Fail, Receive, upstreamVars
  <2>3. ASSUME NEW h, NEW claims, NEW failures, HostAnswers(t, h, d, c, claims, failures)
        PROVE  (\E a : Answer(t, a)) /\ UNCHANGED worldVars
    BY <2>3 DEF HostAnswers, Fail
  <2>4. CASE CallFetchBlob(t)
    BY <2>2, <2>3, <2>4 DEF CallFetchBlob, FetchBlob, BlobQueried, BlobAnswers, BlobReceived,
                            OwnershipInserted, BlobReturned, Receive, upstreamVars
  <2>5. CASE CallFetchOwnership(t)
    BY <2>2, <2>3, <2>5 DEF CallFetchOwnership, FetchBlobOwnership, OwnershipQueried,
                            OwnershipAnswers, OwnershipReceived, Receive
  <2>. QED BY <2>1, <2>4, <2>5
<1>3. ASSUME NEW u \in Tasks \ {t} PROVE stage'[u] = stage[u] /\ bytes'[u] = bytes[u]
  <2>1. CASE CallPolicyClient(t)
    BY <2>1 DEF CallPolicyClient, blobVars
  <2>2. ASSUME NEW k, Fetch(t, k) \/ ResolveHost(t, d, k)
        PROVE  stage'[u] = stage[u] /\ bytes'[u] = bytes[u]
    BY <2>2 DEF Fetch, ResolveHost, Return, blobVars, TypeOK, HandlersTypeOK
  <2>3. CASE CallFetchBlob(t)
    BY <2>2, <2>3 DEF CallFetchBlob, FetchBlob, BlobQueried, BlobReceived, OwnershipInserted,
                      BlobReturned, Return, blobVars, TypeOK, HandlersTypeOK
  <2>4. CASE CallFetchOwnership(t)
    BY <2>2, <2>4 DEF CallFetchOwnership, FetchBlobOwnership, OwnershipQueried, OwnershipReceived,
                      Return, blobVars, TypeOK, HandlersTypeOK
  <2>. QED BY <2>1, <2>3, <2>4
<1>. QED BY <1>1, <1>2, <1>3, WireFrame DEF LocalsKept, handlerVars

\* Nor do the handlers.
LEMMA StepFrame ==
    ASSUME TypeOK, NEW t \in Tasks, TaskStep(t)
    PROVE  /\ UNCHANGED <<worldVars, purgeVars, watch, purged>>
           /\ \A u \in Tasks \ {t} : LocalsKept(u) /\ late'[u] = late[u]
<1>. USE DEF LocalsKept, historyVars, upstreamVars, blobVars
<1>1. CASE CallPolicyClient(t) \/ CallFetchBlob(t) \/ CallFetchOwnership(t)
  BY <1>1, ServiceFrame
<1>2. CASE RejectMalformed(t) \/ MetadataExtracted(t) \/ \E r \in Requests : Arrive(t, r)
  BY <1>2 DEF RejectMalformed, Refuse, MetadataExtracted, Serve, Arrive, GoTo,
              TypeOK, HandlersTypeOK, PurgesTypeOK
<1>3. CASE PolicyDecided(t) \/ BlobFetched(t) \/ OwnershipVerified(t)
  BY <1>3 DEF PolicyDecided, BlobFetched, OwnershipVerified, Refuse, Serve, GoTo,
              TypeOK, HandlersTypeOK
<1>4. CASE Drop(t)
  BY <1>4 DEF Drop, Refuse, GoTo, TypeOK, HandlersTypeOK, UpstreamsTypeOK
<1>. QED BY <1>1, <1>2, <1>3, <1>4 DEF TaskStep, Handle

\* What another task leads it leads on.
LEMMA LeadsStay ==
    ASSUME MokaTypeOK, NEW t \in Tasks, NEW u \in Tasks \ {t}, Shape(t), NEW k \in CacheKeys
    PROVE  flight'[k] = u <=> flight[k] = u
<1>1. ASSUME NEW j \in CacheKeys, LookUp(t, j)
      PROVE  flight'[k] = u <=> flight[k] = u
  BY <1>1, NoneAssumption DEF LookUp, Hit, Park, Lead, MokaTypeOK
<1>2. CASE LookUp(t, AwaitedKey(t)) /\ req[t] \in Requests
  BY <1>1, <1>2, TaskKeys
<1>3. CASE \E j \in CacheKeys, o \in Outcomes : Returns(t, j, o)
  BY <1>3, NoneAssumption DEF Returns, Resolve, MokaTypeOK
<1>4. CASE flight' = flight
  BY <1>4
<1>5. CASE DropFuture(t)
  BY <1>5, NoneAssumption DEF DropFuture, MokaTypeOK
<1>. QED BY <1>2, <1>3, <1>4, <1>5 DEF Shape, OwnershipInserted, InsertEntry, KeepsToItself

\* A settled fact stays settled.
LEMMA TasksKeepSettled ==
    ASSUME IInv, NEW t \in Tasks, TaskStep(t), NEW k \in CacheKeys, Settled(k)
    PROVE  Settled(k)'
<1>1. TypeOK /\ Shape(t)
  BY TaskStepShape DEF IInv
<1>2. ASSUME NEW u \in Tasks PROVE NoStaleLoad(u, k)'
  <2>1. CASE u = t
    BY <1>1, <2>1 DEF Shape
  <2>2. CASE u # t
    <3>1. LocalsKept(u)
      BY <1>1, <2>2, StepFrame
    <3>2. flight'[k] = u <=> flight[k] = u
      BY <1>1, <2>2, LeadsStay DEF TypeOK
    <3>3. k \in OwnershipKeys => DataKey(k[3]) \in CacheKeys
      BY KeyParts, Keys
    <3>4. k \in OwnershipKeys => (flight'[DataKey(k[3])] = u <=> flight[DataKey(k[3])] = u)
      BY <1>1, <2>2, <3>3, LeadsStay DEF TypeOK
    <3>. QED BY <3>1, <3>2, <3>4 DEF Settled, NoStaleLoad, LocalsKept
  <2>. QED BY <2>1, <2>2
<1>3. Withdrawn(k)'
  <2>1. UNCHANGED worldVars
    BY <1>1, StepFrame
  <2>. QED BY <2>1 DEF Settled, Withdrawn, worldVars
<1>. QED BY <1>2, <1>3 DEF Settled

\* A step of a task stores nothing stale under a settled key.
LEMMA NothingStaleStored ==
    ASSUME IInv, NEW t \in Tasks, TaskStep(t), NEW k \in CacheKeys, Settled(k)
    PROVE  entries'[k] = entries[k] \/ ~Stale(k, entries'[k])
<1>1. MokaTypeOK /\ Shape(t) /\ TaskInv(t)
  BY TaskStepShape DEF IInv, TypeOK
<1>2. CASE entries' = entries
  BY <1>2
<1>3. ASSUME NEW j \in CacheKeys, NEW o \in Outcomes, Returns(t, j, o)
      PROVE  entries'[k] = entries[k] \/ ~Stale(k, entries'[k])
  <2>1. CASE o.tag = "ok" /\ j = k
    <3>1. entries'[k] = o.val /\ flight[k] = t
      BY <1>1, <1>3, <2>1 DEF Returns, Resolve, MokaTypeOK
    <3>. QED BY <1>3, <2>1, <3>1, BorneOut DEF Returns
  <2>2. CASE o.tag # "ok" \/ j # k
    BY <1>1, <1>3, <2>2 DEF Returns, Resolve, MokaTypeOK
  <2>. QED BY <2>1, <2>2
<1>4. CASE OwnershipInserted(t, req[t].did, req[t].cid) /\ pc[t] = "data"
  <2>. DEFINE j == OwnershipKey(req[t].did, req[t].cid)
  <2>1. req[t].did \in Dids /\ req[t].cid \in Cids
    BY <1>1, <1>4, RequestKeys DEF TaskInv, HandlerInv
  <2>2. flight[DataKey(req[t].cid)] = t /\ stage[t] = "own"
    BY <1>4 DEF OwnershipInserted
  <2>3. j # k
    BY <2>1, <2>2, Keys DEF Settled, NoStaleLoad
  <2>4. entries' = [entries EXCEPT ![j] = "owned"]
    BY <1>4 DEF OwnershipInserted, InsertEntry
  <2>. HIDE DEF j
  <2>. QED BY <1>1, <2>3, <2>4 DEF MokaTypeOK
<1>5. LookUp(t, AwaitedKey(t)) \/ DropFuture(t) \/ KeepsToItself(t) => entries' = entries
  BY DEF LookUp, Hit, Park, Lead, DropFuture, KeepsToItself
<1>. QED BY <1>1, <1>2, <1>3, <1>4, <1>5 DEF Shape

\* Nor is a task told anything stale about what it waits for, unless it is in the cache.
LEMMA NothingStaleTold ==
    ASSUME IInv, NEW t \in Tasks, TaskStep(t), NEW u \in Tasks, NEW k \in CacheKeys,
           Settled(k), k = AwaitedKey(u), NotStale(k),
           inbox'[u] # inbox[u], inbox'[u] # None, inbox'[u].tag = "ok"
    PROVE  ~Stale(k, inbox'[u].val)
<1>1. MokaTypeOK /\ Shape(t) /\ TaskInv(t) /\ TaskInv(u)
  BY TaskStepShape DEF IInv, TypeOK
<1>2. CASE LookUp(t, AwaitedKey(t)) /\ req[t] \in Requests
  <2>1. CASE Hit(t, AwaitedKey(t))
    BY <1>1, <2>1 DEF Hit, MokaTypeOK, NotStale, Ok
  <2>2. CASE Park(t, AwaitedKey(t)) \/ Lead(t, AwaitedKey(t))
    BY <1>1, <2>2 DEF Park, Lead, MokaTypeOK
  <2>. QED BY <1>2, <2>1, <2>2 DEF LookUp
<1>3. ASSUME NEW j \in CacheKeys, NEW o \in Outcomes, Returns(t, j, o)
      PROVE  ~Stale(k, inbox'[u].val)
  <2>1. inbox'[u] = o /\ (u = t \/ parked[u] = j)
    BY <1>3 DEF Returns, Resolve
  <2>2. j = k
    <3>1. CASE parked[u] = j
      BY <1>1, <3>1, NoneIsNothing DEF TaskInv, WaitInv
    <3>2. CASE u = t
      BY <1>3, <2>1, <3>2 DEF Returns
    <3>. QED BY <2>1, <3>1, <3>2
  <2>3. flight[k] = t
    BY <1>3, <2>2 DEF Returns, Resolve
  <2>. QED BY <1>3, <2>1, <2>2, <2>3, BorneOut DEF Returns
<1>4. ~OwnershipInserted(t, req[t].did, req[t].cid)
  BY DEF OwnershipInserted, InsertEntry
<1>5. ~DropFuture(t)
  BY DEF DropFuture, Aborted
<1>6. ~KeepsToItself(t)
  BY DEF KeepsToItself
<1>. QED BY <1>1, <1>2, <1>3, <1>4, <1>5, <1>6 DEF Shape

-----------------------------------------------------------------------------
(* The plan of a purge.                                                    *)

\* A step before two others.
LEMMA BeforeTwo ==
    ASSUME NEW P, NEW A, NEW B, NEW plan, plan = <<P>> \o <<A, B>>
    PROVE  Len(plan) = 3 /\ plan[1] = P /\ plan[2] = A /\ plan[3] = B
<1>1. Len(plan) = 3
  OBVIOUS
<1>2. plan[1] = P /\ plan[2] = A /\ plan[3] = B
  OBVIOUS
<1>. QED BY <1>1, <1>2

\* A step before three others.
LEMMA BeforeThree ==
    ASSUME NEW P, NEW A, NEW B, NEW C, NEW plan, plan = <<P>> \o <<A, B, C>>
    PROVE  Len(plan) = 4 /\ plan[1] = P /\ plan[2] = A /\ plan[3] = B /\ plan[4] = C
<1>1. Len(plan) = 4
  OBVIOUS
<1>2. plan[1] = P /\ plan[2] = A /\ plan[3] = B /\ plan[4] = C
  OBVIOUS
<1>. QED BY <1>1, <1>2

\* The steps of purgeActor and purgeBlob, with a policy service and without.
LEMMA ThreeSteps ==
    ASSUME NEW P, NEW A, NEW B, NEW plan, plan = PolicyPart(P) \o <<A, B>>
    PROVE  /\ Len(plan) \in Nat \ {0}
           /\ \A k : k \in A \cup B \/ (PolicyConfigured /\ k \in P) =>
                \E i \in 1..Len(plan) : k \in plan[i]
<1>1. CASE PolicyConfigured
  <2>1. plan = <<P>> \o <<A, B>>
    BY <1>1 DEF PolicyPart
  <2>2. Len(plan) = 3 /\ plan[1] = P /\ plan[2] = A /\ plan[3] = B
    BY ONLY <2>1, BeforeTwo
  <2>. QED BY <2>2
<1>2. CASE ~PolicyConfigured
  <2>1. plan = <<A, B>>
    BY <1>2 DEF PolicyPart
  <2>. QED BY <1>2, <2>1
<1>. QED BY <1>1, <1>2

\* The steps of purgeAll.
LEMMA FourSteps ==
    ASSUME NEW P, NEW A, NEW B, NEW C, NEW plan, plan = PolicyPart(P) \o <<A, B, C>>
    PROVE  /\ Len(plan) \in Nat \ {0}
           /\ \A k : k \in A \cup B \cup C \/ (PolicyConfigured /\ k \in P) =>
                \E i \in 1..Len(plan) : k \in plan[i]
<1>1. CASE PolicyConfigured
  <2>1. plan = <<P>> \o <<A, B, C>>
    BY <1>1 DEF PolicyPart
  <2>2. Len(plan) = 4 /\ plan[1] = P /\ plan[2] = A /\ plan[3] = B /\ plan[4] = C
    BY ONLY <2>1, BeforeThree
  <2>. QED BY <2>2
<1>2. CASE ~PolicyConfigured
  <2>1. plan = <<A, B, C>>
    BY <1>2 DEF PolicyPart
  <2>. QED BY <1>2, <2>1
<1>. QED BY <1>1, <1>2

\* A purge has steps.
LEMMA PlanLength ==
    ASSUME NEW p
    PROVE  Len(PurgePlan(p)) \in Nat \ {0}
<1>1. CASE p.op = "purgeActor"
  BY <1>1, ThreeSteps DEF PurgePlan, PurgeActor
<1>2. CASE p.op = "purgeBlob"
  BY <1>2, ThreeSteps DEF PurgePlan, PurgeBlob
<1>3. CASE p.op \notin {"purgeActor", "purgeBlob"}
  BY <1>3, FourSteps DEF PurgePlan, PurgeAll
<1>. QED BY <1>1, <1>2, <1>3

\* Every fact a purge is about that can be withdrawn is in one of its steps, a
\* decision where a policy service is configured.
LEMMA PlanRemoves ==
    ASSUME NEW p \in Purges, NEW k \in Covered(p), k \notin DataKeys,
           k \in PolicyKeys => PolicyConfigured
    PROVE  \E i \in 1..Len(PurgePlan(p)) : k \in PurgePlan(p)[i]
<1>1. CASE p.op = "purgeActor"
  <2>1. k \in CacheKeys /\ k[2] = p.did
    BY <1>1 DEF Covered
  <2>2. \/ k \in {IdentityKey(p.did)} \cup OwnershipKeysOfDid(p.did)
        \/ PolicyConfigured /\ k \in PolicyKeysOfDid(p.did)
    BY <2>1, KeyParts DEF CacheKeys, PolicyKeysOfDid, OwnershipKeysOfDid
  <2>3. PurgePlan(p) = PolicyPart(PolicyKeysOfDid(p.did))
                         \o <<{IdentityKey(p.did)}, OwnershipKeysOfDid(p.did)>>
    BY <1>1 DEF PurgePlan, PurgeActor
  <2>. QED BY <2>2, <2>3, ThreeSteps
<1>2. CASE p.op = "purgeBlob"
  <2>1. k \in CacheKeys /\ k[3] = p.cid /\ p.cid # None
    BY <1>2, PurgeAssumption DEF Covered
  <2>2. k \notin IdentityKeys
    BY <2>1 DEF IdentityKeys
  <2>3. \/ k \in {DataKey(p.cid)} \cup OwnershipKeysOfCid(p.cid)
        \/ PolicyConfigured /\ k \in PolicyKeysOfCid(p.cid)
    BY <2>1, <2>2, KeyParts DEF CacheKeys, PolicyKeysOfCid, OwnershipKeysOfCid
  <2>4. PurgePlan(p) = PolicyPart(PolicyKeysOfCid(p.cid))
                         \o <<{DataKey(p.cid)}, OwnershipKeysOfCid(p.cid)>>
    BY <1>2 DEF PurgePlan, PurgeBlob
  <2>. QED BY <2>3, <2>4, ThreeSteps
<1>3. CASE p.op \notin {"purgeActor", "purgeBlob"}
  <2>1. \/ k \in IdentityKeys \cup DataKeys \cup OwnershipKeys
        \/ PolicyConfigured /\ k \in PolicyKeys
    BY <1>3 DEF Covered, CacheKeys
  <2>2. PurgePlan(p) = PolicyPart(PolicyKeys) \o <<IdentityKeys, DataKeys, OwnershipKeys>>
    BY <1>3 DEF PurgePlan, PurgeAll
  <2>. QED BY <2>1, <2>2, FourSteps
<1>. QED BY <1>1, <1>2, <1>3

-----------------------------------------------------------------------------
(* The steps no task takes.                                                *)

OtherStep ==
    \/ \E a \in Admins, p \in Purges : PurgeArrives(a, p)
    \/ \E a \in Admins : PurgeFails(a) \/ RunPurgeStep(a)
    \/ \E k \in CacheKeys : EntryExpires(k)
    \/ World
    \/ UNCHANGED vars

\* Every step is a task's or another one.
LEMMA StepKinds == [Next]_vars => OtherStep \/ \E t \in Tasks : TaskStep(t)
BY DEF Next, OtherStep, TaskStep, Quiescent

\* They run no load and touch no request, and remove entries at most.
LEMMA OtherStepFrame ==
    ASSUME IInv, OtherStep
    PROVE  /\ UNCHANGED <<flight, parked, inbox, wire, stage, handlerVars, late>>
           /\ \A k \in CacheKeys : entries'[k] \in {entries[k], None}
<1>. USE DEF mokaVars, upstreamVars, blobVars, historyVars
<1>0. MokaTypeOK
  BY DEF IInv, TypeOK
<1>1. CASE UNCHANGED vars \/ World
  <2>1. World => wire' = wire
    BY DEF World, WorldStep, Takedown, Migrate, Delete
  <2>. QED BY <1>1, <2>1 DEF vars, World
<1>2. ASSUME NEW k \in CacheKeys, EntryExpires(k)
      PROVE  /\ UNCHANGED <<flight, parked, inbox, wire, stage, handlerVars, late>>
             /\ \A j \in CacheKeys : entries'[j] \in {entries[j], None}
  BY <1>0, <1>2, InvalidateRemoves DEF EntryExpires, Expire
<1>3. ASSUME NEW a \in Admins, RunPurgeStep(a)
      PROVE  /\ UNCHANGED <<flight, parked, inbox, wire, stage, handlerVars, late>>
             /\ \A j \in CacheKeys : entries'[j] \in {entries[j], None}
  BY <1>0, <1>3, InvalidateRemoves DEF RunPurgeStep, PurgeStep
<1>4. ASSUME NEW a \in Admins, PurgeFails(a) \/ \E p \in Purges : PurgeArrives(a, p)
      PROVE  UNCHANGED <<mokaVars, wire, stage, handlerVars, late>>
  BY <1>4 DEF PurgeFails, RejectPurge, DropPurge, PurgeArrives, StartPurge
<1>. QED BY <1>1, <1>2, <1>3, <1>4 DEF OtherStep

\* The world does not take a withdrawal back.
LEMMA WithdrawnStays ==
    ASSUME IInv, OtherStep, NEW k \in CacheKeys, Withdrawn(k)
    PROVE  Withdrawn(k)'
<1>. USE DEF Withdrawn
<1>0. UpstreamsTypeOK
  BY DEF IInv, TypeOK
<1>1. CASE UNCHANGED worldVars
  BY <1>1 DEF worldVars
<1>2. ASSUME NEW d \in Dids, NEW c \in Cids, Takedown(d, c) PROVE Withdrawn(k)'
  <2>1. k \in PolicyKeys => <<k[2], k[3]>> \in Dids \X Cids
    BY KeyParts
  <2>. QED BY <1>0, <1>2, <2>1 DEF Takedown, UpstreamsTypeOK
<1>3. ASSUME NEW d \in Dids, NEW h \in Hosts, Migrate(d, h) PROVE Withdrawn(k)'
  <2>1. k \in IdentityKeys => k[2] \in Dids
    BY KeyParts
  <2>. QED BY <1>0, <1>3, <2>1 DEF Migrate, UpstreamsTypeOK
<1>4. ASSUME NEW x \in Holdings, Delete(x) PROVE Withdrawn(k)'
  BY <1>4 DEF Delete
<1>5. OtherStep => World \/ UNCHANGED worldVars
  BY DEF OtherStep, PurgeArrives, StartPurge, PurgeFails, RejectPurge, DropPurge, RunPurgeStep,
         PurgeStep, EntryExpires, vars, upstreamVars
<1>. QED BY <1>1, <1>2, <1>3, <1>4, <1>5 DEF World, WorldStep

\* So whatever is settled stays settled.
LEMMA SettledStays ==
    ASSUME IInv, [Next]_vars, NEW k \in CacheKeys, Settled(k)
    PROVE  Settled(k)'
<1>1. CASE OtherStep
  <2>1. UNCHANGED <<flight, wire, stage, req>>
    BY <1>1, OtherStepFrame DEF handlerVars
  <2>2. Withdrawn(k)'
    BY <1>1, WithdrawnStays DEF Settled
  <2>. QED BY <2>1, <2>2 DEF Settled, NoStaleLoad
<1>. QED BY <1>1, StepKinds, TasksKeepSettled

\* And nothing stale is stored under its key.
LEMMA NotStaleStays ==
    ASSUME IInv, [Next]_vars, NEW k \in CacheKeys, Settled(k), NotStale(k)
    PROVE  NotStale(k)'
<1>1. CASE OtherStep
  BY <1>1, OtherStepFrame DEF NotStale, Stale
<1>2. ASSUME NEW t \in Tasks, TaskStep(t) PROVE NotStale(k)'
  BY <1>2, NothingStaleStored DEF NotStale, Stale
<1>. QED BY <1>1, <1>2, StepKinds

-----------------------------------------------------------------------------
(* The parts of the invariant.                                             *)

\* What a purge that begins is to remove is settled from then on.
LEMMA WatchIsSettled ==
    ASSUME IInv, NEW k \in CacheKeys, Withdrawn(k), ~Loading(k)
    PROVE  Settled(k)
<1>1. ASSUME NEW t \in Tasks PROVE NoStaleLoad(t, k)
  BY <1>1, NoneAssumption DEF Loading, NoStaleLoad
<1>. QED BY <1>1 DEF Settled

\* Everything watched is settled.
LEMMA WatchedStaysSettled ==
    ASSUME IInv, PInv, [Next]_vars, NEW k \in Watched'
    PROVE  k \in CacheKeys /\ Settled(k)'
<1>0. PurgesTypeOK /\ \A j \in Watched : j \in CacheKeys /\ Settled(j)
  BY DEF PInv, Watched, IInv, TypeOK, PurgesTypeOK
<1>1. CASE k \in Watched
  BY <1>0, <1>1, SettledStays
<1>2. CASE k \notin Watched
  <2>1. PICK a \in Admins, p \in Purges : PurgeArrives(a, p)
    <3>1. CASE \E t \in Tasks : TaskStep(t)
      BY <1>2, <3>1, StepFrame DEF Watched, IInv
    <3>2. CASE UNCHANGED <<watch, purged>>
      BY <1>2, <3>2 DEF Watched
    <3>3. ASSUME NEW a \in Admins, RunPurgeStep(a) PROVE FALSE
      BY <1>2, <3>3 DEF RunPurgeStep, Watched
    <3>. QED BY <3>1, <3>2, <3>3, StepKinds DEF OtherStep, PurgeFails, EntryExpires, World,
                historyVars, vars
  <2>2. k \in watch'[a] /\ watch'[a] = {j \in Covered(p) : Withdrawn(j) /\ ~Loading(j)}
    BY <1>0, <1>2, <2>1 DEF PurgeArrives, Watched, PurgesTypeOK
  <2>3. k \in CacheKeys
    BY <2>2 DEF Covered
  <2>. QED BY <2>2, <2>3, WatchIsSettled, SettledStays
<1>. QED BY <1>1, <1>2

\* What is watched and not stale stays so.
LEMMA WatchedStaysFresh ==
    ASSUME IInv, PInv, [Next]_vars, NEW k \in Watched, NotStale(k)
    PROVE  NotStale(k)'
<1>1. k \in CacheKeys /\ Settled(k)
  BY DEF PInv, Watched, IInv, TypeOK, PurgesTypeOK
<1>. QED BY <1>1, NotStaleStays

\* The step of a purge leaves nothing under its keys.
LEMMA StepRemoves ==
    ASSUME IInv, NEW a \in Admins, RunPurgeStep(a), NEW k \in CurrentStep(a), k \in CacheKeys
    PROVE  NotStale(k)'
BY DEF RunPurgeStep, PurgeStep, Invalidate, NotStale, IInv, TypeOK, MokaTypeOK

\* A purge that takes a step has done it, and those before.
LEMMA StepsDone ==
    ASSUME IInv, PInv, NEW a \in Admins, RunPurgeStep(a),
           NEW i \in 1..(step[a] + 1), NEW k \in watch[a] \cap PurgePlan(order[a])[i]
    PROVE  NotStale(k)'
<1>1. order[a] # None /\ step[a] \in Nat /\ k \in CacheKeys /\ k \in Watched
  BY DEF RunPurgeStep, PurgeStep, Purging, IInv, TypeOK, PurgesTypeOK, Watched
<1>2. CASE i = step[a] + 1
  BY <1>1, <1>2, StepRemoves DEF CurrentStep
<1>3. CASE i \in 1..step[a]
  <2>1. NotStale(k)
    BY <1>1, <1>3 DEF PInv, PurgeInv
  <2>2. [Next]_vars
    BY DEF Next
  <2>. QED BY <1>1, <2>1, <2>2, WatchedStaysFresh
<1>. QED BY <1>1, <1>2, <1>3

\* A purge that nobody advances.
LEMMA PurgeWaits ==
    ASSUME IInv, PInv, [Next]_vars, NEW a \in Admins,
           order'[a] = order[a], step'[a] = step[a], answer'[a] \in {answer[a], 401, 422, 499},
           order[a] # None => watch'[a] = watch[a]
    PROVE  PurgeInv(a)'
<1>1. PurgeInv(a)
  BY DEF PInv
<1>2. CASE order[a] = None
  BY <1>1, <1>2 DEF PurgeInv
<1>3. CASE order[a] # None
  <2>1. \A i \in 1..step[a] : \A k \in watch[a] \cap PurgePlan(order[a])[i] : NotStale(k)'
    <3>1. ASSUME NEW i \in 1..step[a], NEW k \in watch[a] \cap PurgePlan(order[a])[i]
          PROVE  NotStale(k)'
      <4>1. NotStale(k) /\ k \in Watched
        BY <1>1, <1>3, <3>1 DEF PurgeInv, Watched
      <4>. QED BY <4>1, WatchedStaysFresh
    <3>. QED BY <3>1
  <2>2. watch'[a] \subseteq Covered(order'[a])
    BY <1>1, <1>3 DEF PurgeInv, Covered
  <2>3. answer'[a] = 0 => answer[a] = 0
    OBVIOUS
  <2>. QED BY <1>1, <1>3, <2>1, <2>2, <2>3 DEF PurgeInv
<1>. QED BY <1>2, <1>3

\* Every purge stays on its plan.
LEMMA PurgesStayOnPlan ==
    ASSUME IInv, PInv, [Next]_vars, NEW b \in Admins
    PROVE  PurgeInv(b)'
<1>0. PurgesTypeOK /\ PurgeInv(b)
  BY DEF IInv, TypeOK, PInv
<1>1. ASSUME NEW t \in Tasks, TaskStep(t) PROVE PurgeInv(b)'
  <2>1. UNCHANGED <<purgeVars, watch>>
    BY <1>1, StepFrame DEF IInv
  <2>. QED BY <2>1, PurgeWaits DEF purgeVars
<1>2. ASSUME NEW a \in Admins, NEW p \in Purges, PurgeArrives(a, p) PROVE PurgeInv(b)'
  <2>1. /\ order[a] = None /\ step' = step
        /\ \/ order' = [order EXCEPT ![a] = p] /\ answer' = answer
           \/ order' = order /\ answer' = [answer EXCEPT ![a] = 422]
        /\ watch' = [watch EXCEPT ![a] = {k \in Covered(p) : Withdrawn(k) /\ ~Loading(k)}]
    BY <1>2 DEF PurgeArrives, StartPurge
  <2>2. CASE a = b /\ order' = [order EXCEPT ![a] = p] /\ answer' = answer
    <3>1. order'[b] = p /\ step'[b] = 0 /\ watch'[b] \subseteq Covered(p)
      BY <1>0, <2>1, <2>2 DEF PurgesTypeOK, PurgeInv
    <3>2. p # None /\ 0 < Len(PurgePlan(p))
      BY PurgeAssumption, PlanLength
    <3>. QED BY <3>1, <3>2 DEF PurgeInv, Covered
  <2>3. CASE a # b \/ order' = order
    BY <1>0, <2>1, <2>3, PurgeWaits DEF PurgesTypeOK
  <2>. QED BY <2>1, <2>2, <2>3
<1>3. ASSUME NEW a \in Admins, PurgeFails(a) PROVE PurgeInv(b)'
  <2>1. UNCHANGED <<order, step, watch>> /\ \E s \in {401, 499} : answer' = [answer EXCEPT ![a] = s]
    BY <1>3 DEF PurgeFails, RejectPurge, DropPurge, historyVars
  <2>. QED BY <1>0, <2>1, PurgeWaits DEF PurgesTypeOK
<1>4. ASSUME NEW a \in Admins, RunPurgeStep(a) PROVE PurgeInv(b)'
  <2>1. /\ order[a] # None /\ answer[a] = 0
        /\ UNCHANGED <<order, watch>>
        /\ step' = [step EXCEPT ![a] = @ + 1]
        /\ answer' = [answer EXCEPT ![a] = IF StepsLeft(a) = 1 THEN 200 ELSE @]
    BY <1>4 DEF RunPurgeStep, PurgeStep, Purging
  <2>2. CASE a = b
    <3>1. /\ order'[b] = order[b] /\ watch'[b] = watch[b] /\ order[b] # None
          /\ step'[b] = step[b] + 1 /\ step[b] \in Nat
          /\ answer'[b] = IF StepsLeft(b) = 1 THEN 200 ELSE 0
      BY <1>0, <2>1, <2>2 DEF PurgesTypeOK
    <3>2. /\ order[b] \in Purges /\ watch[b] \subseteq Covered(order[b])
          /\ step[b] < Len(PurgePlan(order[b]))
      BY <1>0, <2>1, <2>2 DEF PurgeInv
    <3>3. answer'[b] = 0 => step'[b] < Len(PurgePlan(order[b]))
      BY <3>1, <3>2, PlanLength DEF StepsLeft
    <3>4. \A i \in 1..step'[b] : \A k \in watch[b] \cap PurgePlan(order[b])[i] : NotStale(k)'
      BY <1>4, <2>2, <3>1, StepsDone
    <3>5. watch'[b] \subseteq Covered(order'[b])
      BY <3>1, <3>2 DEF Covered
    <3>. QED BY <3>1, <3>2, <3>3, <3>4, <3>5 DEF PurgeInv
  <2>3. CASE a # b
    BY <1>0, <2>1, <2>3, PurgeWaits DEF PurgesTypeOK
  <2>. QED BY <2>2, <2>3
<1>5. ASSUME UNCHANGED <<purgeVars, watch>> PROVE PurgeInv(b)'
  BY <1>5, PurgeWaits DEF purgeVars
<1>. QED BY <1>1, <1>2, <1>3, <1>4, <1>5, StepKinds DEF OtherStep, EntryExpires, World, historyVars, vars

\* A purge that is over has removed all it was to remove.
LEMMA FinishedPurge ==
    ASSUME IInv, PInv, NEW a \in Admins, RunPurgeStep(a), StepsLeft(a) = 1, NEW k \in watch[a]
    PROVE  NotStale(k)'
<1>. DEFINE plan == PurgePlan(order[a])
<1>1. /\ order[a] \in Purges /\ k \in Covered(order[a]) /\ step[a] \in Nat
      /\ Len(plan) = step[a] + 1
  BY PlanLength DEF PInv, PurgeInv, RunPurgeStep, PurgeStep, Purging, StepsLeft,
                    IInv, TypeOK, PurgesTypeOK
<1>2. k \in CacheKeys /\ Withdrawn(k)
  BY DEF PInv, Watched, Settled, IInv, TypeOK, PurgesTypeOK
<1>3. k \notin DataKeys
  BY <1>2, KeyParts DEF Withdrawn
<1>4. CASE k \in PolicyKeys /\ ~PolicyConfigured
  <2>1. entries[k] = None
    BY <1>4 DEF PInv, NoPolicyInv
  <2>2. entries'[k] = None
    BY <1>2, <2>1, InvalidateRemoves DEF RunPurgeStep, PurgeStep, IInv, TypeOK
  <2>. QED BY <2>2 DEF NotStale
<1>5. CASE k \in PolicyKeys => PolicyConfigured
  <2>1. PICK i \in 1..Len(plan) : k \in plan[i]
    BY <1>1, <1>3, <1>5, PlanRemoves
  <2>2. i \in 1..(step[a] + 1)
    BY <1>1, <2>1
  <2>. QED BY <2>1, <2>2, StepsDone
<1>. QED BY <1>4, <1>5

\* What finished purges removed stays removed.
LEMMA PurgedStayFresh ==
    ASSUME IInv, PInv, [Next]_vars, NEW k \in purged'
    PROVE  NotStale(k)'
<1>1. CASE k \in purged
  <2>1. NotStale(k) /\ k \in Watched
    BY <1>1 DEF PInv, Watched
  <2>. QED BY <2>1, WatchedStaysFresh
<1>2. CASE k \notin purged
  <2>1. purged' # purged
    BY <1>2
  <2>2. ~\E t \in Tasks : TaskStep(t)
    BY <2>1, StepFrame DEF IInv
  <2>3. PICK a \in Admins : RunPurgeStep(a)
    BY <2>1, <2>2, StepKinds DEF OtherStep, PurgeArrives, PurgeFails, EntryExpires, World,
                                 historyVars, vars
  <2>4. /\ answer' = [answer EXCEPT ![a] = IF StepsLeft(a) = 1 THEN 200 ELSE @]
        /\ answer[a] = 0 /\ answer'[a] = 200 /\ k \in watch[a]
    BY <1>2, <2>3 DEF RunPurgeStep, PurgeStep, Purging
  <2>5. StepsLeft(a) = 1
    BY <2>4 DEF IInv, TypeOK, PurgesTypeOK
  <2>. QED BY <2>3, <2>4, <2>5, FinishedPurge
<1>. QED BY <1>1, <1>2

\* Without a policy service no handler asks one, and no decision is cached.
LEMMA NoPolicyStays ==
    ASSUME IInv, PInv, [Next]_vars
    PROVE  NoPolicyInv'
<1>. SUFFICES ASSUME ~PolicyConfigured
              PROVE  /\ \A t \in Tasks : pc'[t] # "policy"
                     /\ \A k \in PolicyKeys : entries'[k] = None
  BY DEF NoPolicyInv
<1>0. /\ \A t \in Tasks : pc[t] # "policy"
      /\ \A k \in PolicyKeys : entries[k] = None
      /\ TypeOK
  BY DEF PInv, NoPolicyInv, IInv
<1>1. CASE OtherStep
  <2>1. pc' = pc
    BY <1>1, OtherStepFrame DEF handlerVars
  <2>2. ASSUME NEW k \in PolicyKeys PROVE entries'[k] = None
    BY <1>0, <1>1, OtherStepFrame DEF CacheKeys
  <2>. QED BY <1>0, <2>1, <2>2
<1>2. ASSUME NEW t \in Tasks, TaskStep(t)
      PROVE  /\ \A u \in Tasks : pc'[u] # "policy"
             /\ \A k \in PolicyKeys : entries'[k] = None
  <2>1. ASSUME NEW u \in Tasks PROVE pc'[u] # "policy"
    <3>1. CASE u # t
      BY <1>0, <1>2, <3>1, StepFrame DEF LocalsKept
    <3>2. CASE u = t
      <4>1. TypeOK => HandlersTypeOK
        BY DEF TypeOK
      <4>2. CASE CallPolicyClient(t) \/ CallFetchBlob(t) \/ CallFetchOwnership(t)
        BY <1>0, <3>2, <4>2 DEF CallPolicyClient, CallFetchBlob, CallFetchOwnership, handlerVars
      <4>3. CASE \/ RejectMalformed(t) \/ PolicyDecided(t) \/ BlobFetched(t)
                 \/ OwnershipVerified(t) \/ MetadataExtracted(t) \/ Drop(t)
                 \/ \E r \in Requests : Arrive(t, r)
        BY <1>0, <3>2, <4>1, <4>3 DEF RejectMalformed, PolicyDecided, BlobFetched, OwnershipVerified,
             MetadataExtracted, Drop, Arrive, Refuse, Serve, GoTo, HandlersTypeOK
      <4>. QED BY <1>2, <4>2, <4>3 DEF TaskStep, Handle
    <3>. QED BY <3>1, <3>2
  <2>2. ASSUME NEW k \in PolicyKeys PROVE entries'[k] = None
    <3>1. MokaTypeOK /\ Shape(t) /\ TaskInv(t) /\ k \in CacheKeys
      BY <1>0, <1>2, TaskStepShape DEF IInv, TypeOK, CacheKeys
    <3>2. ASSUME NEW j \in CacheKeys, NEW o \in Outcomes, Returns(t, j, o)
          PROVE  entries'[k] = None
      <4>1. j = AwaitedKey(t) => j # k
        <5>1. flight[j] = t
          BY <3>2 DEF Returns, Resolve
        <5>2. pc[t] \in {"data", "owner"} /\ req[t] \in Requests
          BY <1>0, <3>1, <5>1 DEF TaskInv, LeadInv, HandlerInv, Working
        <5>3. AwaitedKey(t) \notin PolicyKeys
          BY <5>2, RequestKeys, Keys DEF AwaitedKey, MainKey
        <5>. QED BY <5>3
      <4>. QED BY <1>0, <3>1, <3>2, <4>1 DEF Returns, Resolve, MokaTypeOK
    <3>3. CASE OwnershipInserted(t, req[t].did, req[t].cid) /\ pc[t] = "data"
      <4>. DEFINE j == OwnershipKey(req[t].did, req[t].cid)
      <4>1. req[t] \in Requests
        BY <3>1, <3>3 DEF TaskInv, HandlerInv
      <4>2. j # k
        BY <4>1, RequestKeys, Keys
      <4>3. entries' = [entries EXCEPT ![j] = "owned"]
        BY <3>3 DEF OwnershipInserted, InsertEntry
      <4>. HIDE DEF j
      <4>. QED BY <1>0, <3>1, <4>2, <4>3 DEF MokaTypeOK
    <3>4. LookUp(t, AwaitedKey(t)) \/ DropFuture(t) \/ KeepsToItself(t) => entries' = entries
      BY DEF LookUp, Hit, Park, Lead, DropFuture, KeepsToItself
    <3>. QED BY <1>0, <3>1, <3>2, <3>3, <3>4 DEF Shape
  <2>. QED BY <2>1, <2>2
<1>. QED BY <1>1, <1>2, StepKinds

\* What was purged before a request arrived is settled.
LEMMA LateFacts ==
    ASSUME IInv, PInv, NEW t \in Tasks, NEW k \in late[t]
    PROVE  k \in CacheKeys /\ Settled(k) /\ NotStale(k)
<1>1. k \in purged /\ k \in Watched
  BY DEF PInv, LateInv, Watched
<1>. QED BY <1>1 DEF PInv, IInv, TypeOK, PurgesTypeOK

\* The services tell nobody what was purged before.
LEMMA NotToldLate ==
    ASSUME IInv, PInv, NEW t \in Tasks, TaskStep(t), NEW u \in Tasks,
           NEW k \in late[u], k = AwaitedKey(u),
           inbox'[u] # inbox[u], inbox'[u] # None, inbox'[u].tag = "ok"
    PROVE  ~Stale(k, inbox'[u].val)
BY LateFacts, NothingStaleTold

\* A step of another task.
LEMMA OthersKeepLate ==
    ASSUME IInv, PInv, NEW t \in Tasks, TaskStep(t), NEW u \in Tasks \ {t}
    PROVE  LateInv(u)'
<1>. DEFINE own == OwnershipKey(req[u].did, req[u].cid)
            pol == PolicyKey(req[u].did, req[u].cid)
<1>1. LocalsKept(u) /\ late'[u] = late[u] /\ purged' = purged /\ TaskInv(u) /\ LateInv(u)
  BY StepFrame DEF IInv, PInv
<1>2. ASSUME own \in late[u], pc[u] = "owner", stage[u] = "none", inbox'[u] # None, inbox'[u].tag = "ok"
      PROVE  FALSE
  <2>1. req[u] \in Requests /\ own = AwaitedKey(u)
    BY <1>1, <1>2 DEF LateInv, AwaitedKey, MainKey
  <2>2. Stale(own, inbox'[u].val)
    BY <2>1, RequestKeys, Keys DEF Stale
  <2>3. inbox'[u] # inbox[u]
    BY <1>1, <1>2 DEF LateInv, Succeeded
  <2>. HIDE DEF own
  <2>. QED BY <1>2, <2>1, <2>2, <2>3, NotToldLate
<1>3. ASSUME Binding, pol \in late[u], pc[u] = "policy", inbox'[u] # None, inbox'[u].tag = "ok"
      PROVE  inbox'[u].val # "Allowed"
  <2>1. req[u] \in Requests /\ pol = AwaitedKey(u) /\ pol \in PolicyKeys
    BY <1>1, <1>3, RequestKeys, Keys DEF LateInv, AwaitedKey, MainKey, TaskInv, StageInv
  <2>2. CASE inbox'[u] = inbox[u]
    BY <1>1, <1>3, <2>2 DEF LateInv, Succeeded
  <2>3. CASE inbox'[u] # inbox[u]
    <3>. HIDE DEF pol
    <3>. QED BY <1>3, <2>1, <2>3, NotToldLate DEF Stale
  <2>. QED BY <2>2, <2>3
<1>. QED BY <1>1, <1>2, <1>3 DEF LateInv, LocalsKept, Served, Succeeded, Binding

\* A service that runs for the request itself.
LEMMA ServicesKeepLate ==
    ASSUME IInv, PInv, NEW t \in Tasks,
           CallPolicyClient(t) \/ CallFetchBlob(t) \/ CallFetchOwnership(t)
    PROVE  LateInv(t)'
<1>. DEFINE own == OwnershipKey(req[t].did, req[t].cid)
            pol == PolicyKey(req[t].did, req[t].cid)
<1>1. UNCHANGED <<handlerVars, purged, late>> /\ TaskInv(t) /\ LateInv(t) /\ TaskStep(t) /\ TypeOK
  BY ServiceFrame DEF IInv, PInv, TaskStep, Handle, historyVars
<1>2. ASSUME own \in late[t], pc[t] = "owner", stage'[t] = "none", inbox'[t] # None, inbox'[t].tag = "ok"
      PROVE  FALSE
  <2>0. req[t] \in Requests /\ CallFetchOwnership(t)
    BY <1>1, <1>2 DEF LateInv, CallPolicyClient, CallFetchBlob
  <2>1. stage[t] \in {"none", "pds", "get"}
    BY <1>1, <1>2 DEF TaskInv, StageInv, TypeOK, HandlersTypeOK
  <2>2. CASE stage[t] = "pds"
    <3>1. inbox'[t].tag = "err"
      BY <1>1, <1>2, <2>0, <2>2 DEF CallFetchOwnership, FetchBlobOwnership, Fetch, ResolveHost, Return,
           Resolve, Err, OwnershipQueried, OwnershipReceived, blobVars, TypeOK, HandlersTypeOK
    <3>. QED BY <1>2, <3>1
  <2>3. CASE stage[t] \in {"none", "get"}
    <3>1. own = AwaitedKey(t) /\ own \in OwnershipKeys
      BY <1>2, <2>0, <2>3, RequestKeys, Keys DEF AwaitedKey, MainKey
    <3>2. inbox'[t] # inbox[t]
      BY <1>1, <1>2, <2>3 DEF LateInv, Succeeded, TaskInv, InboxInv
    <3>. HIDE DEF own
    <3>. QED BY <1>1, <1>2, <3>1, <3>2, NotToldLate DEF Stale
  <2>. QED BY <2>1, <2>2, <2>3
<1>3. ASSUME Binding, pol \in late[t], pc[t] = "policy", inbox'[t] # None, inbox'[t].tag = "ok"
      PROVE  inbox'[t].val # "Allowed"
  <2>1. req[t] \in Requests /\ pol = AwaitedKey(t) /\ pol \in PolicyKeys
    BY <1>1, <1>3, RequestKeys, Keys DEF LateInv, AwaitedKey, MainKey, TaskInv, StageInv
  <2>2. CASE inbox'[t] = inbox[t]
    BY <1>1, <1>3, <2>2 DEF LateInv, Succeeded
  <2>3. CASE inbox'[t] # inbox[t]
    <3>. HIDE DEF pol
    <3>. QED BY <1>1, <1>3, <2>1, <2>3, NotToldLate DEF Stale
  <2>. QED BY <2>2, <2>3
<1>. QED BY <1>1, <1>2, <1>3 DEF LateInv, handlerVars, Served, Succeeded, Binding

\* The handler of the request goes on.
LEMMA HandlersKeepLate ==
    ASSUME IInv, PInv, NEW t \in Tasks,
           \/ PolicyDecided(t) \/ BlobFetched(t) \/ OwnershipVerified(t) \/ MetadataExtracted(t)
           \/ RejectMalformed(t) \/ Drop(t) \/ \E r \in Requests : Arrive(t, r)
    PROVE  LateInv(t)'
<1>1. TaskInv(t) /\ LateInv(t) /\ MokaTypeOK /\ HandlersTypeOK /\ PurgesTypeOK
  BY DEF IInv, PInv, TypeOK
<1>2. CASE \E r \in Requests : Arrive(t, r)
  <2>1. PICK r \in Requests : Arrive(t, r)
    BY <1>2
  <2>2. /\ req'[t] = r /\ late'[t] = purged /\ purged' = purged
        /\ pc'[t] \in {"policy", "data"} /\ (Binding => pc'[t] = "policy")
        /\ resp'[t] = 0 /\ inbox'[t] = None
    BY <1>1, <2>1, OutsideCalls DEF Arrive, GoTo, Working, Binding, mokaVars, TaskInv, HandlerInv,
                                    HandlersTypeOK, PurgesTypeOK
  <2>. QED BY <2>2 DEF LateInv, Served, Succeeded, Binding
<1>3. CASE RejectMalformed(t)
  <2>1. late[t] = {} /\ late' = late
    BY <1>1, <1>3, NoneIsNothing DEF RejectMalformed, LateInv, TaskInv, HandlerInv, historyVars
  <2>. QED BY <2>1 DEF LateInv
<1>4. CASE Drop(t)
  <2>1. pc'[t] = "done" /\ resp'[t] = 408 /\ UNCHANGED <<req, purged, late>>
    BY <1>1, <1>4 DEF Drop, Refuse, GoTo, historyVars, HandlersTypeOK
  <2>. QED BY <1>1, <2>1 DEF LateInv, Served, Binding
<1>5. CASE PolicyDecided(t)
  <2>1. /\ Returned(t, "policy") /\ UNCHANGED <<req, purged, late>>
        /\ \/ Succeeded(t) /\ inbox[t].val = "Allowed" /\ pc'[t] = "data" /\ resp' = resp
           \/ Failed(t) /\ PolicyFailOpen /\ pc'[t] = "data" /\ resp' = resp
           \/ pc'[t] = "done" /\ resp'[t] \in {410, 500}
    BY <1>1, <1>5 DEF PolicyDecided, Refuse, GoTo, historyVars, HandlersTypeOK
  <2>2. pc[t] = "policy" /\ resp[t] = 0
    BY <1>1, <2>1 DEF Returned, TaskInv, HandlerInv
  <2>3. resp'[t] # 200 /\ pc'[t] \in {"data", "done"}
    BY <2>1, <2>2
  <2>4. Binding /\ PolicyKey(req[t].did, req[t].cid) \in late[t] => pc'[t] = "done"
    BY <1>1, <2>1, <2>2 DEF LateInv, Binding
  <2>. QED BY <1>1, <2>1, <2>3, <2>4 DEF LateInv, Served, Binding
<1>6. CASE BlobFetched(t)
  <2>1. /\ Returned(t, "data") /\ UNCHANGED <<req, purged, late>>
        /\ \/ pc'[t] = "owner" /\ resp' = resp
           \/ pc'[t] = "done" /\ \E e : resp'[t] = DownloadStatus(e)
    BY <1>1, <1>6 DEF BlobFetched, Refuse, GoTo, historyVars, HandlersTypeOK
  <2>2. pc[t] = "data" /\ resp[t] = 0 /\ inbox'[t] = None
    BY <1>1, <2>1 DEF Returned, Consume, MokaTypeOK, TaskInv, HandlerInv
  <2>3. resp'[t] # 200
    BY <2>1, <2>2, DownloadStatuses
  <2>. QED BY <1>1, <2>1, <2>2, <2>3 DEF LateInv, Served, Succeeded, Binding
<1>7. CASE OwnershipVerified(t)
  <2>1. /\ pc[t] = "owner" /\ stage[t] = "none" /\ UNCHANGED <<req, purged, late>>
        /\ \/ Succeeded(t)
           \/ pc'[t] = "done" /\ \E e : resp'[t] = OwnershipStatus(e)
    BY <1>1, <1>7 DEF OwnershipVerified, Returned, Refuse, GoTo, historyVars, HandlersTypeOK
  <2>2. OwnershipKey(req[t].did, req[t].cid) \in late[t] => pc'[t] = "done" /\ resp'[t] # 200
    BY <1>1, <2>1, OwnershipStatuses DEF LateInv
  <2>. QED BY <1>1, <2>1, <2>2 DEF LateInv, Served, Binding
<1>8. CASE MetadataExtracted(t)
  <2>1. pc[t] = "metadata" /\ UNCHANGED <<req, purged, late>>
    BY <1>8 DEF MetadataExtracted, historyVars
  <2>. QED BY <1>1, <2>1 DEF LateInv, Binding
<1>. QED BY <1>2, <1>3, <1>4, <1>5, <1>6, <1>7, <1>8

\* No request acts on what was purged before it arrived.
LEMMA LateStays ==
    ASSUME IInv, PInv, [Next]_vars, NEW u \in Tasks
    PROVE  LateInv(u)'
<1>1. CASE OtherStep
  <2>1. UNCHANGED <<inbox, stage, handlerVars, late>>
    BY <1>1, OtherStepFrame
  <2>2. purged \subseteq purged'
    BY <1>1 DEF OtherStep, PurgeArrives, PurgeFails, RunPurgeStep, EntryExpires, World,
                historyVars, vars
  <2>. QED BY <2>1, <2>2 DEF PInv, LateInv, handlerVars, Served, Succeeded, Binding
<1>2. ASSUME NEW t \in Tasks, TaskStep(t) PROVE LateInv(u)'
  <2>1. CASE u # t
    BY <1>2, <2>1, OthersKeepLate
  <2>2. CASE u = t
    BY <1>2, <2>2, ServicesKeepLate, HandlersKeepLate DEF TaskStep, Handle
  <2>. QED BY <2>1, <2>2
<1>. QED BY <1>1, <1>2, StepKinds

-----------------------------------------------------------------------------
(* Every behaviour.                                                        *)

\* The invariant holds at the start.
LEMMA InitPInv == Init => PInv
<1>. SUFFICES ASSUME Init PROVE PInv
  OBVIOUS
<1>1. /\ purged = {} /\ \A a \in Admins : watch[a] = {} /\ order[a] = None /\ step[a] = 0
      /\ \A t \in Tasks : pc[t] = "idle" /\ late[t] = {}
      /\ \A k \in PolicyKeys : entries[k] = None
  BY DEF Init, PurgeInit, MokaInit, CacheKeys
<1>2. Watched = {}
  BY <1>1 DEF Watched
<1>. QED BY <1>1, <1>2 DEF PInv, PurgeInv, NoPolicyInv, LateInv

\* Every step keeps it.
LEMMA NextKeepsPInv == IInv /\ PInv /\ [Next]_vars => PInv'
<1>. SUFFICES ASSUME IInv, PInv, [Next]_vars PROVE PInv'
  OBVIOUS
<1>1. \A k \in Watched' : Settled(k)'
  BY WatchedStaysSettled
<1>2. \A k \in purged' : NotStale(k)'
  BY PurgedStayFresh
<1>3. \A a \in Admins : PurgeInv(a)'
  BY PurgesStayOnPlan
<1>4. \A t \in Tasks : LateInv(t)'
  BY LateStays
<1>. QED BY <1>1, <1>2, <1>3, <1>4, NoPolicyStays DEF PInv

\* The invariant holds in every state of every behaviour.
THEOREM PurgeInvariance == Spec => []PInv
<1>. QED BY Invariance, InitPInv, NextKeepsPInv, PTL DEF Spec

\* What a purge was to remove, once withdrawn upstream, no cache ever says again.
THEOREM PurgesLast == Spec => []PurgedStaysPurged
<1>1. PInv => PurgedStaysPurged
  BY DEF PInv, NotStale, PurgedStaysPurged
<1>. QED BY <1>1, PurgeInvariance, PTL

\* A request that arrives after such a purge is not served on what it removed.
THEOREM RevocationsHold == Spec => []RevokedIsNotServed
<1>1. PInv => RevokedIsNotServed
  BY DEF PInv, LateInv, RevokedIsNotServed, Binding
<1>. QED BY <1>1, PurgeInvariance, PTL

-----------------------------------------------------------------------------
(* The order of fetch_blob's insertions: the pair is marked as owned before *)
(* the bytes are stored, so as long as nothing is removed cached bytes have *)
(* a known owner.                                                          *)

NothingRemoved == \A k \in CacheKeys : entries[k] # None => entries'[k] # None

Marked(c) == \E d \in Dids : entries[OwnershipKey(d, c)] # None

OwnerInv ==
    /\ \A c \in Cids : entries[DataKey(c)] # None => Marked(c)
    /\ \A t \in Tasks : stage[t] = "ret" => Marked(req[t].cid)

\* Only a load that has marked its pair stores bytes.
LEMMA BytesStored ==
    ASSUME IInv, NEW t \in Tasks, TaskStep(t), NEW c \in Cids,
           entries'[DataKey(c)] # entries[DataKey(c)]
    PROVE  stage[t] = "ret" /\ req[t].cid = c
<1>. DEFINE k == DataKey(c)
<1>1. TypeOK /\ TaskInv(t) /\ k \in CacheKeys /\ k \in DataKeys
  BY Keys DEF IInv
<1>2. ASSUME NEW j, NEW o, Resolve(t, j, o), o.tag # "ok" \/ j # k PROVE FALSE
  <2>. HIDE DEF k
  <2>. QED BY <1>1, <1>2 DEF Resolve, TypeOK, MokaTypeOK, k
<1>3. entries' # entries
  OBVIOUS
<1>4. ASSUME NEW j, LookUp(t, j) PROVE FALSE
  BY <1>3, <1>4 DEF LookUp, Hit, Park, Lead
<1>5. ASSUME NEW j, j \notin IdentityKeys, ResolveHost(t, req[t].did, j) PROVE FALSE
  <2>1. IdentityKey(req[t].did) # k
    BY KeysDiffer
  <2>. HIDE DEF k
  <2>. QED BY <1>2, <1>3, <1>4, <1>5, <2>1 DEF ResolveHost, IdentityStep, PdsForDid, DirectoryQueried,
              DirectoryReceived, Consume, Return, Err, mokaVars
<1>6. ~CallPolicyClient(t)
  <2>1. PolicyKey(req[t].did, req[t].cid) # k
    BY KeysDiffer
  <2>. HIDE DEF k
  <2>. QED BY <1>2, <1>3, <1>4, <2>1 DEF CallPolicyClient, PolicyClientStep, GetPolicy, PolicyQueried,
              PolicyReceived, mokaVars
<1>7. ~CallFetchOwnership(t)
  <2>1. OwnershipKey(req[t].did, req[t].cid) # k
    BY KeysDiffer
  <2>2. pc[t] = "owner" => OwnershipKey(req[t].did, req[t].cid) \notin IdentityKeys
    BY <1>1, RequestKeys, Keys DEF TaskInv, HandlerInv
  <2>. HIDE DEF k
  <2>. QED BY <1>2, <1>3, <1>4, <1>5, <2>1, <2>2 DEF CallFetchOwnership, FetchBlobOwnership, Fetch,
              LookUp, OwnershipQueried, OwnershipReceived, Return, mokaVars
<1>8. CASE CallFetchBlob(t)
  <2>. DEFINE j == DataKey(req[t].cid)
  <2>1. pc[t] = "data" /\ req[t].did \in Dids /\ req[t].cid \in Cids /\ j \notin IdentityKeys
    BY <1>1, <1>8, RequestKeys, Keys DEF CallFetchBlob, TaskInv, HandlerInv
  <2>2. ~Fetch(t, j) /\ ~ResolveHost(t, req[t].did, j)
    BY <1>4, <1>5, <2>1 DEF Fetch, LookUp
  <2>3. ~BlobQueried(t, req[t].did, req[t].cid)
    BY <1>3 DEF BlobQueried, mokaVars
  <2>4. ~BlobReceived(t, req[t].cid)
    BY <1>2, <1>3 DEF BlobReceived, Return, mokaVars
  <2>5. ~OwnershipInserted(t, req[t].did, req[t].cid)
    <3>1. OwnershipKey(req[t].did, req[t].cid) # k
      BY KeysDiffer
    <3>. HIDE DEF k
    <3>. QED BY <1>1, <3>1 DEF OwnershipInserted, InsertEntry, TypeOK, MokaTypeOK, k
  <2>6. stage[t] = "ret" /\ \E o : Resolve(t, j, o)
    BY <1>8, <2>2, <2>3, <2>4, <2>5 DEF CallFetchBlob, FetchBlob, BlobReturned, Return
  <2>7. j = k
    BY <1>2, <2>6
  <2>. QED BY <2>1, <2>6, <2>7, Keys
<1>9. ~Drop(t) /\ ~RejectMalformed(t) /\ ~MetadataExtracted(t) /\ ~\E r \in Requests : Arrive(t, r)
  BY <1>3 DEF Drop, DropFuture, RejectMalformed, MetadataExtracted, Arrive, mokaVars
<1>10. ~PolicyDecided(t) /\ ~BlobFetched(t) /\ ~OwnershipVerified(t)
  BY <1>3 DEF PolicyDecided, BlobFetched, OwnershipVerified, Returned, Consume
<1>. QED BY <1>6, <1>7, <1>8, <1>9, <1>10 DEF TaskStep, Handle

\* A load that is about to store bytes has marked its pair.
LEMMA MarkedFirst ==
    ASSUME IInv, NEW t \in Tasks, TaskStep(t), stage'[t] = "ret"
    PROVE  /\ req'[t] = req[t]
           /\ \/ stage[t] = "ret"
              \/ OwnershipInserted(t, req[t].did, req[t].cid) /\ req[t] \in Requests
<1>1. TypeOK /\ TaskInv(t)
  BY DEF IInv
<1>2. CASE CallPolicyClient(t)
  BY <1>2 DEF CallPolicyClient, handlerVars, blobVars
<1>3. ASSUME NEW k, Fetch(t, k) \/ ResolveHost(t, req[t].did, k) PROVE stage[t] = "ret"
  BY <1>1, <1>3 DEF Fetch, ResolveHost, Return, blobVars, TypeOK, HandlersTypeOK
<1>4. CASE CallFetchOwnership(t)
  BY <1>1, <1>3, <1>4 DEF CallFetchOwnership, FetchBlobOwnership, OwnershipQueried, OwnershipReceived,
                          Return, handlerVars, blobVars, TypeOK, HandlersTypeOK
<1>5. CASE CallFetchBlob(t)
  <2>1. pc[t] = "data" /\ req' = req /\ req[t] \in Requests
    BY <1>1, <1>5 DEF CallFetchBlob, handlerVars, TaskInv, HandlerInv
  <2>. QED BY <1>1, <1>3, <1>5, <2>1 DEF CallFetchBlob, FetchBlob, BlobQueried, BlobReceived,
              BlobReturned, Return, blobVars, TypeOK, HandlersTypeOK
<1>6. CASE \E r \in Requests : Arrive(t, r)
  <2>1. pc[t] = "idle" /\ stage' = stage
    BY <1>6 DEF Arrive, blobVars
  <2>. QED BY <1>1, <2>1 DEF TaskInv, StageInv
<1>7. CASE Drop(t)
  BY <1>1, <1>7 DEF Drop, TypeOK, HandlersTypeOK
<1>8. CASE \/ RejectMalformed(t) \/ PolicyDecided(t) \/ BlobFetched(t) \/ OwnershipVerified(t)
           \/ MetadataExtracted(t)
  BY <1>8 DEF RejectMalformed, PolicyDecided, BlobFetched, OwnershipVerified, MetadataExtracted,
              blobVars
<1>. QED BY <1>2, <1>4, <1>5, <1>6, <1>7, <1>8 DEF TaskStep, Handle

\* While nothing is removed, every step keeps cached bytes owned.
LEMMA NextKeepsOwners ==
    ASSUME IInv, OwnerInv, [Next]_vars, [NothingRemoved]_vars
    PROVE  OwnerInv'
<1>1. ASSUME NEW c \in Cids, Marked(c) PROVE Marked(c)'
  <2>1. NothingRemoved
    BY DEF vars, mokaVars, NothingRemoved
  <2>. QED BY <1>1, <2>1, Keys DEF Marked, NothingRemoved
<1>2. ASSUME NEW t \in Tasks, stage[t] = "ret" PROVE req[t].cid \in Cids /\ Marked(req[t].cid)
  BY <1>2, RequestKeys DEF OwnerInv, IInv, TaskInv, StageInv, HandlerInv
<1>3. ASSUME NEW c \in Cids, entries'[DataKey(c)] # None PROVE Marked(c)'
  <2>1. CASE entries[DataKey(c)] # None
    BY <1>1, <2>1 DEF OwnerInv
  <2>2. CASE entries[DataKey(c)] = None
    <3>1. PICK t \in Tasks : TaskStep(t)
      BY <1>3, <2>2, StepKinds, OtherStepFrame, Keys
    <3>2. stage[t] = "ret" /\ req[t].cid = c
      BY <1>3, <2>2, <3>1, BytesStored
    <3>. QED BY <1>1, <1>2, <3>2
  <2>. QED BY <2>1, <2>2
<1>4. ASSUME NEW u \in Tasks, stage'[u] = "ret" PROVE Marked(req[u].cid)' /\ req'[u] = req[u]
  <2>1. CASE OtherStep
    BY <1>1, <1>2, <1>4, <2>1, OtherStepFrame DEF handlerVars
  <2>2. ASSUME NEW t \in Tasks \ {u}, TaskStep(t) PROVE Marked(req[u].cid)' /\ req'[u] = req[u]
    <3>1. LocalsKept(u)
      BY <2>2, StepFrame DEF IInv
    <3>. QED BY <1>1, <1>2, <1>4, <3>1 DEF LocalsKept
  <2>3. CASE TaskStep(u)
    <3>1. CASE stage[u] = "ret"
      BY <1>1, <1>2, <1>4, <2>3, <3>1, MarkedFirst
    <3>2. CASE OwnershipInserted(u, req[u].did, req[u].cid) /\ req[u] \in Requests
      <4>. DEFINE k == OwnershipKey(req[u].did, req[u].cid)
      <4>1. req[u].did \in Dids /\ k \in CacheKeys
        BY <3>2, RequestKeys
      <4>2. entries' = [entries EXCEPT ![k] = "owned"]
        BY <3>2 DEF OwnershipInserted, InsertEntry
      <4>3. entries'[k] # None
        <5>. HIDE DEF k
        <5>. QED BY <4>1, <4>2, NoneIsNothing DEF IInv, TypeOK, MokaTypeOK
      <4>4. req'[u] = req[u]
        BY <1>4, <2>3, MarkedFirst
      <4>. QED BY <4>1, <4>3, <4>4 DEF Marked
    <3>. QED BY <1>4, <2>3, <3>1, <3>2, MarkedFirst
  <2>. QED BY <2>1, <2>2, <2>3, StepKinds
<1>. QED BY <1>3, <1>4 DEF OwnerInv, Marked

\* While nothing expires or is purged, cached bytes have a known owner.
THEOREM CachedBytesStayOwned == Spec /\ [][NothingRemoved]_vars => []CachedBytesHaveOwner
<1>1. Init => OwnerInv
  BY NoneAssumption, Keys DEF Init, MokaInit, BlobInit, OwnerInv
<1>2. IInv /\ OwnerInv /\ [Next]_vars /\ [NothingRemoved]_vars => OwnerInv'
  BY NextKeepsOwners
<1>3. OwnerInv => CachedBytesHaveOwner
  BY DEF OwnerInv, Marked, CachedBytesHaveOwner
<1>. QED BY <1>1, <1>2, <1>3, Invariance, PTL DEF Spec

\* A task that stores something removes nothing.
LEMMA TasksRemoveNothing ==
    ASSUME IInv, None \notin Values, NEW t \in Tasks, TaskStep(t)
    PROVE  NothingRemoved
<1>1. MokaTypeOK /\ Shape(t)
  BY TaskStepShape DEF IInv, TypeOK
<1>2. ASSUME NEW k \in CacheKeys, NEW o \in Outcomes, Returns(t, k, o) PROVE NothingRemoved
  <2>1. o.tag = "ok" => o.val \in Values
    BY DEF Outcomes, Aborted, Ok, Err
  <2>. QED BY <1>1, <1>2, <2>1 DEF Returns, Resolve, NothingRemoved, MokaTypeOK
<1>3. OwnershipInserted(t, req[t].did, req[t].cid) => NothingRemoved
  <2>. DEFINE k == OwnershipKey(req[t].did, req[t].cid)
  <2>. HIDE DEF k
  <2>. QED BY <1>1, NoneIsNothing DEF OwnershipInserted, InsertEntry, NothingRemoved, MokaTypeOK, k
<1>4. LookUp(t, AwaitedKey(t)) \/ DropFuture(t) \/ KeepsToItself(t) => entries' = entries
  BY DEF LookUp, Hit, Park, Lead, DropFuture, KeepsToItself
<1>. QED BY <1>1, <1>2, <1>3, <1>4 DEF Shape, NothingRemoved

\* So nothing is removed where nothing expires and nobody purges.
THEOREM BytesOwnedWithoutPurges ==
    ASSUME ~Expiry, Admins = {}, None \notin Values
    PROVE  Spec => []CachedBytesHaveOwner
<1>1. IInv /\ [Next]_vars => [NothingRemoved]_vars
  <2>. SUFFICES ASSUME IInv, [Next]_vars PROVE NothingRemoved
    OBVIOUS
  <2>1. CASE OtherStep
    <3>1. UNCHANGED entries
      BY <2>1 DEF OtherStep, EntryExpires, World, vars, mokaVars
    <3>. QED BY <3>1 DEF NothingRemoved
  <2>. QED BY <2>1, StepKinds, TasksRemoveNothing
<1>. QED BY <1>1, Invariance, CachedBytesStayOwned, PTL DEF Spec
=============================================================================
