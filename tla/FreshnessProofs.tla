--------------------------- MODULE FreshnessProofs ---------------------------
(***************************************************************************)
(* Proofs about the server in time, for any lifetimes, timeouts and number *)
(* of requests: what is withdrawn upstream is served no longer than the    *)
(* sums the two properties of Freshness allow.                             *)
(***************************************************************************)
EXTENDS Freshness, PurgeProofs

-----------------------------------------------------------------------------
(* The inductive invariant, beside IInv.  It says of every place a withdrawn *)
(* fact can still show since when that place can have been told of it.     *)

Permission(d, c) == <<"allowed", <<d, c>>>>
Hosting(d, c) == <<"hosted", <<d, c>>>>

\* The instant n is no later than s after the fact f went.
By(n, f, s) == gone[f] # None => n <= gone[f] + s

\* How long after a withdrawal an entry, and a request that acts on it, may have begun.
PolicySeen == PolicyTimeout + LastSeen(PolicyTtl)
IdentitySeen == IdentityTimeout + LastSeen(IdentityTtl)
OwnershipTold == IdentitySeen + ProcessingTimeout
OwnershipSeen == OwnershipTold + LastSeen(OwnershipTtl)

TimesOK ==
    /\ now \in Nat
    /\ stored \in [CacheKeys -> Nat]
    /\ asked \in [Tasks -> Nat]
    /\ arrived \in [Tasks -> Nat]
    /\ gone \in [Facts -> Nat \cup {None}]

\* Nothing is late: every entry is within its time to live, every exchange within
\* its timeout, every request within its own.
PunctualInv ==
    /\ \A k \in CacheKeys : stored[k] <= now
    /\ \A k \in PolicyKeys \cup IdentityKeys \cup OwnershipKeys :
           entries[k] # None => now <= stored[k] + LastSeen(Ttl(k))
    /\ \A t \in Tasks :
           /\ asked[t] <= now /\ arrived[t] <= now
           /\ \A k \in PolicyKeys : flight[k] = t => now <= asked[t] + PolicyTimeout
           /\ \A k \in IdentityKeys : flight[k] = t => now <= asked[t] + IdentityTimeout
           /\ Processing(t) => now <= arrived[t] + ProcessingTimeout

\* t was told that its pair is allowed.
Cleared(t) ==
    \/ pc[t] = "policy" /\ Succeeded(t) /\ inbox[t].val = "Allowed"
    \/ pc[t] \in {"data", "owner", "metadata"}

PermissionInv(d, c) ==
    LET f == Permission(d, c)
        k == PolicyKey(d, c)
    IN  /\ \A t \in Tasks : flight[k] = t /\ wire[t] = "allowed" => By(asked[t], f, 0)
        /\ entries[k] = "Allowed" => By(stored[k], f, PolicyTimeout)
        /\ \A t \in Tasks : Cleared(t) /\ PairOf(t) = <<d, c>> => By(arrived[t], f, PolicySeen)

\* t goes, or went, to a host that has the blob, though it may not be the actor's any more.
Reaching(t, d, c) ==
    \/ stage[t] = "pds" /\ Succeeded(t) /\ <<inbox[t].val, d, c>> \in holds
    \/ stage[t] = "get" /\ <<host[t], d, c>> \in holds
    \/ stage[t] = "get" /\ wire[t] \notin Failures \cup {None}
    \/ stage[t] \in {"own", "ret"}

\* t was told that the actor has the blob.
Vouched(t) == (pc[t] = "owner" /\ stage[t] = "none" /\ Succeeded(t)) \/ pc[t] = "metadata"

HostingInv(d, c) ==
    LET f == Hosting(d, c)
        i == IdentityKey(d)
        k == OwnershipKey(d, c)
    IN  /\ \A t \in Tasks : flight[i] = t /\ <<wire[t], d, c>> \in holds => By(asked[t], f, 0)
        /\ <<entries[i], d, c>> \in holds => By(stored[i], f, IdentityTimeout)
        /\ \A t \in Tasks : Reaching(t, d, c) /\ PairOf(t) = <<d, c>> => By(arrived[t], f, IdentitySeen)
        /\ entries[k] # None => By(stored[k], f, OwnershipTold)
        /\ \A t \in Tasks : Vouched(t) /\ PairOf(t) = <<d, c>> => By(arrived[t], f, OwnershipSeen)

TimeInv ==
    /\ TimesOK /\ PunctualInv
    /\ \A d \in Dids, c \in Cids :
         /\ Binding => PermissionInv(d, c)
         /\ HostingInv(d, c)

-----------------------------------------------------------------------------
(* What a step of the server does that matters in time: who is told what,  *)
(* what is stored and by whom, which answers arrive.                       *)

\* u does not step, though a load it waits for may end.
Still(u) ==
    /\ pc'[u] = pc[u] /\ req'[u] = req[u] /\ resp'[u] = resp[u]
    /\ stage'[u] = stage[u] /\ wire'[u] = wire[u] /\ host'[u] = host[u]
    /\ \A k \in CacheKeys : flight'[k] = u <=> flight[k] = u

\* What u is told, or what a step stores under k, comes from the entry that is
\* there or from what t was answered.
Sourced(t, k, v) == flight[k] = t /\ k = AwaitedKey(t) /\ Bears(t, k, v)

\* A task keeps its own host.
LEMMA HostFrame ==
    ASSUME TypeOK, NEW t \in Tasks, TaskStep(t), NEW u \in Tasks \ {t}
    PROVE  host'[u] = host[u]
<1>. USE DEF TypeOK, HandlersTypeOK, blobVars
<1>1. ASSUME NEW k, Fetch(t, k) \/ ResolveHost(t, req[t].did, k) PROVE host'[u] = host[u]
  BY <1>1 DEF Fetch, ResolveHost, Return
<1>2. CASE CallFetchBlob(t)
  BY <1>1, <1>2 DEF CallFetchBlob, FetchBlob, BlobQueried, BlobReceived, OwnershipInserted,
                    BlobReturned, Return
<1>3. CASE CallFetchOwnership(t)
  BY <1>1, <1>3 DEF CallFetchOwnership, FetchBlobOwnership, OwnershipQueried, OwnershipReceived, Return
<1>4. CASE \/ CallPolicyClient(t) \/ PolicyDecided(t) \/ BlobFetched(t) \/ OwnershipVerified(t)
           \/ MetadataExtracted(t) \/ RejectMalformed(t) \/ \E r \in Requests : Arrive(t, r)
  BY <1>4 DEF CallPolicyClient, PolicyDecided, BlobFetched, OwnershipVerified, MetadataExtracted,
              RejectMalformed, Arrive
<1>5. CASE Drop(t)
  BY <1>5 DEF Drop
<1>. QED BY <1>2, <1>3, <1>4, <1>5 DEF TaskStep, Handle

\* Steps that are no task's leave the tasks alone, and holdings only shrink.
LEMMA OthersStandStill ==
    ASSUME IInv, OtherStep
    PROVE  (\A u \in Tasks : Still(u) /\ inbox'[u] = inbox[u]) /\ holds' \subseteq holds
<1>1. UNCHANGED <<flight, inbox, wire, stage, handlerVars>>
  BY OtherStepFrame
<1>2. host' = host
  BY DEF OtherStep, PurgeArrives, StartPurge, PurgeFails, RejectPurge, DropPurge, RunPurgeStep,
         PurgeStep, EntryExpires, World, blobVars, vars
<1>3. holds' \subseteq holds
  <2>1. World => holds' \subseteq holds
    BY DEF World, WorldStep, Takedown, Migrate, Delete
  <2>. QED BY <2>1 DEF OtherStep, PurgeArrives, StartPurge, PurgeFails, RejectPurge, DropPurge,
           RunPurgeStep, PurgeStep, EntryExpires, upstreamVars, worldVars, vars
<1>. QED BY <1>1, <1>2, <1>3 DEF Still, handlerVars

\* Every task stands still or steps, and while it steps the world does not change.
LEMMA StillOrSteps ==
    ASSUME IInv, [Next]_vars, NEW u \in Tasks
    PROVE  /\ Still(u) \/ (TaskStep(u) /\ UNCHANGED worldVars)
           /\ holds' \subseteq holds
<1>1. ASSUME NEW t \in Tasks, TaskStep(t)
      PROVE  UNCHANGED worldVars /\ (t # u => Still(u))
  <2>1. MokaTypeOK /\ Shape(t)
    BY <1>1, TaskStepShape DEF IInv, TypeOK
  <2>. QED BY <1>1, <2>1, StepFrame, HostFrame, LeadsStay DEF IInv, Still, LocalsKept
<1>. QED BY <1>1, OthersStandStill, StepKinds DEF worldVars

\* A success that a task is told is the entry, or what the load's leader was answered.
LEMMA Told ==
    ASSUME IInv, [Next]_vars, NEW u \in Tasks,
           inbox'[u] # inbox[u], inbox'[u] # None, inbox'[u].tag = "ok"
    PROVE  /\ AwaitedKey(u) \in CacheKeys /\ req[u] \in Requests
           /\ \/ entries[AwaitedKey(u)] # None /\ inbox'[u].val = entries[AwaitedKey(u)]
              \/ \E t \in Tasks : TaskStep(t) /\ Sourced(t, AwaitedKey(u), inbox'[u].val)
<1>. DEFINE k == AwaitedKey(u)
<1>1. PICK t \in Tasks : TaskStep(t)
  BY OthersStandStill, StepKinds
<1>2. MokaTypeOK /\ Shape(t) /\ TaskInv(t) /\ TaskInv(u)
  BY <1>1, TaskStepShape DEF IInv, TypeOK
<1>3. CASE LookUp(t, AwaitedKey(t)) /\ req[t] \in Requests
  <2>1. CASE Hit(t, AwaitedKey(t))
    <3>1. u = t /\ inbox'[u] = Ok(entries[k]) /\ entries[k] # None
      BY <1>2, <2>1 DEF Hit, MokaTypeOK
    <3>2. inbox'[u].val = entries[k]
      BY <3>1 DEF Ok
    <3>. QED BY <1>3, <3>1, <3>2, TaskKeys
  <2>2. CASE Park(t, AwaitedKey(t)) \/ Lead(t, AwaitedKey(t))
    BY <1>2, <2>2 DEF Park, Lead, MokaTypeOK
  <2>. QED BY <1>3, <2>1, <2>2 DEF LookUp
<1>4. ASSUME NEW j \in CacheKeys, NEW o \in Outcomes, Returns(t, j, o)
      PROVE  k = j /\ req[u] \in Requests /\ Sourced(t, k, inbox'[u].val)
  <2>1. inbox'[u] = o /\ (u = t \/ parked[u] = j) /\ flight[j] = t
    BY <1>4 DEF Returns, Resolve
  <2>2. j = AwaitedKey(t) /\ Bears(t, j, inbox'[u].val)
    BY <1>4, <2>1 DEF Returns
  <2>3. j = k /\ pc[u] \in Working
    BY <1>2, <2>1, <2>2, NoneIsNothing DEF TaskInv, WaitInv, LeadInv
  <2>. QED BY <1>2, <2>1, <2>2, <2>3 DEF TaskInv, HandlerInv, Working, Sourced
<1>5. ~OwnershipInserted(t, req[t].did, req[t].cid) /\ ~DropFuture(t) /\ ~KeepsToItself(t)
  BY DEF OwnershipInserted, InsertEntry, DropFuture, Aborted, KeepsToItself
<1>. QED BY <1>1, <1>2, <1>3, <1>4, <1>5 DEF Shape

\* What a step writes under a key other than of bytes.
LEMMA WrittenBy ==
    ASSUME IInv, NEW t \in Tasks, TaskStep(t), NEW k \in CacheKeys, k \notin DataKeys, Written(k)
    PROVE  \/ Sourced(t, k, entries'[k])
           \/ stage[t] = "own" /\ k = OwnershipKey(req[t].did, req[t].cid)
<1>1. TypeOK /\ MokaTypeOK /\ Shape(t)
  BY TaskStepShape DEF IInv, TypeOK
<1>2. ASSUME NEW u \in Tasks, stage[u] = "own", stage'[u] = "ret",
             k = OwnershipKey(req[u].did, req[u].cid)
      PROVE  stage[t] = "own" /\ k = OwnershipKey(req[t].did, req[t].cid)
  BY <1>1, <1>2, StepFrame DEF LocalsKept
<1>3. ASSUME flight[k] # None, flight'[k] = None, inbox'[flight[k]] # None,
             inbox'[flight[k]].tag = "ok"
      PROVE  Sourced(t, k, entries'[k])
  <2>1. ASSUME NEW j \in CacheKeys, NEW o \in Outcomes, Returns(t, j, o)
        PROVE  Sourced(t, k, entries'[k])
    <3>1. j = k /\ flight[k] = t /\ inbox'[t] = o
      BY <1>1, <1>3, <2>1 DEF Returns, Resolve, MokaTypeOK
    <3>2. o.tag = "ok" /\ entries'[k] = o.val
      BY <1>1, <1>3, <2>1, <3>1 DEF Returns, Resolve, MokaTypeOK
    <3>. QED BY <2>1, <3>1, <3>2 DEF Returns, Sourced
  <2>2. ~DropFuture(t)
    BY <1>1, <1>3, NoneAssumption DEF DropFuture, MokaTypeOK
  <2>3. ~(LookUp(t, AwaitedKey(t)) /\ req[t] \in Requests)
    BY <1>1, <1>3, TaskKeys, NoneAssumption DEF LookUp, Hit, Park, Lead, MokaTypeOK
  <2>4. ~OwnershipInserted(t, req[t].did, req[t].cid) /\ ~KeepsToItself(t)
    BY <1>3 DEF OwnershipInserted, InsertEntry, KeepsToItself
  <2>. QED BY <1>1, <2>1, <2>2, <2>3, <2>4 DEF Shape
<1>. QED BY <1>2, <1>3 DEF Written

\* An entry that changes is written.
LEMMA ChangedIsWritten ==
    ASSUME IInv, [Next]_vars, NEW k \in CacheKeys, k \notin DataKeys,
           entries'[k] # None, entries'[k] # entries[k]
    PROVE  Written(k)
<1>1. PICK t \in Tasks : TaskStep(t)
  BY OtherStepFrame, StepKinds
<1>2. TypeOK /\ MokaTypeOK /\ HandlersTypeOK /\ Shape(t) /\ MokaTypeOK'
  BY <1>1, TaskStepShape, NextKeepsInv DEF IInv, TypeOK
<1>3. ASSUME NEW j \in CacheKeys, NEW o \in Outcomes, Returns(t, j, o) PROVE Written(k)
  <2>1. flight[k] = t /\ flight'[k] = None /\ inbox'[t] = o /\ o.tag = "ok" /\ entries'[k] = o.val
    BY <1>2, <1>3 DEF Returns, Resolve, MokaTypeOK
  <2>2. o # None
    <3>1. PICK v \in Values : o = Ok(v)
      BY <2>1 DEF Outcomes, Aborted, Err
    <3>. QED BY <3>1, NoneIsNoAnswer DEF Values, Decisions
  <2>. QED BY <2>1, <2>2, NoneAssumption DEF Written
<1>4. CASE OwnershipInserted(t, req[t].did, req[t].cid)
  <2>. DEFINE j == OwnershipKey(req[t].did, req[t].cid)
  <2>1. stage[t] = "own" /\ stage'[t] = "ret" /\ entries' = [entries EXCEPT ![j] = "owned"]
    BY <1>2, <1>4 DEF OwnershipInserted, InsertEntry, HandlersTypeOK
  <2>2. k = j
    <3>. HIDE DEF j
    <3>. QED BY <1>2, <2>1 DEF MokaTypeOK
  <2>. QED BY <2>1, <2>2 DEF Written
<1>5. LookUp(t, AwaitedKey(t)) \/ DropFuture(t) \/ KeepsToItself(t) => entries' = entries
  BY DEF LookUp, Hit, Park, Lead, DropFuture, KeepsToItself
<1>. QED BY <1>2, <1>3, <1>4, <1>5 DEF Shape

\* An answer comes from an upstream as it is now, and nothing else happens to the task.
Queried(t) ==
    \/ pc[t] = "policy" /\ PolicyQueried(t, req[t].did, req[t].cid)
    \/ stage[t] = "pds" /\ DirectoryQueried(t, req[t].did)
    \/ stage[t] = "get" /\ BlobQueried(t, req[t].did, req[t].cid)
    \/ stage[t] = "get" /\ OwnershipQueried(t, req[t].did, req[t].cid)

\* Only an upstream that is asked puts an answer on the wire.
LEMMA OnlyUpstreamsAnswer ==
    ASSUME IInv, NEW t \in Tasks, TaskStep(t), wire'[t] # None
    PROVE  Queried(t) /\ UNCHANGED <<blobVars, handlerVars>>
<1>0. TypeOK /\ UpstreamsTypeOK /\ TaskInv(t)
  BY DEF IInv, TypeOK
<1>1. ~Receive(t)
  BY <1>0 DEF Receive, UpstreamsTypeOK
<1>2. inbox[t] # None => wire[t] = None
  BY <1>0 DEF TaskInv, InboxInv, WireInv
<1>3. wire[t] = None \/ wire' # wire \/ stage[t] \in {"none", "pds", "get"}
  BY <1>0 DEF TaskInv, WireInv
<1>4. ASSUME LookUp(t, AwaitedKey(t)), req[t] \in Requests PROVE wire' # wire
  BY <1>4, CallerAfterLookUp
<1>5. CASE CallPolicyClient(t)
  <2>1. pc[t] = "policy" /\ req[t] \in Requests /\ stage[t] = "none"
    BY <1>0, <1>5 DEF CallPolicyClient, TaskInv, HandlerInv, StageInv
  <2>2. AwaitedKey(t) = PolicyKey(req[t].did, req[t].cid)
    BY <2>1 DEF AwaitedKey, MainKey
  <2>. QED BY <1>1, <1>4, <1>5, <2>1, <2>2 DEF CallPolicyClient, PolicyClientStep, GetPolicy,
           PolicyReceived, Queried, upstreamVars
<1>6. ASSUME Fetch(t, MainKey(t)), pc[t] \in {"data", "owner"} PROVE FALSE
  <2>1. req[t] \in Requests /\ LookUp(t, MainKey(t)) /\ AwaitedKey(t) = MainKey(t) /\ wire' = wire
    BY <1>0, <1>6 DEF Fetch, LookUp, AwaitedKey, TaskInv, HandlerInv, upstreamVars
  <2>. QED BY <1>4, <2>1
<1>7. ASSUME ResolveHost(t, req[t].did, MainKey(t)), pc[t] \in {"data", "owner"}
      PROVE  stage[t] = "pds" /\ DirectoryQueried(t, req[t].did) /\ UNCHANGED blobVars
  <2>1. req[t] \in Requests /\ stage[t] = "pds" /\ AwaitedKey(t) = IdentityKey(req[t].did)
    BY <1>0, <1>7 DEF ResolveHost, AwaitedKey, TaskInv, HandlerInv
  <2>. QED BY <1>1, <1>2, <1>4, <1>7, <2>1 DEF ResolveHost, IdentityStep, PdsForDid,
           DirectoryReceived, Succeeded, Failed, upstreamVars
<1>8. CASE CallFetchBlob(t)
  <2>1. pc[t] = "data" /\ UNCHANGED handlerVars /\ MainKey(t) = DataKey(req[t].cid)
    BY <1>8 DEF CallFetchBlob, MainKey
  <2>2. stage[t] \in {"own", "ret"} => wire[t] = None
    BY <1>0 DEF TaskInv, WireInv
  <2>. QED BY <1>1, <1>6, <1>7, <1>8, <2>1, <2>2 DEF CallFetchBlob, FetchBlob, BlobQueried,
           BlobReceived, OwnershipInserted, BlobReturned, Queried, upstreamVars
<1>9. CASE CallFetchOwnership(t)
  <2>1. /\ pc[t] = "owner" /\ UNCHANGED handlerVars
        /\ MainKey(t) = OwnershipKey(req[t].did, req[t].cid)
    BY <1>9 DEF CallFetchOwnership, MainKey
  <2>. QED BY <1>1, <1>6, <1>7, <1>9, <2>1 DEF CallFetchOwnership, FetchBlobOwnership,
           OwnershipQueried, OwnershipReceived, Queried
<1>10. CASE PolicyDecided(t) \/ BlobFetched(t) \/ OwnershipVerified(t)
  <2>1. PICK l \in Working : Returned(t, l) /\ wire' = wire
    BY <1>10 DEF PolicyDecided, BlobFetched, OwnershipVerified, Working, upstreamVars
  <2>. QED BY <2>1, AfterCall DEF Detached
<1>11. CASE RejectMalformed(t) \/ MetadataExtracted(t) \/ \E r \in Requests : Arrive(t, r)
  <2>1. pc[t] \notin Working /\ wire' = wire
    BY <1>11 DEF RejectMalformed, MetadataExtracted, Arrive, Working, upstreamVars
  <2>. QED BY <2>1, OutsideCalls DEF Detached
<1>12. CASE Drop(t)
  BY <1>0, <1>12 DEF Drop, UpstreamsTypeOK
<1>. QED BY <1>5, <1>8, <1>9, <1>10, <1>11, <1>12 DEF TaskStep, Handle

\* Who leads a query or a resolution is at it, and at nothing else.
LEMMA OneExchange ==
    ASSUME IInv, NEW t \in Tasks, NEW k \in PolicyKeys \cup IdentityKeys, flight[k] = t
    PROVE  /\ req[t] \in Requests /\ k = AwaitedKey(t)
           /\ k \in PolicyKeys => pc[t] = "policy" /\ stage[t] = "none"
           /\ k \in IdentityKeys => pc[t] \in {"data", "owner"} /\ stage[t] = "pds"
<1>1. TaskInv(t) /\ k \in CacheKeys
  BY DEF IInv, CacheKeys
<1>2. pc[t] \in Working /\ req[t] \in Requests
  BY <1>1 DEF TaskInv, LeadInv, HandlerInv, Working
<1>3. CASE k = MainKey(t)
  <2>1. pc[t] = "policy" /\ k \in PolicyKeys /\ k \notin IdentityKeys
    BY <1>2, <1>3, RequestKeys, Keys DEF MainKey, Working
  <2>2. stage[t] = "none"
    BY <1>1, <2>1 DEF TaskInv, StageInv
  <2>. QED BY <1>2, <1>3, <2>1, <2>2 DEF AwaitedKey
<1>4. CASE stage[t] = "pds" /\ k = IdentityKey(req[t].did)
  <2>1. pc[t] \in {"data", "owner"} /\ k \notin PolicyKeys
    BY <1>1, <1>2, <1>4, RequestKeys, Keys DEF TaskInv, StageInv
  <2>. QED BY <1>2, <1>4, <2>1 DEF AwaitedKey
<1>. QED BY <1>1, <1>3, <1>4 DEF TaskInv, LeadInv

\* Who comes to lead a query or a resolution begins an exchange with it.
LEMMA ExchangeBegins ==
    ASSUME IInv, [Next]_vars, NEW u \in Tasks, NEW k \in PolicyKeys \cup IdentityKeys,
           flight'[k] = u, flight[k] # u
    PROVE  ~Exchanging(u) /\ wire'[u] = None
<1>1. k \in CacheKeys /\ k \notin OwnershipKeys \cup DataKeys
  BY KeyParts DEF CacheKeys
<1>2. TaskStep(u) /\ TaskInv(u) /\ TypeOK /\ MokaTypeOK /\ Shape(u)
  BY <1>1, StillOrSteps, TaskStepShape DEF Still, IInv, TypeOK
<1>3. ~\E j \in CacheKeys, o \in Outcomes : Returns(u, j, o)
  BY <1>1, <1>2, NoneAssumption DEF Returns, Resolve, MokaTypeOK
<1>4. ~DropFuture(u)
  BY <1>1, <1>2, NoneAssumption DEF DropFuture, MokaTypeOK
<1>5. LookUp(u, AwaitedKey(u)) /\ req[u] \in Requests
  BY <1>2, <1>3, <1>4 DEF Shape, OwnershipInserted, InsertEntry, KeepsToItself
<1>6. AwaitedKey(u) = k
  BY <1>1, <1>2, <1>5, TaskKeys DEF LookUp, Hit, Park, Lead, MokaTypeOK
<1>7. \A j \in PolicyKeys \cup IdentityKeys : flight[j] # u
  BY <1>6, OneExchange
<1>8. stage[u] # "get"
  <2>1. SUFFICES ASSUME stage[u] = "get" PROVE FALSE
    OBVIOUS
  <2>2. pc[u] \in {"data", "owner"} /\ k = MainKey(u)
    BY <1>2, <1>6, <2>1 DEF TaskInv, StageInv, AwaitedKey
  <2>. QED BY <1>1, <1>5, <2>2, RequestKeys, Keys DEF MainKey
<1>9. wire'[u] = None
  <2>1. wire[u] = None
    BY <1>5, CallerAfterLookUp
  <2>2. inbox'[u] = None /\ flight' # flight
    BY <1>1, <1>2, <1>5, <1>6 DEF LookUp, Hit, Park, Lead, MokaTypeOK
  <2>3. ~PolicyQueried(u, req[u].did, req[u].cid) /\ ~DirectoryQueried(u, req[u].did)
        /\ ~BlobQueried(u, req[u].did, req[u].cid) /\ ~OwnershipQueried(u, req[u].did, req[u].cid)
    BY <2>2 DEF PolicyQueried, DirectoryQueried, BlobQueried, OwnershipQueried, mokaVars
  <2>. QED BY <1>2, <2>1, <2>3, OnlyUpstreamsAnswer DEF Queried
<1>. QED BY <1>7, <1>8, <1>9 DEF Exchanging

\* It says what is so at that moment.
LEMMA AnswersAreCurrent ==
    ASSUME IInv, NEW t \in Tasks, TaskStep(t), wire'[t] # None
    PROVE  /\ UNCHANGED <<mokaVars, handlerVars>> /\ req[t] \in Requests
           /\ stage'[t] = stage[t] /\ host'[t] = host[t]
           /\ pc[t] = "policy" /\ wire'[t] = "allowed" => verdict[req[t].did, req[t].cid] = "allowed"
           /\ stage[t] = "pds" => wire'[t] \in {pds[req[t].did], "lost"}
           /\ stage[t] = "get" => \/ wire'[t] \in Failures
                                  \/ <<host[t], req[t].did, req[t].cid>> \in holds
<1>. DEFINE d == req[t].did
            c == req[t].cid
<1>1. /\ UpstreamsTypeOK /\ HandlersTypeOK /\ TaskInv(t)
      /\ Queried(t) /\ UNCHANGED <<blobVars, handlerVars>>
  BY OnlyUpstreamsAnswer DEF IInv, TypeOK
<1>2. /\ stage[t] # "none" => pc[t] \in {"data", "owner"}
      /\ pc[t] \in Working => req[t] \in Requests
  BY <1>1 DEF TaskInv, StageInv, HandlerInv, Working
<1>3. UNCHANGED mokaVars /\ pc[t] \in Working
  BY <1>1, <1>2 DEF Queried, PolicyQueried, DirectoryQueried, BlobQueried, OwnershipQueried, Working
<1>4. stage'[t] = stage[t] /\ host'[t] = host[t]
  BY <1>1 DEF blobVars
<1>5. ASSUME pc[t] = "policy", wire'[t] = "allowed" PROVE verdict[d, c] = "allowed"
  <2>1. PolicyServiceAnswers(t, d, c)
    BY <1>1, <1>2, <1>5 DEF Queried, PolicyQueried
  <2>2. \/ wire' = [wire EXCEPT ![t] = verdict[d, c]]
        \/ \E a \in {"refused", "garbled", "lost"} : wire' = [wire EXCEPT ![t] = a]
    BY <2>1 DEF PolicyServiceAnswers, Fail, Answer
  <2>. QED BY <1>1, <1>5, <2>2 DEF UpstreamsTypeOK
<1>6. ASSUME stage[t] = "pds" PROVE wire'[t] \in {pds[d], "lost"}
  <2>1. DirectoryAnswers(t, d)
    BY <1>1, <1>2, <1>6 DEF Queried, DirectoryQueried
  <2>2. \E a \in {pds[d], "lost"} : wire' = [wire EXCEPT ![t] = a]
    BY <2>1 DEF DirectoryAnswers, Fail, Answer
  <2>. QED BY <1>1, <2>2 DEF UpstreamsTypeOK
<1>7. ASSUME stage[t] = "get", <<host[t], d, c>> \notin holds PROVE wire'[t] \in Failures
  <2>1. \E claims, failures : failures \subseteq Failures /\ HostAnswers(t, host[t], d, c, claims, failures)
    <3>1. {"refused", "lost", "cut"} \subseteq Failures /\ {"refused", "lost"} \subseteq Failures
      BY DEF Failures
    <3>. QED BY <1>1, <1>2, <1>7, <3>1 DEF Queried, BlobQueried, BlobAnswers, OwnershipQueried,
                                           OwnershipAnswers
  <2>2. \E a \in Failures : wire' = [wire EXCEPT ![t] = a]
    BY <1>7, <2>1 DEF HostAnswers, Fail, Answer, Failures
  <2>. QED BY <1>1, <2>2 DEF UpstreamsTypeOK
<1>. QED BY <1>1, <1>2, <1>3, <1>4, <1>5, <1>6, <1>7

\* How the init future of a task goes on: to the host the identity names, and from
\* there only with an answer that is no failure.
LEMMA StagesMove ==
    ASSUME IInv, NEW t \in Tasks, TaskStep(t), stage'[t] # "none"
    PROVE  /\ req'[t] = req[t] /\ pc'[t] = pc[t]
           /\ stage'[t] = "pds" => stage[t] = "pds" \/ inbox'[t] = None
           /\ stage'[t] = "get" => \/ stage[t] = "get" /\ host'[t] = host[t]
                                   \/ stage[t] = "pds" /\ Succeeded(t) /\ host'[t] = inbox[t].val
           /\ stage'[t] \in {"own", "ret"} => \/ stage[t] \in {"own", "ret"}
                                              \/ stage[t] = "get" /\ wire[t] \notin Failures \cup {None}
<1>. DEFINE Goal == /\ stage'[t] = "pds" => stage[t] = "pds" \/ inbox'[t] = None
                    /\ stage'[t] = "get" => \/ stage[t] = "get" /\ host'[t] = host[t]
                                            \/ stage[t] = "pds" /\ Succeeded(t) /\ host'[t] = inbox[t].val
                    /\ stage'[t] \in {"own", "ret"} =>
                         \/ stage[t] \in {"own", "ret"}
                         \/ stage[t] = "get" /\ wire[t] \notin Failures \cup {None}
<1>0. HandlersTypeOK /\ MokaTypeOK /\ TaskInv(t)
  BY DEF IInv, TypeOK
<1>1. ASSUME NEW k, Fetch(t, k) \/ ResolveHost(t, req[t].did, k) PROVE Goal
  <2>1. CASE Fetch(t, k)
    BY <1>0, <2>1 DEF Fetch, Lead, blobVars, HandlersTypeOK, MokaTypeOK
  <2>2. CASE ResolveHost(t, req[t].did, k)
    BY <1>0, <2>2 DEF ResolveHost, Return, blobVars, HandlersTypeOK
  <2>. QED BY <1>1, <2>1, <2>2
<1>2. CASE CallFetchBlob(t)
  <2>1. pc[t] = "data" /\ UNCHANGED handlerVars
    BY <1>2 DEF CallFetchBlob
  <2>2. CASE BlobReceived(t, req[t].cid)
    <3>. DEFINE o == DownloadOutcome(req[t].cid, wire[t])
    <3>1. stage[t] = "get" /\ wire[t] # None
      BY <2>2 DEF BlobReceived, Receive
    <3>2. wire[t] \in {"notFound", "refused", "lost", "cut"} \/ wire[t] \in Bodies
      BY <1>0, <2>1, <3>1 DEF TaskInv, WireInv
    <3>3. o.tag = "ok" => wire[t] \notin Failures
      BY <3>2, DownloadOutcomes DEF Failures
    <3>4. \/ o.tag = "ok" /\ stage' = [stage EXCEPT ![t] = "own"]
          \/ stage' = [stage EXCEPT ![t] = "none"]
      BY <2>2 DEF BlobReceived, Return
    <3>. HIDE DEF o
    <3>. QED BY <1>0, <2>1, <3>1, <3>3, <3>4 DEF handlerVars, HandlersTypeOK
  <2>3. CASE OwnershipInserted(t, req[t].did, req[t].cid) \/ BlobReturned(t, req[t].cid)
    BY <1>0, <2>1, <2>3 DEF OwnershipInserted, BlobReturned, Return, handlerVars, HandlersTypeOK
  <2>4. CASE BlobQueried(t, req[t].did, req[t].cid)
    BY <2>1, <2>4 DEF BlobQueried, blobVars, handlerVars
  <2>. QED BY <1>1, <1>2, <2>1, <2>2, <2>3, <2>4 DEF CallFetchBlob, FetchBlob, handlerVars
<1>3. CASE CallFetchOwnership(t)
  <2>1. UNCHANGED handlerVars
    BY <1>3 DEF CallFetchOwnership
  <2>2. OwnershipReceived(t, req[t].did, req[t].cid) => stage'[t] = "none"
    BY <1>0 DEF OwnershipReceived, Return, HandlersTypeOK
  <2>3. OwnershipQueried(t, req[t].did, req[t].cid) => Goal
    BY DEF OwnershipQueried, blobVars
  <2>. QED BY <1>1, <1>3, <2>1, <2>2, <2>3 DEF CallFetchOwnership, FetchBlobOwnership, handlerVars
<1>4. ~(CallPolicyClient(t) \/ PolicyDecided(t) \/ BlobFetched(t) \/ OwnershipVerified(t))
  <2>1. pc[t] = "policy" => stage[t] = "none"
    BY <1>0 DEF TaskInv, StageInv
  <2>. QED BY <2>1 DEF CallPolicyClient, PolicyDecided, BlobFetched, OwnershipVerified, Returned, blobVars
<1>5. ~(RejectMalformed(t) \/ MetadataExtracted(t) \/ \E r \in Requests : Arrive(t, r))
  <2>1. pc[t] \notin Working => stage[t] = "none"
    BY OutsideCalls DEF Detached
  <2>. QED BY <2>1 DEF RejectMalformed, MetadataExtracted, Arrive, Working, blobVars
<1>6. ~Drop(t)
  BY <1>0 DEF Drop, HandlersTypeOK
<1>. QED BY <1>2, <1>3, <1>4, <1>5, <1>6 DEF TaskStep, Handle

\* How the handler of a task goes on: past the policy only when it allows, past the
\* ownership check only when it succeeds.
LEMMA HandlersMove ==
    ASSUME IInv, NEW t \in Tasks, TaskStep(t)
    PROVE  /\ pc[t] = "idle" => /\ stage'[t] = "none" /\ inbox'[t] = None
                                /\ Binding => pc'[t] \in {"policy", "done"}
                                /\ pc'[t] \in {"policy", "data", "done"}
           /\ pc[t] # "idle" => req'[t] = req[t] /\ pc'[t] # "idle"
           /\ pc[t] = "done" => pc'[t] = "done"
           /\ pc[t] # "idle" /\ pc'[t] = "policy" => pc[t] = "policy"
           /\ Binding /\ pc[t] = "policy" /\ pc'[t] \notin {"policy", "done"} =>
                Succeeded(t) /\ inbox[t].val = "Allowed"
           /\ pc'[t] = "owner" => pc[t] = "owner" \/ inbox'[t] = None
           /\ pc'[t] = "metadata" \/ (resp[t] = 0 /\ resp'[t] = 200) =>
                pc[t] = "metadata" \/ (pc[t] = "owner" /\ stage[t] = "none" /\ Succeeded(t))
<1>0. HandlersTypeOK /\ MokaTypeOK /\ TaskInv(t)
  BY DEF IInv, TypeOK
<1>1. CASE CallPolicyClient(t) \/ CallFetchBlob(t) \/ CallFetchOwnership(t)
  BY <1>1 DEF CallPolicyClient, CallFetchBlob, CallFetchOwnership, handlerVars
<1>2. CASE RejectMalformed(t) \/ \E r \in Requests : Arrive(t, r)
  <2>1. /\ pc[t] = "idle" /\ UNCHANGED <<stage, inbox>>
        /\ pc'[t] \in {"policy", "data", "done"} /\ (Binding => pc'[t] \in {"policy", "done"})
        /\ resp'[t] \in {resp[t], 422}
    BY <1>0, <1>2 DEF RejectMalformed, Arrive, Refuse, GoTo, HandlersTypeOK, Binding, mokaVars, blobVars
  <2>2. stage[t] = "none" /\ inbox[t] = None
    BY <2>1, OutsideCalls DEF Detached, Working
  <2>. QED BY <2>1, <2>2
<1>3. CASE Drop(t)
  BY <1>0, <1>3 DEF Drop, Refuse, GoTo, HandlersTypeOK
<1>4. CASE PolicyDecided(t)
  <2>1. /\ pc[t] = "policy" /\ req' = req
        /\ \/ pc'[t] = "data" /\ resp' = resp
              /\ (Binding => Succeeded(t) /\ inbox[t].val = "Allowed")
           \/ pc'[t] = "done" /\ resp'[t] \in {410, 500}
    BY <1>0, <1>4 DEF PolicyDecided, Returned, Refuse, GoTo, HandlersTypeOK, Binding
  <2>. QED BY <2>1
<1>5. CASE BlobFetched(t)
  <2>1. /\ pc[t] = "data" /\ req' = req /\ inbox'[t] = None
        /\ \/ pc'[t] = "owner" /\ resp' = resp
           \/ pc'[t] = "done" /\ \E e : resp'[t] = DownloadStatus(e)
    BY <1>0, <1>5 DEF BlobFetched, Returned, Consume, Refuse, GoTo, HandlersTypeOK, MokaTypeOK
  <2>. QED BY <2>1, DownloadStatuses
<1>6. CASE OwnershipVerified(t)
  <2>1. /\ pc[t] = "owner" /\ stage[t] = "none" /\ req' = req
        /\ \/ Succeeded(t) /\ pc'[t] \in {"metadata", "done"}
           \/ pc'[t] = "done" /\ \E e : resp'[t] = OwnershipStatus(e)
    BY <1>0, <1>6 DEF OwnershipVerified, Returned, Refuse, Serve, GoTo, HandlersTypeOK
  <2>. QED BY <2>1, OwnershipStatuses
<1>7. CASE MetadataExtracted(t)
  BY <1>0, <1>7 DEF MetadataExtracted, Serve, GoTo, HandlersTypeOK
<1>. QED BY <1>1, <1>2, <1>3, <1>4, <1>5, <1>6, <1>7 DEF TaskStep, Handle

-----------------------------------------------------------------------------
(* What a step of the server does to the clocks.                           *)

\* Each kind of key has its own time to live.
LEMMA Lifetimes ==
    ASSUME NEW k \in CacheKeys
    PROVE  /\ k \in PolicyKeys => Ttl(k) = PolicyTtl
           /\ k \in IdentityKeys => Ttl(k) = IdentityTtl
           /\ k \in OwnershipKeys => Ttl(k) = OwnershipTtl
BY KeyParts DEF Ttl

\* The sums the two properties allow are numbers.
LEMMA Allowances ==
    /\ PolicyTimeout \in Nat /\ IdentityTimeout \in Nat /\ ProcessingTimeout \in Nat
    /\ PolicySeen \in Nat /\ IdentitySeen \in Nat /\ OwnershipTold \in Nat /\ OwnershipSeen \in Nat
    /\ PolicySeen = PolicyTimeout + LastSeen(PolicyTtl) /\ LastSeen(PolicyTtl) \in Nat
    /\ IdentitySeen = IdentityTimeout + LastSeen(IdentityTtl) /\ LastSeen(IdentityTtl) \in Nat
    /\ OwnershipTold = IdentitySeen + ProcessingTimeout
    /\ OwnershipSeen = OwnershipTold + LastSeen(OwnershipTtl) /\ LastSeen(OwnershipTtl) \in Nat
    /\ PolicyTtl \in Nat /\ IdentityTtl \in Nat /\ OwnershipTtl \in Nat
<1>1. /\ PolicyTimeout \in Nat /\ IdentityTimeout \in Nat /\ ProcessingTimeout \in Nat
      /\ PolicyTtl \in Nat /\ IdentityTtl \in Nat /\ OwnershipTtl \in Nat
  BY TimesAssumption
<1>2. /\ LastSeen(PolicyTtl) \in Nat /\ LastSeen(IdentityTtl) \in Nat
      /\ LastSeen(OwnershipTtl) \in Nat
  BY ONLY <1>1 DEF LastSeen
<1>3. /\ PolicySeen = PolicyTimeout + LastSeen(PolicyTtl) /\ PolicySeen \in Nat
      /\ IdentitySeen = IdentityTimeout + LastSeen(IdentityTtl) /\ IdentitySeen \in Nat
  BY ONLY <1>1, <1>2 DEF PolicySeen, IdentitySeen
<1>4. OwnershipTold = IdentitySeen + ProcessingTimeout /\ OwnershipTold \in Nat
  BY ONLY <1>1, <1>3 DEF OwnershipTold
<1>5. OwnershipSeen = OwnershipTold + LastSeen(OwnershipTtl) /\ OwnershipSeen \in Nat
  BY ONLY <1>2, <1>4 DEF OwnershipSeen
<1>. QED BY <1>1, <1>2, <1>3, <1>4, <1>5

\* What was early enough stays so: a fact that goes now goes after it.
LEMMA ByStays ==
    ASSUME TimesOK, Untimed, NEW f \in Facts, NEW n \in Nat, NEW s \in Nat, n <= now, By(n, f, s)
    PROVE  gone'[f] # None => n <= gone'[f] + s
<1>1. gone'[f] \in {None, now, gone[f]}
  BY DEF Untimed
<1>. QED BY <1>1 DEF TimesOK, By

\* A fact that holds is not gone.
LEMMA Holding ==
    ASSUME Untimed, NEW f \in Facts, Holds(f), UNCHANGED worldVars
    PROVE  gone'[f] = None
<1>1. Holds(f)'
  BY DEF Holds, worldVars
<1>. QED BY <1>1 DEF Untimed

\* An exchange that goes on began when it began; another begins now, unanswered.
LEMMA AskedStays ==
    ASSUME IInv, Untimed, NEW u \in Tasks, NEW k \in PolicyKeys \cup IdentityKeys, flight'[k] = u
    PROVE  \/ flight[k] = u /\ asked'[u] = asked[u]
           \/ asked'[u] = now /\ wire'[u] = None
<1>1. Exchanging(u)'
  BY DEF Exchanging
<1>2. asked'[u] = IF Exchanging(u) THEN asked[u] ELSE now
  BY <1>1 DEF Untimed
<1>3. CASE flight[k] = u
  BY <1>2, <1>3 DEF Exchanging
<1>4. CASE flight[k] # u
  <2>1. [Next]_vars
    BY DEF Untimed
  <2>. QED BY <1>2, <1>4, <2>1, ExchangeBegins
<1>. QED BY <1>3, <1>4

\* An entry that is there was there, as old as it was, or has been written now.
LEMMA StoredStays ==
    ASSUME IInv, Untimed, NEW k \in CacheKeys, k \notin DataKeys, entries'[k] # None
    PROVE  \/ entries'[k] = entries[k] /\ stored'[k] = stored[k]
           \/ /\ stored'[k] = now
              /\ \E t \in Tasks :
                   \/ Sourced(t, k, entries'[k])
                   \/ stage[t] = "own" /\ k = OwnershipKey(req[t].did, req[t].cid)
<1>0. [Next]_vars /\ stored'[k] = IF Written(k) THEN now ELSE stored[k]
  BY DEF Untimed
<1>1. CASE ~Written(k)
  BY <1>0, <1>1, ChangedIsWritten
<1>2. CASE Written(k)
  <2>1. ~OtherStep
    <3>1. SUFFICES ASSUME OtherStep PROVE FALSE
      OBVIOUS
    <3>2. \A u \in Tasks : Still(u)
      BY <3>1, OthersStandStill
    <3>3. flight[k] \in Tasks \cup {None}
      BY DEF IInv, TypeOK, MokaTypeOK
    <3>. QED BY <1>2, <3>2, <3>3, NoneAssumption DEF Written, Still
  <2>2. PICK t \in Tasks : TaskStep(t)
    BY <1>0, <2>1, StepKinds
  <2>. QED BY <1>0, <1>2, <2>2, WrittenBy
<1>. QED BY <1>1, <1>2

\* A request arrives once.
LEMMA ArrivedStays ==
    ASSUME Untimed, NEW u \in Tasks, pc[u] # "idle"
    PROVE  arrived'[u] = arrived[u]
BY DEF Untimed

\* The clocks keep their types.
LEMMA TimesStayOK ==
    ASSUME TimesOK, Untimed
    PROVE  TimesOK'
<1>1. stored' \in [CacheKeys -> Nat]
  BY DEF TimesOK, Untimed
<1>2. asked' \in [Tasks -> Nat]
  BY DEF TimesOK, Untimed
<1>3. arrived' \in [Tasks -> Nat]
  BY DEF TimesOK, Untimed
<1>4. gone' \in [Facts -> Nat \cup {None}]
  BY DEF TimesOK, Untimed
<1>. QED BY <1>1, <1>2, <1>3, <1>4 DEF TimesOK, Untimed

\* Nothing gets late while no time passes.
LEMMA PunctualStays ==
    ASSUME IInv, TimesOK, PunctualInv, Untimed
    PROVE  PunctualInv'
<1>0. [Next]_vars /\ now' = now
  BY DEF Untimed
<1>1. ASSUME NEW k \in CacheKeys PROVE stored'[k] <= now
  BY <1>1 DEF Untimed, TimesOK, PunctualInv
<1>2. ASSUME NEW k \in PolicyKeys \cup IdentityKeys \cup OwnershipKeys, entries'[k] # None
      PROVE  now <= stored'[k] + LastSeen(Ttl(k))
  <2>1. k \in CacheKeys /\ k \notin DataKeys
    BY KeyParts DEF CacheKeys
  <2>2. LastSeen(Ttl(k)) \in Nat
    BY <2>1, Lifetimes, Allowances
  <2>3. stored'[k] = now \/ (entries'[k] = entries[k] /\ stored'[k] = stored[k])
    BY <1>2, <2>1, StoredStays
  <2>. QED BY <1>2, <2>2, <2>3 DEF TimesOK, PunctualInv
<1>3. ASSUME NEW t \in Tasks PROVE asked'[t] <= now /\ arrived'[t] <= now
  BY <1>3 DEF Untimed, TimesOK, PunctualInv
<1>4. ASSUME NEW t \in Tasks, NEW k \in PolicyKeys, flight'[k] = t
      PROVE  now <= asked'[t] + PolicyTimeout
  BY <1>4, AskedStays, Allowances DEF TimesOK, PunctualInv
<1>5. ASSUME NEW t \in Tasks, NEW k \in IdentityKeys, flight'[k] = t
      PROVE  now <= asked'[t] + IdentityTimeout
  BY <1>5, AskedStays, Allowances DEF TimesOK, PunctualInv
<1>6. ASSUME NEW t \in Tasks, Processing(t)' PROVE now <= arrived'[t] + ProcessingTimeout
  <2>1. CASE pc[t] = "idle"
    BY <1>6, <2>1, Allowances DEF Untimed, TimesOK, Processing
  <2>2. CASE pc[t] # "idle"
    <3>1. Processing(t)
      BY <1>0, <1>6, <2>2, StillOrSteps, HandlersMove DEF Still, Processing
    <3>. QED BY <2>2, <3>1, ArrivedStays DEF PunctualInv
  <2>. QED BY <2>1, <2>2
<1>. QED BY <1>0, <1>1, <1>2, <1>3, <1>4, <1>5, <1>6 DEF PunctualInv, Ttl, LastSeen

-----------------------------------------------------------------------------
(* What the policy service forbids.                                        *)

\* An answer that allows a pair is stored and told within one exchange of it.
LEMMA PermissionSourced ==
    ASSUME IInv, TimeInv, Binding, NEW d \in Dids, NEW c \in Cids, NEW t \in Tasks,
           Sourced(t, PolicyKey(d, c), "Allowed")
    PROVE  By(now, Permission(d, c), PolicyTimeout)
<1>. DEFINE k == PolicyKey(d, c)
            f == Permission(d, c)
<1>1. k \in PolicyKeys /\ k \notin DataKeys /\ f \in Facts
  BY Keys DEF Permission, Facts, Pairs
<1>2. flight[k] = t /\ wire[t] = "allowed"
  BY <1>1 DEF Sourced, Bears
<1>3. By(asked[t], f, 0) /\ now <= asked[t] + PolicyTimeout
  BY <1>1, <1>2 DEF TimeInv, PermissionInv, PunctualInv
<1>4. now \in Nat /\ asked[t] \in Nat /\ (gone[f] # None => gone[f] \in Nat) /\ PolicyTimeout \in Nat
  BY <1>1, Allowances DEF TimeInv, TimesOK
<1>. QED BY <1>3, <1>4 DEF By

\* An answer on its way.
LEMMA PermissionAnswered ==
    ASSUME IInv, TimeInv, Binding, Untimed, NEW d \in Dids, NEW c \in Cids, NEW t \in Tasks,
           flight'[PolicyKey(d, c)] = t, wire'[t] = "allowed"
    PROVE  By(asked[t], Permission(d, c), 0)'
<1>. DEFINE k == PolicyKey(d, c)
            f == Permission(d, c)
<1>0. [Next]_vars /\ k \in PolicyKeys /\ k \in CacheKeys /\ f \in Facts /\ wire'[t] # None
  BY Keys, NoneIsNoAnswer DEF Untimed, Permission, Facts, Pairs
<1>1. flight[k] = t /\ asked'[t] = asked[t]
  BY <1>0, AskedStays
<1>2. CASE Still(t)
  <2>1. wire[t] = "allowed"
    BY <1>2 DEF Still
  <2>2. By(asked[t], f, 0)
    BY <1>1, <2>1 DEF TimeInv, PermissionInv
  <2>3. asked[t] \in Nat /\ asked[t] <= now /\ TimesOK
    BY DEF TimeInv, TimesOK, PunctualInv
  <2>4. gone'[f] # None => asked[t] <= gone'[f] + 0
    BY <1>0, <2>2, <2>3, ByStays
  <2>5. By(asked[t], f, 0)' <=> (gone'[f] # None => asked'[t] <= gone'[f] + 0)
    BY DEF By, Permission
  <2>. QED BY <1>1, <2>4, <2>5
<1>3. CASE TaskStep(t) /\ UNCHANGED worldVars
  <2>1. pc[t] = "policy" /\ req[t] \in Requests /\ k = AwaitedKey(t) /\ stage[t] = "none"
    BY <1>0, <1>1, OneExchange
  <2>2. req[t].did = d /\ req[t].cid = c
    <3>1. PolicyKey(req[t].did, req[t].cid) = k
      BY <2>1 DEF AwaitedKey, MainKey
    <3>. QED BY <3>1 DEF PolicyKey
  <2>3. Holds(f)
    BY <1>0, <1>3, <2>1, <2>2, AnswersAreCurrent DEF Holds, Permission
  <2>. QED BY <1>0, <1>3, <2>3, Holding DEF By, Permission
<1>. QED BY <1>0, <1>2, <1>3, StillOrSteps

\* A decision in the cache.
LEMMA PermissionStored ==
    ASSUME IInv, TimeInv, Binding, Untimed, NEW d \in Dids, NEW c \in Cids,
           entries'[PolicyKey(d, c)] = "Allowed"
    PROVE  By(stored[PolicyKey(d, c)], Permission(d, c), PolicyTimeout)'
<1>. DEFINE k == PolicyKey(d, c)
            f == Permission(d, c)
<1>0. k \in CacheKeys /\ k \notin DataKeys /\ f \in Facts /\ entries'[k] # None /\ k' = k /\ f' = f
  BY Keys, NoneIsNoAnswer DEF Permission, Facts, Pairs, PolicyKey
<1>1. TimesOK /\ now \in Nat /\ stored[k] \in Nat /\ stored[k] <= now /\ PolicyTimeout \in Nat
  BY <1>0, Allowances DEF TimeInv, TimesOK, PunctualInv
<1>2. CASE entries'[k] = entries[k] /\ stored'[k] = stored[k]
  <2>1. By(stored[k], f, PolicyTimeout)
    BY <1>2 DEF TimeInv, PermissionInv
  <2>. HIDE DEF f, k
  <2>2. gone'[f] # None => stored[k] <= gone'[f] + PolicyTimeout
    BY <1>0, <1>1, <2>1, ByStays
  <2>. QED BY <1>0, <1>2, <2>2 DEF By, f, k
<1>3. ASSUME stored'[k] = now, NEW t \in Tasks, Sourced(t, k, entries'[k])
      PROVE  By(stored[k], f, PolicyTimeout)'
  <2>1. By(now, f, PolicyTimeout)
    BY <1>3, PermissionSourced
  <2>. HIDE DEF f, k
  <2>2. gone'[f] # None => now <= gone'[f] + PolicyTimeout
    BY <1>0, <1>1, <2>1, ByStays
  <2>. QED BY <1>0, <1>3, <2>2 DEF By
<1>4. \A t \in Tasks : k # OwnershipKey(req[t].did, req[t].cid)
  BY KeysDiffer
<1>. QED BY <1>0, <1>2, <1>3, <1>4, StoredStays

\* A request that was told.
LEMMA PermissionTold ==
    ASSUME IInv, TimeInv, Binding, Untimed, NEW d \in Dids, NEW c \in Cids, NEW u \in Tasks,
           Cleared(u)', PairOf(u)' = <<d, c>>
    PROVE  By(arrived[u], Permission(d, c), PolicySeen)'
<1>. DEFINE k == PolicyKey(d, c)
            f == Permission(d, c)
<1>0. [Next]_vars /\ TaskInv(u) /\ k \in CacheKeys /\ k \in PolicyKeys /\ f \in Facts /\ f' = f
  BY Keys DEF Untimed, IInv, Permission, Facts, Pairs
<1>1. TimesOK /\ now \in Nat /\ arrived[u] \in Nat /\ arrived[u] <= now
  BY DEF TimeInv, TimesOK, PunctualInv
<1>2. pc[u] # "idle"
  BY <1>0, StillOrSteps, HandlersMove DEF Still, Cleared, Succeeded
<1>3. req'[u] = req[u] /\ arrived'[u] = arrived[u] /\ PairOf(u) = <<d, c>>
  BY <1>0, <1>2, StillOrSteps, HandlersMove, ArrivedStays DEF Still, PairOf
<1>4. By(arrived[u], f, PolicySeen)
  <2>1. CASE Cleared(u)
    BY <1>3, <2>1 DEF TimeInv, PermissionInv
  <2>2. CASE ~Cleared(u)
    <3>1. /\ pc[u] = "policy" /\ inbox'[u] # inbox[u] /\ inbox'[u] # None
          /\ inbox'[u].tag = "ok" /\ inbox'[u].val = "Allowed"
      <4>1. pc[u] \in Locations /\ pc[u] # "done"
        <5>1. pc'[u] # "done"
          BY DEF Cleared
        <5>. QED BY <1>0, <5>1, StillOrSteps, HandlersMove DEF Still, IInv, TypeOK, HandlersTypeOK
      <4>2. pc[u] = "policy"
        BY <1>2, <2>2, <4>1 DEF Cleared, Locations
      <4>3. pc'[u] = "policy"
        <5>1. Succeeded(u) /\ inbox[u].val = "Allowed" => FALSE
          BY <2>2, <4>2 DEF Cleared
        <5>2. pc'[u] # "done"
          BY DEF Cleared
        <5>3. CASE Still(u)
          BY <4>2, <5>3 DEF Still
        <5>4. CASE TaskStep(u)
          BY <4>2, <5>1, <5>2, <5>4, HandlersMove
        <5>. QED BY <1>0, <5>3, <5>4, StillOrSteps
      <4>4. Succeeded(u)' /\ inbox'[u].val = "Allowed"
        BY <4>3 DEF Cleared
      <4>. QED BY <2>2, <4>2, <4>4 DEF Cleared, Succeeded
    <3>2. AwaitedKey(u) = k
      BY <1>0, <1>3, <3>1 DEF TaskInv, StageInv, AwaitedKey, MainKey, PairOf
    <3>3. \/ entries[k] = "Allowed"
          \/ \E t \in Tasks : Sourced(t, k, "Allowed")
      <4>. HIDE DEF k
      <4>. QED BY <1>0, <3>1, <3>2, Told
    <3>4. ASSUME entries[k] = "Allowed" PROVE By(arrived[u], f, PolicySeen)
      <4>1. By(stored[k], f, PolicyTimeout) /\ stored[k] \in Nat /\ Ttl(k) = PolicyTtl
        BY <1>0, <3>4, Lifetimes DEF TimeInv, PermissionInv, TimesOK
      <4>2. now <= stored[k] + LastSeen(Ttl(k))
        BY <1>0, <3>4, NoneIsNoAnswer DEF TimeInv, PunctualInv
      <4>3. gone[f] # None => gone[f] \in Nat
        BY <1>0 DEF TimeInv, TimesOK
      <4>. HIDE DEF f, k
      <4>. QED BY <1>1, <4>1, <4>2, <4>3, Allowances DEF By
    <3>5. ASSUME NEW t \in Tasks, Sourced(t, k, "Allowed") PROVE By(arrived[u], f, PolicySeen)
      <4>1. By(now, f, PolicyTimeout)
        BY <3>5, PermissionSourced
      <4>2. gone[f] # None => gone[f] \in Nat
        BY <1>0 DEF TimeInv, TimesOK
      <4>. HIDE DEF f, k
      <4>. QED BY <1>1, <4>1, <4>2, Allowances DEF By
    <3>. QED BY <3>3, <3>4, <3>5
  <2>. QED BY <2>1, <2>2
<1>5. gone'[f] # None => arrived[u] <= gone'[f] + PolicySeen
  BY <1>0, <1>1, <1>4, ByStays, Allowances
<1>6. By(arrived[u], Permission(d, c), PolicySeen)' <=>
        (gone'[f] # None => arrived'[u] <= gone'[f] + PolicySeen)
  BY <1>0 DEF By, PolicySeen, LastSeen
<1>. HIDE DEF f
<1>. QED BY <1>3, <1>5, <1>6

\* The permission part of the invariant survives a step of the server.
LEMMA PermissionStays ==
    ASSUME IInv, TimeInv, Binding, Untimed, NEW d \in Dids, NEW c \in Cids
    PROVE  PermissionInv(d, c)'
<1>1. (PolicyKey(d, c))' = PolicyKey(d, c)
  BY DEF PolicyKey
<1>2. \A t \in Tasks : flight'[PolicyKey(d, c)] = t /\ wire'[t] = "allowed" =>
                         By(asked[t], Permission(d, c), 0)'
  BY PermissionAnswered
<1>3. entries'[PolicyKey(d, c)] = "Allowed" => By(stored[PolicyKey(d, c)], Permission(d, c), PolicyTimeout)'
  BY PermissionStored
<1>4. \A t \in Tasks : Cleared(t)' /\ PairOf(t)' = <<d, c>> => By(arrived[t], Permission(d, c), PolicySeen)'
  BY PermissionTold
<1>. QED BY <1>1, <1>2, <1>3, <1>4 DEF PermissionInv

-----------------------------------------------------------------------------
(* What the actor's host does not have any more.                           *)

\* Nobody comes to hold a blob.
LEMMA HoldingsShrink ==
    ASSUME IInv, [Next]_vars
    PROVE  holds' \subseteq holds
BY OthersStandStill, StepKinds, StepFrame DEF IInv, worldVars

\* Only hosts hold blobs.
LEMMA HostsHold ==
    ASSUME IInv, NEW h, NEW d, NEW c, <<h, d, c>> \in holds
    PROVE  h \in Hosts /\ h # None /\ h # "lost"
BY NoneIsNoAnswer, WorldAssumption DEF IInv, TypeOK, UpstreamsTypeOK

\* An identity that names a host which has the blob is stored and told within one
\* exchange of its being so.
LEMMA HostingSourced ==
    ASSUME IInv, TimeInv, NEW d \in Dids, NEW c \in Cids, NEW t \in Tasks, NEW v,
           Sourced(t, IdentityKey(d), v), <<v, d, c>> \in holds
    PROVE  By(now, Hosting(d, c), IdentityTimeout)
<1>. DEFINE i == IdentityKey(d)
            f == Hosting(d, c)
<1>1. i \in IdentityKeys /\ i \notin DataKeys /\ f \in Facts
  BY Keys DEF Hosting, Facts, Pairs
<1>2. flight[i] = t /\ wire[t] = v
  BY <1>1 DEF Sourced, Bears
<1>3. By(asked[t], f, 0) /\ now <= asked[t] + IdentityTimeout
  BY <1>1, <1>2 DEF TimeInv, HostingInv, PunctualInv
<1>4. now \in Nat /\ asked[t] \in Nat /\ (gone[f] # None => gone[f] \in Nat) /\ IdentityTimeout \in Nat
  BY <1>1, Allowances DEF TimeInv, TimesOK
<1>. QED BY <1>3, <1>4 DEF By

\* An answer of the directory on its way.
LEMMA HostingAnswered ==
    ASSUME IInv, TimeInv, Untimed, NEW d \in Dids, NEW c \in Cids, NEW t \in Tasks,
           flight'[IdentityKey(d)] = t, <<wire'[t], d, c>> \in holds'
    PROVE  By(asked[t], Hosting(d, c), 0)'
<1>. DEFINE i == IdentityKey(d)
            f == Hosting(d, c)
<1>0. [Next]_vars /\ i \in IdentityKeys /\ i \in CacheKeys /\ f \in Facts
  BY Keys DEF Untimed, Hosting, Facts, Pairs
<1>1. <<wire'[t], d, c>> \in holds
  BY <1>0, StillOrSteps
<1>2. wire'[t] # None /\ wire'[t] # "lost"
  BY <1>1, HostsHold
<1>3. flight[i] = t /\ asked'[t] = asked[t]
  BY <1>0, <1>2, AskedStays
<1>4. By(asked[t], f, 0)' <=> (gone'[f] # None => asked'[t] <= gone'[f] + 0)
  BY DEF By, Hosting
<1>5. CASE Still(t)
  <2>1. wire[t] = wire'[t]
    BY <1>5 DEF Still
  <2>2. By(asked[t], f, 0)
    BY <1>1, <1>3, <2>1 DEF TimeInv, HostingInv
  <2>3. asked[t] \in Nat /\ asked[t] <= now /\ TimesOK
    BY DEF TimeInv, TimesOK, PunctualInv
  <2>4. gone'[f] # None => asked[t] <= gone'[f] + 0
    BY <1>0, <2>2, <2>3, ByStays
  <2>. QED BY <1>3, <1>4, <2>4
<1>6. CASE TaskStep(t) /\ UNCHANGED worldVars
  <2>1. req[t] \in Requests /\ i = AwaitedKey(t) /\ stage[t] = "pds"
    BY <1>0, <1>3, OneExchange
  <2>2. req[t].did = d
    <3>1. IdentityKey(req[t].did) = i
      BY <2>1 DEF AwaitedKey
    <3>. QED BY <3>1 DEF IdentityKey
  <2>3. wire'[t] = pds[d]
    BY <1>2, <1>6, <2>1, <2>2, AnswersAreCurrent
  <2>4. Holds(f)
    BY <1>1, <2>3 DEF Holds, Hosting
  <2>. QED BY <1>0, <1>4, <1>6, <2>4, Holding
<1>. QED BY <1>0, <1>5, <1>6, StillOrSteps

\* An identity in the cache.
LEMMA HostingStored ==
    ASSUME IInv, TimeInv, Untimed, NEW d \in Dids, NEW c \in Cids,
           <<entries'[IdentityKey(d)], d, c>> \in holds'
    PROVE  By(stored[IdentityKey(d)], Hosting(d, c), IdentityTimeout)'
<1>. DEFINE i == IdentityKey(d)
            f == Hosting(d, c)
<1>0. i \in CacheKeys /\ i \notin DataKeys /\ f \in Facts /\ [Next]_vars
  BY Keys DEF Hosting, Facts, Pairs, Untimed
<1>1. TimesOK /\ now \in Nat /\ stored[i] \in Nat /\ stored[i] <= now /\ IdentityTimeout \in Nat
  BY <1>0, Allowances DEF TimeInv, TimesOK, PunctualInv
<1>2. <<entries'[i], d, c>> \in holds
  BY <1>0, HoldingsShrink
<1>3. entries'[i] # None
  BY <1>2, HostsHold
<1>4. By(stored[i], f, IdentityTimeout)' <=> (gone'[f] # None => stored'[i] <= gone'[f] + IdentityTimeout)
  BY DEF By, Hosting, IdentityKey
<1>5. ASSUME entries'[i] = entries[i], stored'[i] = stored[i]
      PROVE  By(stored[i], f, IdentityTimeout)'
  <2>1. By(stored[i], f, IdentityTimeout)
    BY <1>2, <1>5 DEF TimeInv, HostingInv
  <2>. HIDE DEF f, i
  <2>2. gone'[f] # None => stored[i] <= gone'[f] + IdentityTimeout
    BY <1>0, <1>1, <2>1, ByStays
  <2>. QED BY <1>4, <1>5, <2>2
<1>6. ASSUME stored'[i] = now, NEW t \in Tasks, Sourced(t, i, entries'[i])
      PROVE  By(stored[i], f, IdentityTimeout)'
  <2>1. By(now, f, IdentityTimeout)
    BY <1>2, <1>6, HostingSourced
  <2>. HIDE DEF f, i
  <2>2. gone'[f] # None => now <= gone'[f] + IdentityTimeout
    BY <1>0, <1>1, <2>1, ByStays
  <2>. QED BY <1>4, <1>6, <2>2
<1>7. \A t \in Tasks : i # OwnershipKey(req[t].did, req[t].cid)
  BY KeysDiffer
<1>. QED BY <1>0, <1>3, <1>5, <1>6, <1>7, StoredStays

\* Where a task is while it goes to a host, and until it has marked the pair.
LEMMA ReachingNow ==
    ASSUME IInv, NEW t \in Tasks, stage[t] # "none"
    PROVE  /\ pc[t] \in {"data", "owner"} /\ pc[t] # "idle" /\ Processing(t)
           /\ stage[t] = "pds" => AwaitedKey(t) = IdentityKey(req[t].did)
           /\ stage[t] \in {"own", "ret"} => pc[t] = "data"
BY DEF IInv, TaskInv, StageInv, AwaitedKey, Processing

\* Who goes to a host knew it from the cache, or from a resolution of its moment.
LEMMA HostingTold ==
    ASSUME IInv, TimeInv, Untimed, NEW d \in Dids, NEW c \in Cids, NEW u \in Tasks,
           Reaching(u, d, c)', PairOf(u)' = <<d, c>>
    PROVE  By(arrived[u], Hosting(d, c), IdentitySeen)'
<1>. DEFINE i == IdentityKey(d)
            f == Hosting(d, c)
<1>0. [Next]_vars /\ i \in CacheKeys /\ i \in IdentityKeys /\ f \in Facts /\ stage'[u] # "none"
  BY Keys DEF Untimed, Hosting, Facts, Pairs, Reaching
<1>1. TimesOK /\ now \in Nat /\ arrived[u] \in Nat /\ arrived[u] <= now
  BY DEF TimeInv, TimesOK, PunctualInv
<1>2. pc[u] # "idle" /\ req'[u] = req[u]
  <2>1. pc'[u] # "idle"
    BY <1>0, NextKeepsInv DEF IInv, TaskInv, StageInv
  <2>. QED BY <1>0, <2>1, StillOrSteps, StagesMove DEF Still
<1>3. arrived'[u] = arrived[u] /\ PairOf(u) = <<d, c>>
  BY <1>2, ArrivedStays DEF PairOf
<1>4. Reaching(u, d, c) \/ (stage[u] = "pds" /\ inbox'[u] # inbox[u] /\ inbox'[u] # None
                            /\ inbox'[u].tag = "ok" /\ <<inbox'[u].val, d, c>> \in holds)
  <2>1. CASE Still(u)
    BY <1>0, <2>1, HoldingsShrink DEF Still, Reaching, Succeeded
  <2>2. ASSUME TaskStep(u), UNCHANGED worldVars, ~Reaching(u, d, c)
        PROVE  /\ stage[u] = "pds" /\ inbox'[u] # inbox[u] /\ inbox'[u] # None
               /\ inbox'[u].tag = "ok" /\ <<inbox'[u].val, d, c>> \in holds
    <3>1. stage'[u] \notin {"own", "ret"}
      BY <1>0, <2>2, StagesMove DEF Reaching
    <3>2. ~(stage'[u] = "get" /\ <<host'[u], d, c>> \in holds')
      BY <1>0, <2>2, StagesMove DEF Reaching, worldVars
    <3>3. ~(stage'[u] = "get" /\ wire'[u] \notin Failures \cup {None})
      BY <1>3, <2>2, AnswersAreCurrent DEF Reaching, PairOf
    <3>4. stage'[u] = "pds" /\ Succeeded(u)' /\ <<inbox'[u].val, d, c>> \in holds'
      BY <3>1, <3>2, <3>3 DEF Reaching
    <3>5. stage[u] = "pds"
      BY <1>0, <2>2, <3>4, StagesMove DEF Succeeded
    <3>. QED BY <2>2, <3>4, <3>5 DEF Reaching, Succeeded, worldVars
  <2>. QED BY <1>0, <2>1, <2>2, StillOrSteps
<1>5. By(arrived[u], f, IdentitySeen)
  <2>1. CASE Reaching(u, d, c)
    BY <1>3, <2>1 DEF TimeInv, HostingInv
  <2>2. CASE /\ stage[u] = "pds" /\ inbox'[u] # inbox[u] /\ inbox'[u] # None
             /\ inbox'[u].tag = "ok" /\ <<inbox'[u].val, d, c>> \in holds
    <3>1. AwaitedKey(u) = i
      BY <1>3, <2>2, ReachingNow DEF PairOf
    <3>2. \/ entries[i] # None /\ <<entries[i], d, c>> \in holds
          \/ \E t \in Tasks : Sourced(t, i, inbox'[u].val)
      <4>. HIDE DEF i
      <4>. QED BY <1>0, <2>2, <3>1, Told
    <3>3. gone[f] # None => gone[f] \in Nat
      BY <1>0 DEF TimeInv, TimesOK
    <3>4. ASSUME entries[i] # None, <<entries[i], d, c>> \in holds PROVE By(arrived[u], f, IdentitySeen)
      <4>1. By(stored[i], f, IdentityTimeout) /\ stored[i] \in Nat /\ Ttl(i) = IdentityTtl
        BY <1>0, <3>4, Lifetimes DEF TimeInv, HostingInv, TimesOK
      <4>2. now <= stored[i] + LastSeen(Ttl(i))
        BY <1>0, <3>4 DEF TimeInv, PunctualInv
      <4>. HIDE DEF f, i
      <4>. QED BY <1>1, <3>3, <4>1, <4>2, Allowances DEF By
    <3>5. ASSUME NEW t \in Tasks, Sourced(t, i, inbox'[u].val) PROVE By(arrived[u], f, IdentitySeen)
      <4>1. By(now, f, IdentityTimeout)
        BY <2>2, <3>5, HostingSourced
      <4>. HIDE DEF f, i
      <4>. QED BY <1>1, <3>3, <4>1, Allowances DEF By
    <3>. QED BY <3>2, <3>4, <3>5
  <2>. QED BY <1>4, <2>1, <2>2
<1>6. gone'[f] # None => arrived[u] <= gone'[f] + IdentitySeen
  BY <1>0, <1>1, <1>5, ByStays, Allowances
<1>7. By(arrived[u], Hosting(d, c), IdentitySeen)' <=>
        (gone'[f] # None => arrived'[u] <= gone'[f] + IdentitySeen)
  BY DEF By, Hosting, IdentitySeen, LastSeen
<1>. QED BY <1>3, <1>6, <1>7

\* A pair is marked as owned while the request that reached the host is served.
LEMMA OwnershipSourced ==
    ASSUME IInv, TimeInv, NEW d \in Dids, NEW c \in Cids, NEW t \in Tasks, NEW v,
           \/ Sourced(t, OwnershipKey(d, c), v)
           \/ stage[t] = "own" /\ OwnershipKey(d, c) = OwnershipKey(req[t].did, req[t].cid)
    PROVE  By(now, Hosting(d, c), OwnershipTold)
<1>. DEFINE k == OwnershipKey(d, c)
            f == Hosting(d, c)
<1>0. k \in OwnershipKeys /\ k \notin DataKeys /\ f \in Facts
  BY Keys DEF Hosting, Facts, Pairs
<1>1. Reaching(t, d, c) /\ PairOf(t) = <<d, c>> /\ Processing(t)
  <2>1. CASE Sourced(t, k, v)
    <3>1. stage[t] = "get" /\ wire[t] = "owned" /\ k = AwaitedKey(t)
      BY <1>0, <2>1 DEF Sourced, Bears
    <3>2. pc[t] \in {"data", "owner"} /\ Processing(t) /\ k = MainKey(t)
      BY <3>1, ReachingNow DEF AwaitedKey
    <3>3. k = OwnershipKey(req[t].did, req[t].cid)
      <4>1. k # DataKey(req[t].cid)
        BY KeysDiffer
      <4>. HIDE DEF k
      <4>. QED BY <3>2, <4>1 DEF MainKey
    <3>4. "owned" \notin Failures \cup {None}
      BY NoneIsNoAnswer DEF Failures
    <3>. QED BY <3>1, <3>2, <3>3, <3>4 DEF Reaching, PairOf, OwnershipKey
  <2>2. CASE stage[t] = "own" /\ k = OwnershipKey(req[t].did, req[t].cid)
    BY <2>2, ReachingNow DEF Reaching, PairOf, OwnershipKey
  <2>. QED BY <2>1, <2>2
<1>2. By(arrived[t], f, IdentitySeen) /\ now <= arrived[t] + ProcessingTimeout
  BY <1>1 DEF TimeInv, HostingInv, PunctualInv
<1>3. now \in Nat /\ arrived[t] \in Nat /\ (gone[f] # None => gone[f] \in Nat)
  BY <1>0 DEF TimeInv, TimesOK
<1>. QED BY <1>2, <1>3, Allowances DEF By

\* An ownership in the cache.
LEMMA OwnershipStored ==
    ASSUME IInv, TimeInv, Untimed, NEW d \in Dids, NEW c \in Cids, entries'[OwnershipKey(d, c)] # None
    PROVE  By(stored[OwnershipKey(d, c)], Hosting(d, c), OwnershipTold)'
<1>. DEFINE k == OwnershipKey(d, c)
            f == Hosting(d, c)
<1>0. k \in CacheKeys /\ k \notin DataKeys /\ f \in Facts
  BY Keys DEF Hosting, Facts, Pairs
<1>1. TimesOK /\ now \in Nat /\ stored[k] \in Nat /\ stored[k] <= now /\ OwnershipTold \in Nat
  BY <1>0, Allowances DEF TimeInv, TimesOK, PunctualInv
<1>2. By(stored[k], f, OwnershipTold)' <=> (gone'[f] # None => stored'[k] <= gone'[f] + OwnershipTold)
  BY DEF By, Hosting, OwnershipKey, OwnershipTold, IdentitySeen, LastSeen
<1>3. ASSUME entries'[k] = entries[k], stored'[k] = stored[k]
      PROVE  By(stored[k], f, OwnershipTold)'
  <2>1. By(stored[k], f, OwnershipTold)
    BY <1>3 DEF TimeInv, HostingInv
  <2>. HIDE DEF f, k
  <2>2. gone'[f] # None => stored[k] <= gone'[f] + OwnershipTold
    BY <1>0, <1>1, <2>1, ByStays
  <2>. QED BY <1>2, <1>3, <2>2
<1>4. ASSUME stored'[k] = now, NEW t \in Tasks,
             \/ Sourced(t, k, entries'[k])
             \/ stage[t] = "own" /\ k = OwnershipKey(req[t].did, req[t].cid)
      PROVE  By(stored[k], f, OwnershipTold)'
  <2>1. By(now, f, OwnershipTold)
    BY <1>4, OwnershipSourced
  <2>. HIDE DEF f, k
  <2>2. gone'[f] # None => now <= gone'[f] + OwnershipTold
    BY <1>0, <1>1, <2>1, ByStays
  <2>. QED BY <1>2, <1>4, <2>2
<1>. QED BY <1>0, <1>3, <1>4, StoredStays

\* A fetch of the ownership whose host cannot be resolved fails.
LEMMA UnresolvedFails ==
    ASSUME IInv, NEW t \in Tasks, TaskStep(t), pc[t] = "owner", pc'[t] = "owner",
           stage[t] = "pds", stage'[t] = "none", inbox'[t] # None
    PROVE  inbox'[t].tag = "err"
<1>0. TypeOK
  BY DEF IInv
<1>1. CallFetchOwnership(t)
  BY <1>0 DEF TaskStep, Handle, CallPolicyClient, CallFetchBlob, PolicyDecided, BlobFetched,
              OwnershipVerified, Returned, MetadataExtracted, RejectMalformed, Arrive, Drop, Refuse,
              GoTo, TypeOK, HandlersTypeOK
<1>. QED BY <1>0, <1>1 DEF CallFetchOwnership, FetchBlobOwnership, Fetch, ResolveHost, Return,
         Resolve, Err, OwnershipQueried, OwnershipReceived, blobVars, TypeOK, HandlersTypeOK

\* A request that was told that the actor has the blob.
LEMMA OwnershipAssured ==
    ASSUME IInv, TimeInv, Untimed, NEW d \in Dids, NEW c \in Cids, NEW u \in Tasks,
           Vouched(u)', PairOf(u)' = <<d, c>>
    PROVE  By(arrived[u], Hosting(d, c), OwnershipSeen)'
<1>. DEFINE k == OwnershipKey(d, c)
            f == Hosting(d, c)
<1>0. [Next]_vars /\ TaskInv(u) /\ k \in CacheKeys /\ k \in OwnershipKeys /\ f \in Facts
  BY Keys DEF Untimed, IInv, Hosting, Facts, Pairs
<1>1. TimesOK /\ now \in Nat /\ arrived[u] \in Nat /\ arrived[u] <= now
  BY DEF TimeInv, TimesOK, PunctualInv
<1>2. pc'[u] \in {"owner", "metadata"}
  BY DEF Vouched
<1>3. pc[u] # "idle" /\ req'[u] = req[u]
  BY <1>0, <1>2, StillOrSteps, HandlersMove DEF Still
<1>4. arrived'[u] = arrived[u] /\ PairOf(u) = <<d, c>>
  BY <1>3, ArrivedStays DEF PairOf
<1>5. Vouched(u) \/ (pc[u] = "owner" /\ stage[u] # "pds" /\ inbox'[u] # inbox[u] /\ inbox'[u] # None
                     /\ inbox'[u].tag = "ok")
  <2>1. CASE Still(u)
    BY <2>1 DEF Still, Vouched, Succeeded
  <2>2. ASSUME TaskStep(u), ~Vouched(u)
        PROVE  /\ pc[u] = "owner" /\ stage[u] # "pds" /\ inbox'[u] # inbox[u] /\ inbox'[u] # None
               /\ inbox'[u].tag = "ok"
    <3>1. pc'[u] # "metadata"
      BY <2>2, HandlersMove DEF Vouched
    <3>2. pc'[u] = "owner" /\ stage'[u] = "none" /\ inbox'[u] # None /\ inbox'[u].tag = "ok"
      BY <3>1 DEF Vouched, Succeeded
    <3>3. pc[u] = "owner"
      BY <2>2, <3>2, HandlersMove
    <3>4. stage[u] # "pds"
      BY <2>2, <3>2, <3>3, UnresolvedFails
    <3>5. inbox'[u] # inbox[u]
      BY <1>0, <2>2, <3>2, <3>3, <3>4 DEF Vouched, Succeeded, TaskInv, InboxInv
    <3>. QED BY <3>2, <3>3, <3>4, <3>5
  <2>. QED BY <1>0, <2>1, <2>2, StillOrSteps
<1>6. By(arrived[u], f, OwnershipSeen)
  <2>1. CASE Vouched(u)
    BY <1>4, <2>1 DEF TimeInv, HostingInv
  <2>2. CASE /\ pc[u] = "owner" /\ stage[u] # "pds" /\ inbox'[u] # inbox[u] /\ inbox'[u] # None
             /\ inbox'[u].tag = "ok"
    <3>1. AwaitedKey(u) = k
      BY <1>4, <2>2 DEF PairOf, AwaitedKey, MainKey
    <3>2. entries[k] # None \/ \E t \in Tasks : Sourced(t, k, inbox'[u].val)
      <4>. HIDE DEF k
      <4>. QED BY <1>0, <2>2, <3>1, Told
    <3>3. gone[f] # None => gone[f] \in Nat
      BY <1>0 DEF TimeInv, TimesOK
    <3>4. ASSUME entries[k] # None PROVE By(arrived[u], f, OwnershipSeen)
      <4>1. By(stored[k], f, OwnershipTold) /\ stored[k] \in Nat /\ Ttl(k) = OwnershipTtl
        BY <1>0, <3>4, Lifetimes DEF TimeInv, HostingInv, TimesOK
      <4>2. now <= stored[k] + LastSeen(Ttl(k))
        BY <1>0, <3>4 DEF TimeInv, PunctualInv
      <4>. HIDE DEF f, k
      <4>. QED BY <1>1, <3>3, <4>1, <4>2, Allowances DEF By
    <3>5. ASSUME NEW t \in Tasks, Sourced(t, k, inbox'[u].val) PROVE By(arrived[u], f, OwnershipSeen)
      <4>1. By(now, f, OwnershipTold)
        BY <3>5, OwnershipSourced
      <4>. HIDE DEF f, k
      <4>. QED BY <1>1, <3>3, <4>1, Allowances DEF By
    <3>. QED BY <3>2, <3>4, <3>5
  <2>. QED BY <1>5, <2>1, <2>2
<1>7. gone'[f] # None => arrived[u] <= gone'[f] + OwnershipSeen
  BY <1>0, <1>1, <1>6, ByStays, Allowances
<1>8. By(arrived[u], Hosting(d, c), OwnershipSeen)' <=>
        (gone'[f] # None => arrived'[u] <= gone'[f] + OwnershipSeen)
  BY DEF By, Hosting, OwnershipSeen, OwnershipTold, IdentitySeen, LastSeen
<1>. QED BY <1>4, <1>7, <1>8

\* The hosting part of the invariant survives a step of the server.
LEMMA HostingStays ==
    ASSUME IInv, TimeInv, Untimed, NEW d \in Dids, NEW c \in Cids
    PROVE  HostingInv(d, c)'
<1>1. (IdentityKey(d))' = IdentityKey(d) /\ (OwnershipKey(d, c))' = OwnershipKey(d, c)
  BY DEF IdentityKey, OwnershipKey
<1>2. \A t \in Tasks : flight'[IdentityKey(d)] = t /\ <<wire'[t], d, c>> \in holds' =>
                         By(asked[t], Hosting(d, c), 0)'
  BY HostingAnswered
<1>3. <<entries'[IdentityKey(d)], d, c>> \in holds' =>
        By(stored[IdentityKey(d)], Hosting(d, c), IdentityTimeout)'
  BY HostingStored
<1>4. \A t \in Tasks : Reaching(t, d, c)' /\ PairOf(t)' = <<d, c>> =>
                         By(arrived[t], Hosting(d, c), IdentitySeen)'
  BY HostingTold
<1>5. entries'[OwnershipKey(d, c)] # None => By(stored[OwnershipKey(d, c)], Hosting(d, c), OwnershipTold)'
  BY OwnershipStored
<1>6. \A t \in Tasks : Vouched(t)' /\ PairOf(t)' = <<d, c>> => By(arrived[t], Hosting(d, c), OwnershipSeen)'
  BY OwnershipAssured
<1>. QED BY <1>1, <1>2, <1>3, <1>4, <1>5, <1>6 DEF HostingInv

-----------------------------------------------------------------------------
(* The passing of time.                                                    *)

\* Where no task does anything and entries only go, nobody is told anything.
LEMMA NobodyTold ==
    ASSUME TimeInv, UNCHANGED <<flight, inbox, wire, holds, blobVars, handlerVars>>,
           UNCHANGED <<asked, arrived, gone>>,
           \A k \in CacheKeys : entries'[k] # None => entries'[k] = entries[k] /\ stored'[k] = stored[k],
           IInv, NEW d \in Dids, NEW c \in Cids
    PROVE  (Binding => PermissionInv(d, c)') /\ HostingInv(d, c)'
<1>. DEFINE p == PolicyKey(d, c)
            i == IdentityKey(d)
            k == OwnershipKey(d, c)
<1>. USE DEF blobVars, handlerVars
<1>1. (Binding => PermissionInv(d, c)) /\ HostingInv(d, c)
  BY DEF TimeInv
<1>2. p \in CacheKeys /\ i \in CacheKeys /\ k \in CacheKeys
  BY Keys
<1>3. ASSUME Binding PROVE PermissionInv(d, c)'
  <2>1. entries'[p] = "Allowed" => entries'[p] = entries[p] /\ stored'[p] = stored[p]
    BY <1>2, NoneIsNoAnswer
  <2>2. \A t \in Tasks : Cleared(t)' /\ PairOf(t)' = <<d, c>> => Cleared(t) /\ PairOf(t) = <<d, c>>
    BY DEF Cleared, Succeeded, PairOf
  <2>. QED BY <1>1, <1>3, <2>1, <2>2 DEF PermissionInv, Permission, By, PolicySeen, LastSeen, PolicyKey
<1>4. HostingInv(d, c)'
  <2>1. <<entries'[i], d, c>> \in holds' => entries'[i] = entries[i] /\ stored'[i] = stored[i]
    BY <1>2, HostsHold
  <2>2. entries'[k] # None => entries'[k] = entries[k] /\ stored'[k] = stored[k]
    BY <1>2
  <2>3. \A t \in Tasks : (Reaching(t, d, c)' => Reaching(t, d, c)) /\ (Vouched(t)' => Vouched(t))
                         /\ PairOf(t)' = PairOf(t)
    BY DEF Reaching, Vouched, Succeeded, PairOf
  <2>4. \A t \in Tasks : flight'[i] = t /\ <<wire'[t], d, c>> \in holds' => By(asked[t], Hosting(d, c), 0)'
    BY <1>1 DEF HostingInv, Hosting, By, IdentityKey
  <2>5. <<entries'[i], d, c>> \in holds' => By(stored[i], Hosting(d, c), IdentityTimeout)'
    BY <1>1, <2>1 DEF HostingInv, Hosting, By, IdentityKey
  <2>6. \A t \in Tasks : Reaching(t, d, c)' /\ PairOf(t)' = <<d, c>> =>
                           By(arrived[t], Hosting(d, c), IdentitySeen)'
    BY <1>1, <2>3 DEF HostingInv, Hosting, By, IdentitySeen, LastSeen
  <2>7. entries'[k] # None => By(stored[k], Hosting(d, c), OwnershipTold)'
    BY <1>1, <2>2 DEF HostingInv, Hosting, By, OwnershipTold, IdentitySeen, LastSeen, OwnershipKey
  <2>8. \A t \in Tasks : Vouched(t)' /\ PairOf(t)' = <<d, c>> => By(arrived[t], Hosting(d, c), OwnershipSeen)'
    BY <1>1, <2>3 DEF HostingInv, Hosting, By, OwnershipSeen, OwnershipTold, IdentitySeen, LastSeen
  <2>9. i' = i /\ k' = k
    BY DEF IdentityKey, OwnershipKey
  <2>. HIDE DEF i, k
  <2>. QED BY <2>4, <2>5, <2>6, <2>7, <2>8, <2>9 DEF HostingInv, i, k
<1>. QED BY <1>3, <1>4

\* What goes when the clock strikes are the entries whose time has come.
LEMMA OnlyTheExpiredGo ==
    ASSUME IInv, Tick, NEW k \in CacheKeys, entries'[k] # None
    PROVE  /\ entries'[k] = entries[k] /\ stored'[k] = stored[k]
           /\ ~(now + 1 >= stored[k] + Ttl(k))
<1>1. entries \in [CacheKeys -> Values \cup {None}]
  BY DEF IInv, TypeOK, MokaTypeOK
<1>2. k \notin Expired(now + 1) /\ entries'[k] = entries[k]
  BY <1>1 DEF Tick, Invalidate
<1>. QED BY <1>2 DEF Tick, Expired

\* The clock keeps the invariant of the caches and the tasks.
LEMMA TickKeepsInv ==
    ASSUME IInv, Tick
    PROVE  IInv'
<1>1. /\ MokaTypeOK' /\ UNCHANGED <<flight, parked, inbox>>
      /\ \A k \in CacheKeys : entries'[k] \in {entries[k], None}
  BY InvalidateRemoves DEF IInv, TypeOK, Tick
<1>2. UNCHANGED <<upstreamVars, blobVars, purgeVars, handlerVars, historyVars>>
  BY DEF Tick
<1>3. TypeOK'
  BY <1>1, <1>2 DEF IInv, TypeOK, UpstreamsTypeOK, HandlersTypeOK, PurgesTypeOK,
                    upstreamVars, worldVars, saidVars, blobVars, purgeVars, handlerVars, historyVars
<1>. QED BY <1>1, <1>2, <1>3, NobodySteps DEF upstreamVars

\* And is not let past anything that is due.
LEMMA TickIsPunctual ==
    ASSUME IInv, TimeInv, Tick
    PROVE  TimesOK' /\ PunctualInv'
<1>0. TimesOK /\ PunctualInv /\ now' = now + 1 /\ UNCHANGED <<asked, arrived, gone, flight, pc>>
  BY DEF TimeInv, Tick, Invalidate, handlerVars
<1>1. TimesOK'
  <2>1. stored' \in [CacheKeys -> Nat]
    BY <1>0 DEF Tick, TimesOK
  <2>. QED BY <1>0, <2>1 DEF TimesOK
<1>2. ASSUME NEW k \in CacheKeys PROVE stored'[k] <= now + 1
  BY <1>0, <1>2 DEF Tick, TimesOK, PunctualInv
<1>3. ASSUME NEW k \in PolicyKeys \cup IdentityKeys \cup OwnershipKeys, entries'[k] # None
      PROVE  now + 1 <= stored'[k] + LastSeen(Ttl(k))
  <2>1. k \in CacheKeys
    BY DEF CacheKeys
  <2>2. stored[k] \in Nat /\ Ttl(k) \in Nat /\ now \in Nat /\ stored[k] <= now
    BY <1>0, <2>1, Lifetimes, Allowances DEF TimesOK, PunctualInv
  <2>3. stored'[k] = stored[k] /\ ~(now + 1 >= stored[k] + Ttl(k))
    BY <1>3, <2>1, OnlyTheExpiredGo
  <2>. QED BY <2>2, <2>3 DEF LastSeen
<1>4. ASSUME NEW t \in Tasks
      PROVE  /\ now \in Nat /\ asked[t] \in Nat /\ arrived[t] \in Nat
             /\ asked[t] <= now /\ arrived[t] <= now /\ ~Due(t)
  BY <1>0, <1>4 DEF Tick, TimesOK, PunctualInv
<1>5. ASSUME NEW t \in Tasks, NEW k \in PolicyKeys, flight[k] = t
      PROVE  now + 1 <= asked[t] + PolicyTimeout
  <2>1. Exchanging(t) /\ ExchangeTimeout(t) = PolicyTimeout
    BY <1>5, OneExchange DEF Exchanging, ExchangeTimeout
  <2>. QED BY <1>4, <2>1, Allowances DEF Due
<1>6. ASSUME NEW t \in Tasks, NEW k \in IdentityKeys, flight[k] = t
      PROVE  now + 1 <= asked[t] + IdentityTimeout
  <2>1. Exchanging(t) /\ ExchangeTimeout(t) = IdentityTimeout
    BY <1>6, OneExchange DEF Exchanging, ExchangeTimeout
  <2>. QED BY <1>4, <2>1, Allowances DEF Due
<1>7. ASSUME NEW t \in Tasks, Processing(t) PROVE now + 1 <= arrived[t] + ProcessingTimeout
  BY <1>4, <1>7, Allowances DEF Due
<1>8. ASSUME NEW t \in Tasks PROVE asked[t] <= now + 1 /\ arrived[t] <= now + 1
  BY <1>4, <1>8
<1>9. \A t \in Tasks : Processing(t)' <=> Processing(t)
  BY <1>0 DEF Processing
<1>10. \A k : LastSeen(Ttl(k))' = LastSeen(Ttl(k))
  BY DEF Ttl, LastSeen
<1>. QED BY <1>0, <1>1, <1>2, <1>3, <1>5, <1>6, <1>7, <1>8, <1>9, <1>10 DEF PunctualInv

-----------------------------------------------------------------------------
(* The two promises.                                                       *)

\* It holds at first.
LEMMA InitTime == TimedInit => IInv /\ TimeInv
<1>. SUFFICES ASSUME TimedInit PROVE IInv /\ TimeInv
  OBVIOUS
<1>1. IInv
  BY InitInv DEF TimedInit
<1>2. /\ \A k \in CacheKeys : entries[k] = None /\ flight[k] = None
      /\ \A t \in Tasks : pc[t] = "idle" /\ stage[t] = "none"
  BY DEF TimedInit, Init, MokaInit, BlobInit
<1>3. TimesOK
  BY DEF TimedInit, TimesOK
<1>4. PunctualInv
  <2>1. \A k \in PolicyKeys \cup IdentityKeys \cup OwnershipKeys : k \in CacheKeys
    BY DEF CacheKeys
  <2>2. \A k \in CacheKeys : stored[k] <= now
    BY DEF TimedInit
  <2>3. \A t \in Tasks : asked[t] <= now /\ arrived[t] <= now
    <3>1. now = 0 /\ \A t \in Tasks : asked[t] = 0 /\ arrived[t] = 0
      BY DEF TimedInit
    <3>2. 0 <= 0
      OBVIOUS
    <3>. QED BY <3>1, <3>2, Zenon
  <2>. QED BY <1>2, <2>1, <2>2, <2>3, NoneAssumption DEF PunctualInv, Processing
<1>5. ASSUME NEW d \in Dids, NEW c \in Cids PROVE PermissionInv(d, c) /\ HostingInv(d, c)
  <2>1. /\ PolicyKey(d, c) \in CacheKeys /\ IdentityKey(d) \in CacheKeys
        /\ OwnershipKey(d, c) \in CacheKeys
    BY Keys
  <2>2. \A t \in Tasks : ~Cleared(t) /\ ~Vouched(t) /\ ~Reaching(t, d, c)
    BY <1>2 DEF Cleared, Vouched, Reaching
  <2>3. <<None, d, c>> \notin holds
    BY <1>1, HostsHold
  <2>. QED BY <1>2, <2>1, <2>2, <2>3, NoneAssumption, NoneIsNoAnswer DEF PermissionInv, HostingInv
<1>. QED BY <1>1, <1>3, <1>4, <1>5 DEF TimeInv

\* Every step keeps it, of the server and of the clock.
LEMMA StepsKeepTime == IInv /\ TimeInv /\ [Untimed \/ Tick]_timedVars => IInv' /\ TimeInv'
<1>. SUFFICES ASSUME IInv, TimeInv, [Untimed \/ Tick]_timedVars PROVE IInv' /\ TimeInv'
  OBVIOUS
<1>1. CASE Untimed
  <2>1. IInv'
    BY <1>1, NextKeepsInv DEF Untimed
  <2>2. TimesOK' /\ PunctualInv'
    BY <1>1, TimesStayOK, PunctualStays DEF TimeInv
  <2>. QED BY <1>1, <2>1, <2>2, PermissionStays, HostingStays DEF TimeInv, Binding
<1>2. CASE Tick
  <2>1. UNCHANGED <<flight, inbox, wire, holds, blobVars, handlerVars, asked, arrived, gone>>
    BY <1>2 DEF Tick, Invalidate, upstreamVars, worldVars
  <2>2. \A k \in CacheKeys : entries'[k] # None => entries'[k] = entries[k] /\ stored'[k] = stored[k]
    BY <1>2, OnlyTheExpiredGo
  <2>3. \A d \in Dids, c \in Cids : (Binding => PermissionInv(d, c)') /\ HostingInv(d, c)'
    BY <2>1, <2>2, NobodyTold
  <2>. QED BY <1>2, <2>3, TickKeepsInv, TickIsPunctual DEF TimeInv, Binding
<1>3. CASE UNCHANGED timedVars
  <2>1. UNCHANGED <<flight, inbox, wire, holds, blobVars, handlerVars, asked, arrived, gone,
                    entries, stored, now, vars>>
    BY <1>3 DEF timedVars, clockVars, vars, mokaVars, upstreamVars, worldVars
  <2>2. IInv'
    BY <2>1, NextKeepsInv
  <2>3. \A d \in Dids, c \in Cids : (Binding => PermissionInv(d, c)') /\ HostingInv(d, c)'
    BY <2>1, NobodyTold
  <2>4. TimesOK' /\ PunctualInv'
    BY <2>1 DEF TimeInv, TimesOK, PunctualInv, Processing, Ttl, LastSeen, handlerVars
  <2>. QED BY <2>2, <2>3, <2>4 DEF TimeInv, Binding
<1>. QED BY <1>1, <1>2, <1>3

\* The server in time keeps the invariant of its tasks and caches, and is punctual.
THEOREM TimedInvariance == TimedSpec => [](IInv /\ TimeInv)
BY InitTime, StepsKeepTime, PTL DEF TimedSpec

\* Who answers 200 was told of the permission and of the hosting, in time.
LEMMA ServedInTime ==
    ASSUME IInv, TimeInv, [Untimed \/ Tick]_timedVars, NEW t \in Tasks,
           NEW p \in Pairs, resp[t] = 0, resp'[t] = 200, p = PairOf(t)
    PROVE  /\ now \in Nat /\ arrived[t] \in Nat /\ now <= arrived[t] + ProcessingTimeout
           /\ Binding => By(arrived[t], <<"allowed", p>>, PolicySeen)
           /\ By(arrived[t], <<"hosted", p>>, OwnershipSeen)
           /\ \A f \in Facts : gone[f] # None => gone[f] \in Nat
<1>1. Untimed
  BY DEF Tick, timedVars, vars, handlerVars
<1>2. Vouched(t) /\ Cleared(t) /\ Processing(t)
  <2>1. TaskStep(t)
    BY <1>1, StillOrSteps DEF Untimed, Still
  <2>2. pc[t] = "metadata" \/ (pc[t] = "owner" /\ stage[t] = "none" /\ Succeeded(t))
    BY <2>1, HandlersMove
  <2>. QED BY <2>2 DEF Vouched, Cleared, Processing
<1>3. PICK d \in Dids, c \in Cids : p = <<d, c>>
  BY DEF Pairs
<1>4. By(arrived[t], Hosting(d, c), OwnershipSeen)
  <2>1. HostingInv(d, c) /\ PairOf(t) = <<d, c>>
    BY <1>3 DEF TimeInv
  <2>. QED BY <1>2, <2>1 DEF HostingInv
<1>5. Binding => By(arrived[t], Permission(d, c), PolicySeen)
  <2>1. (Binding => PermissionInv(d, c)) /\ PairOf(t) = <<d, c>>
    BY <1>3 DEF TimeInv
  <2>. QED BY <1>2, <2>1 DEF PermissionInv
<1>6. now <= arrived[t] + ProcessingTimeout
  BY <1>2 DEF TimeInv, PunctualInv
<1>. QED BY <1>3, <1>4, <1>5, <1>6 DEF TimeInv, TimesOK, Hosting, Permission

\* What the policy service forbids is not served longer than one exchange, one time
\* to live and one request add up to, whatever races it.
THEOREM ForbidsSoon == TimedSpec => ForbiddenSoon
<1>1. IInv /\ TimeInv /\ [Untimed \/ Tick]_timedVars =>
        [PolicyConfigured /\ ~PolicyFailOpen =>
           \A t \in Tasks, p \in Pairs :
             ~ServesStale(t, <<"allowed", p>>,
                          PolicyTimeout + LastSeen(PolicyTtl) + ProcessingTimeout)]_timedVars
  <2>. SUFFICES ASSUME IInv, TimeInv, [Untimed \/ Tick]_timedVars, PolicyConfigured /\ ~PolicyFailOpen,
                       NEW t \in Tasks, NEW p \in Pairs,
                       ServesStale(t, <<"allowed", p>>,
                                   PolicyTimeout + LastSeen(PolicyTtl) + ProcessingTimeout)
                PROVE  FALSE
    OBVIOUS
  <2>. DEFINE f == <<"allowed", p>>
  <2>1. /\ resp[t] = 0 /\ resp'[t] = 200 /\ p = PairOf(t) /\ f \in Facts
        /\ gone[f] # None /\ now > gone[f] + (PolicySeen + ProcessingTimeout)
    BY DEF ServesStale, PairOf, Facts, PolicySeen
  <2>2. /\ now \in Nat /\ arrived[t] \in Nat /\ gone[f] \in Nat
        /\ now <= arrived[t] + ProcessingTimeout /\ By(arrived[t], f, PolicySeen)
    BY <2>1, ServedInTime DEF Binding
  <2>. HIDE DEF f
  <2>. QED BY <2>1, <2>2, Allowances DEF By
<1>. QED BY <1>1, TimedInvariance, PTL DEF TimedSpec, ForbiddenSoon

\* A blob that the actor's host has not is not served longer than the lifetimes of
\* the identity and of the ownership it brings in add up to.
THEOREM UnhostsSoon == TimedSpec => UnhostedSoon
<1>1. IInv /\ TimeInv /\ [Untimed \/ Tick]_timedVars =>
        [\A t \in Tasks, p \in Pairs :
           ~ServesStale(t, <<"hosted", p>>,
                        IdentityTimeout + LastSeen(IdentityTtl) + ProcessingTimeout
                        + LastSeen(OwnershipTtl) + ProcessingTimeout)]_timedVars
  <2>. SUFFICES ASSUME IInv, TimeInv, [Untimed \/ Tick]_timedVars,
                       NEW t \in Tasks, NEW p \in Pairs,
                       ServesStale(t, <<"hosted", p>>,
                                   IdentityTimeout + LastSeen(IdentityTtl) + ProcessingTimeout
                                   + LastSeen(OwnershipTtl) + ProcessingTimeout)
                PROVE  FALSE
    OBVIOUS
  <2>. DEFINE f == <<"hosted", p>>
  <2>1. /\ resp[t] = 0 /\ resp'[t] = 200 /\ p = PairOf(t) /\ f \in Facts
        /\ gone[f] # None /\ now > gone[f] + (OwnershipSeen + ProcessingTimeout)
    BY DEF ServesStale, PairOf, Facts, OwnershipSeen, OwnershipTold, IdentitySeen
  <2>2. /\ now \in Nat /\ arrived[t] \in Nat /\ gone[f] \in Nat
        /\ now <= arrived[t] + ProcessingTimeout /\ By(arrived[t], f, OwnershipSeen)
    BY <2>1, ServedInTime
  <2>. HIDE DEF f
  <2>. QED BY <2>1, <2>2, Allowances DEF By
<1>. QED BY <1>1, TimedInvariance, PTL DEF TimedSpec, UnhostedSoon
=============================================================================
