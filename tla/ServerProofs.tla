---------------------------- MODULE ServerProofs ----------------------------
(***************************************************************************)
(* Proofs about the server, for any number of requests, actors, blobs,     *)
(* hosts and purges.  One inductive invariant carries all of them.         *)
(***************************************************************************)
EXTENDS ServerProperties, TLAPS

-----------------------------------------------------------------------------
(* The inductive invariant.  For each task it ties the caches' bookkeeping  *)
(* (what the task leads, waits for, was delivered) to where the handler is. *)

Working == {"policy", "data", "owner"}
Binding == PolicyConfigured /\ ~PolicyFailOpen

\* t leads at most the load its handler waits for, and inside that the load of
\* its actor's identity.
LeadInv(t) ==
    \A k \in CacheKeys : flight[k] = t =>
        /\ pc[t] \in Working
        /\ k = MainKey(t) \/ (stage[t] = "pds" /\ k = IdentityKey(req[t].did))

\* The init future of t runs exactly while t leads that load.
StageInv(t) ==
    /\ stage[t] # "none" => pc[t] \in {"data", "owner"} /\ flight[MainKey(t)] = t
    /\ stage[t] = "none" /\ pc[t] \in {"data", "owner"} => flight[MainKey(t)] # t
    /\ stage[t] \in {"own", "ret"} =>
         pc[t] = "data" /\ bytes[t] \in Verified(req[t].cid) /\ PairOf(t) \in vouched

WaitInv(t) ==
    parked[t] # None =>
        /\ pc[t] \in Working
        /\ stage[t] \in {"none", "pds"}
        /\ parked[t] = AwaitedKey(t)
        /\ flight[parked[t]] \in Tasks \ {t}
        /\ inbox[t] = None

InboxInv(t) ==
    inbox[t] # None =>
        /\ pc[t] \in Working
        /\ stage[t] \in {"none", "pds"}
        /\ flight[AwaitedKey(t)] # t
        /\ inbox[t].tag = "ok" => Authentic(AwaitedKey(t), inbox[t].val)

\* An answer travels only to the leader that asked, and bears out what it says.
WireInv(t) ==
    wire[t] # None =>
        /\ pc[t] \in Working
        /\ stage[t] \in {"none", "pds", "get"}
        /\ flight[AwaitedKey(t)] = t
        /\ pc[t] = "policy" /\ wire[t] = "allowed" => PairOf(t) \in permitted
        /\ stage[t] = "get" /\ pc[t] = "data" =>
             \/ wire[t] \in {"notFound", "refused", "lost", "cut"}
             \/ wire[t] \in Bodies /\ PairOf(t) \in vouched
        /\ stage[t] = "get" /\ pc[t] = "owner" =>
             \/ wire[t] \in {"notFound", "refused", "lost"}
             \/ wire[t] = "owned" /\ PairOf(t) \in vouched

\* What the handler of t has established so far.
HandlerInv(t) ==
    /\ pc[t] = "idle" => req[t] = None
    /\ pc[t] # "done" => resp[t] = 0
    /\ pc[t] \notin {"idle", "done"} => req[t] \in Requests
    /\ Binding /\ pc[t] \in {"data", "owner", "metadata"} => PairOf(t) \in permitted
    /\ pc[t] \in {"owner", "metadata"} => blob[t] \in Verified(req[t].cid)
    /\ pc[t] = "metadata" => PairOf(t) \in vouched
    /\ Served(t) =>
         /\ req[t] \in Requests
         /\ blob[t] \in Verified(req[t].cid)
         /\ PairOf(t) \in vouched
         /\ Binding => PairOf(t) \in permitted

TaskInv(t) ==
    LeadInv(t) /\ StageInv(t) /\ WaitInv(t) /\ InboxInv(t) /\ WireInv(t) /\ HandlerInv(t)

IInv == TypeOK /\ CachesAuthentic /\ \A t \in Tasks : TaskInv(t)

-----------------------------------------------------------------------------
(* Facts about keys.                                                       *)

\* The four kinds of keys are disjoint, and a key says what it is about.
LEMMA Keys ==
    /\ \A d \in Dids, c \in Cids :
         /\ PolicyKey(d, c) \in CacheKeys \cap PolicyKeys
         /\ PolicyKey(d, c) \notin IdentityKeys \cup DataKeys \cup OwnershipKeys
         /\ PolicyKey(d, c)[2] = d /\ PolicyKey(d, c)[3] = c
         /\ OwnershipKey(d, c) \in CacheKeys \cap OwnershipKeys
         /\ OwnershipKey(d, c) \notin PolicyKeys \cup IdentityKeys \cup DataKeys
         /\ OwnershipKey(d, c)[2] = d /\ OwnershipKey(d, c)[3] = c
    /\ \A d \in Dids :
         /\ IdentityKey(d) \in CacheKeys \cap IdentityKeys
         /\ IdentityKey(d) \notin PolicyKeys \cup DataKeys \cup OwnershipKeys
    /\ \A c \in Cids :
         /\ DataKey(c) \in CacheKeys \cap DataKeys
         /\ DataKey(c) \notin PolicyKeys \cup IdentityKeys \cup OwnershipKeys
         /\ DataKey(c)[3] = c
BY DEF PolicyKey, OwnershipKey, IdentityKey, DataKey, CacheKeys,
       PolicyKeys, OwnershipKeys, IdentityKeys, DataKeys

\* Keys of different kinds differ.
LEMMA KeysDiffer ==
    \A d, e, c, b :
        /\ PolicyKey(d, c) # IdentityKey(e) /\ PolicyKey(d, c) # DataKey(b)
        /\ OwnershipKey(d, c) # IdentityKey(e) /\ DataKey(c) # IdentityKey(e)
        /\ PolicyKey(d, c) # OwnershipKey(e, b) /\ DataKey(c) # OwnershipKey(e, b)
BY DEF PolicyKey, OwnershipKey, IdentityKey, DataKey

\* What an authentic entry under each kind of key means.
LEMMA AuthenticByKey ==
    /\ \A d \in Dids, c \in Cids : \A v :
         Authentic(PolicyKey(d, c), v) <=>
             v \in Decisions /\ (v = "Allowed" => <<d, c>> \in permitted)
    /\ \A d \in Dids : \A v : Authentic(IdentityKey(d), v) <=> v \in DomainHosts
    /\ \A c \in Cids : \A v : Authentic(DataKey(c), v) <=> v \in Verified(c)
    /\ \A d \in Dids, c \in Cids : \A v :
         Authentic(OwnershipKey(d, c), v) <=> v = "owned" /\ <<d, c>> \in vouched
BY Keys DEF Authentic

\* The keys of a request are keys of the caches.
LEMMA RequestKeys ==
    ASSUME NEW r \in Requests
    PROVE  /\ r.did \in Dids /\ r.cid \in Cids
           /\ PolicyKey(r.did, r.cid) \in CacheKeys
           /\ DataKey(r.cid) \in CacheKeys
           /\ OwnershipKey(r.did, r.cid) \in CacheKeys
           /\ IdentityKey(r.did) \in CacheKeys
<1>1. r.did \in Dids /\ r.cid \in Cids
  BY RequestAssumption
<1>. QED BY <1>1, Keys

\* The keys a task looks up and waits for are keys of the caches.
LEMMA TaskKeys ==
    ASSUME NEW t \in Tasks, req[t] \in Requests
    PROVE  MainKey(t) \in CacheKeys /\ AwaitedKey(t) \in CacheKeys
BY RequestKeys DEF MainKey, AwaitedKey

-----------------------------------------------------------------------------
(* A step of one task, as the others see it.                               *)

LocalsKept(u) ==
    /\ pc'[u] = pc[u] /\ req'[u] = req[u] /\ blob'[u] = blob[u] /\ resp'[u] = resp[u]
    /\ stage'[u] = stage[u] /\ bytes'[u] = bytes[u] /\ wire'[u] = wire[u]

SaidGrows == vouched \subseteq vouched' /\ permitted \subseteq permitted'

\* u leads what it led, and either waits on as before or is woken, in which case
\* a success it is told is authentic under the key it was parked on.
MokaFrame(u) ==
    /\ \A k \in CacheKeys : flight'[k] = u <=> flight[k] = u
    /\ \/ /\ parked'[u] = parked[u] /\ inbox'[u] = inbox[u]
          /\ parked[u] # None => flight'[parked[u]] \in Tasks \ {u}
       \/ /\ parked[u] # None /\ parked'[u] = None
          /\ inbox'[u].tag = "ok" => Authentic(parked[u], inbox'[u].val)

\* What was authentic stays so while the upstreams only say more.
LEMMA AuthenticStays ==
    ASSUME SaidGrows, NEW k, NEW v, Authentic(k, v)
    PROVE  Authentic(k, v)'
BY DEF Authentic, SaidGrows, Verified

\* The invariant of a task survives a step of another one.
LEMMA OthersKeepInv ==
    ASSUME NEW u \in Tasks, TaskInv(u), LocalsKept(u), SaidGrows, MokaFrame(u)
    PROVE  TaskInv(u)'
<1>. USE DEF LocalsKept
<1>1. MainKey(u)' = MainKey(u) /\ AwaitedKey(u)' = AwaitedKey(u) /\ PairOf(u)' = PairOf(u)
  BY DEF MainKey, AwaitedKey, PairOf
<1>2. pc[u] \in Working => MainKey(u) \in CacheKeys /\ AwaitedKey(u) \in CacheKeys
  BY TaskKeys DEF TaskInv, HandlerInv, Working
<1>3. LeadInv(u)'
  BY <1>1 DEF TaskInv, LeadInv, MokaFrame
<1>4. StageInv(u)'
  BY <1>1, <1>2 DEF TaskInv, StageInv, MokaFrame, SaidGrows, Working, Verified
<1>5. WaitInv(u)'
  BY <1>1 DEF TaskInv, WaitInv, MokaFrame
<1>6. InboxInv(u)'
  <2>1. CASE parked'[u] = parked[u] /\ inbox'[u] = inbox[u]
    BY <2>1, <1>1, <1>2, AuthenticStays DEF TaskInv, InboxInv, MokaFrame
  <2>2. CASE /\ parked[u] # None /\ parked'[u] = None
             /\ inbox'[u].tag = "ok" => Authentic(parked[u], inbox'[u].val)
    <3>1. /\ pc[u] \in Working /\ stage[u] \in {"none", "pds"}
          /\ parked[u] = AwaitedKey(u) /\ flight[AwaitedKey(u)] # u
      BY <2>2 DEF TaskInv, WaitInv
    <3>2. flight'[AwaitedKey(u)] # u
      BY <3>1, <1>2 DEF MokaFrame
    <3>. QED BY <2>2, <3>1, <3>2, <1>1, AuthenticStays DEF InboxInv
  <2>. QED BY <2>1, <2>2 DEF MokaFrame
<1>7. WireInv(u)'
  BY <1>1, <1>2 DEF TaskInv, WireInv, MokaFrame, SaidGrows
<1>8. HandlerInv(u)'
  BY <1>1 DEF TaskInv, HandlerInv, SaidGrows, Served, Verified, Binding
<1>. QED BY <1>3, <1>4, <1>5, <1>6, <1>7, <1>8 DEF TaskInv

-----------------------------------------------------------------------------
(* What the operations of the caches do to the tasks that do not call them. *)

\* A look-up of one task leads, wakes and stores nothing for another.
LEMMA LookUpFrame ==
    ASSUME MokaTypeOK, NEW t \in Tasks, NEW u \in Tasks \ {t}, NEW k \in CacheKeys,
           WaitInv(u), LookUp(t, k)
    PROVE  MokaFrame(u)
<1>. USE NoneAssumption, NoneIsNothing DEF MokaTypeOK, WaitInv, MokaFrame
<1>1. CASE Hit(t, k)
  BY <1>1 DEF Hit
<1>2. CASE Park(t, k)
  BY <1>2 DEF Park
<1>3. CASE Lead(t, k)
  BY <1>3 DEF Lead
<1>. QED BY <1>1, <1>2, <1>3 DEF LookUp

\* Nor does taking an outcome.
LEMMA ConsumeFrame ==
    ASSUME MokaTypeOK, NEW t \in Tasks, NEW u \in Tasks \ {t}, WaitInv(u), Consume(t)
    PROVE  MokaFrame(u)
BY DEF MokaTypeOK, WaitInv, MokaFrame, Consume

\* A load that returns wakes those parked on it, with an authentic outcome, and no other.
LEMMA ResolveFrame ==
    ASSUME MokaTypeOK, NEW t \in Tasks, NEW u \in Tasks \ {t}, NEW k \in CacheKeys, NEW o,
           WaitInv(u), Resolve(t, k, o), o.tag = "ok" => Authentic(k, o.val)
    PROVE  MokaFrame(u)
<1>. USE NoneAssumption, NoneIsNothing DEF MokaTypeOK, WaitInv, MokaFrame, Resolve
<1>1. CASE parked[u] = k
  BY <1>1
<1>2. CASE parked[u] # k
  BY <1>2
<1>. QED BY <1>1, <1>2

\* A dropped task wakes those parked on its loads, with nothing to believe.
LEMMA DropFrame ==
    ASSUME MokaTypeOK, NEW t \in Tasks, NEW u \in Tasks \ {t}, WaitInv(u), DropFuture(t)
    PROVE  MokaFrame(u)
<1>. USE NoneAssumption, NoneIsNothing DEF MokaTypeOK, WaitInv, MokaFrame, DropFuture, Aborted
<1>1. CASE parked[u] # None /\ flight[parked[u]] = t
  BY <1>1
<1>2. CASE ~(parked[u] # None /\ flight[parked[u]] = t)
  BY <1>2
<1>. QED BY <1>1, <1>2

\* Nobody is parked or delivered anything by the other operations.
LEMMA EntriesFrame ==
    ASSUME NEW u \in Tasks, WaitInv(u), UNCHANGED <<flight, parked, inbox>>
    PROVE  MokaFrame(u)
BY DEF WaitInv, MokaFrame

-----------------------------------------------------------------------------
(* What they do to the entries.                                            *)

\* A step that stores nothing, or only what is authentic.
LEMMA EntriesStayAuthentic ==
    ASSUME CachesAuthentic, SaidGrows,
           \A k \in CacheKeys : \/ entries'[k] \in {entries[k], None}
                                \/ Authentic(k, entries'[k])
    PROVE  CachesAuthentic'
BY AuthenticStays DEF CachesAuthentic

\* A load stores what is authentic under its key, or nothing.
LEMMA ResolveEntries ==
    ASSUME MokaTypeOK, CachesAuthentic, SaidGrows,
           NEW t \in Tasks, NEW k \in CacheKeys, NEW o \in Outcomes,
           Resolve(t, k, o), o.tag = "ok" => Authentic(k, o.val)
    PROVE  CachesAuthentic' /\ MokaTypeOK'
<1>1. \A j \in CacheKeys : entries'[j] = entries[j] \/ Authentic(j, entries'[j])
  BY DEF Resolve, MokaTypeOK
<1>2. CachesAuthentic'
  BY <1>1, EntriesStayAuthentic
<1>3. o.tag = "ok" => o.val \in Values
  BY DEF Outcomes, Ok, Err, Aborted
<1>4. MokaTypeOK'
  BY <1>3 DEF Resolve, MokaTypeOK
<1>. QED BY <1>2, <1>4

\* A look-up keeps the types of the caches.
LEMMA LookUpTypes ==
    ASSUME MokaTypeOK, NEW t \in Tasks, NEW k \in CacheKeys, LookUp(t, k)
    PROVE  MokaTypeOK' /\ entries' = entries
<1>1. CASE Hit(t, k)
  <2>1. Ok(entries[k]) \in Outcomes
    BY <1>1 DEF Hit, MokaTypeOK, Outcomes
  <2>. QED BY <1>1, <2>1 DEF Hit, MokaTypeOK
<1>2. CASE Park(t, k)
  BY <1>2 DEF Park, MokaTypeOK
<1>3. CASE Lead(t, k)
  BY <1>3 DEF Lead, MokaTypeOK
<1>. QED BY <1>1, <1>2, <1>3 DEF LookUp

\* So does a drop.
LEMMA DropTypes ==
    ASSUME MokaTypeOK, NEW t \in Tasks, DropFuture(t)
    PROVE  MokaTypeOK' /\ entries' = entries
<1>1. Aborted \in Outcomes
  BY DEF Outcomes
<1>. QED BY <1>1 DEF DropFuture, MokaTypeOK

-----------------------------------------------------------------------------
(* The task that steps.                                                    *)

\* The invariant, from what a step of t does to t and to the others.
LEMMA StepOfTask ==
    ASSUME IInv, NEW t \in Tasks, SaidGrows, TypeOK', CachesAuthentic', TaskInv(t)',
           \A u \in Tasks \ {t} : LocalsKept(u) /\ MokaFrame(u)
    PROVE  IInv'
<1>1. ASSUME NEW u \in Tasks \ {t} PROVE TaskInv(u)'
  BY OthersKeepInv DEF IInv
<1>. QED BY <1>1 DEF IInv

\* A task that looks its key up has no answer on the way, and afterwards leads
\* the load, waits for its leader, or has an authentic entry.
LEMMA CallerAfterLookUp ==
    ASSUME IInv, NEW t \in Tasks, req[t] \in Requests, LookUp(t, AwaitedKey(t))
    PROVE  /\ wire[t] = None
           /\ flight[AwaitedKey(t)] # t
           /\ \A j \in CacheKeys :
                flight'[j] = t <=> flight[j] = t \/ (j = AwaitedKey(t) /\ flight'[AwaitedKey(t)] = t)
           /\ parked'[t] # None => /\ parked'[t] = AwaitedKey(t)
                                   /\ flight'[AwaitedKey(t)] \in Tasks \ {t}
                                   /\ inbox'[t] = None
           /\ inbox'[t] # None =>
                /\ flight'[AwaitedKey(t)] # t
                /\ inbox'[t].tag = "ok" => Authentic(AwaitedKey(t), inbox'[t].val)
<1>. DEFINE k == AwaitedKey(t)
<1>1. k \in CacheKeys
  BY TaskKeys
<1>2. MokaTypeOK /\ CachesAuthentic /\ WireInv(t)
  BY DEF IInv, TypeOK, TaskInv
<1>3. MayLookUp(t, k)
  BY DEF LookUp, Hit, Park, Lead
<1>4. flight[k] # t /\ wire[t] = None
  BY <1>2, <1>3 DEF MayLookUp, WireInv
<1>. HIDE DEF k
<1>5. CASE Hit(t, k)
  BY <1>1, <1>2, <1>3, <1>4, <1>5, NoneAssumption DEF Hit, MayLookUp, MokaTypeOK, CachesAuthentic, Ok, k
<1>6. CASE Park(t, k)
  BY <1>1, <1>2, <1>3, <1>4, <1>6, NoneAssumption DEF Park, MayLookUp, MokaTypeOK, k
<1>7. CASE Lead(t, k)
  BY <1>1, <1>2, <1>3, <1>4, <1>7, NoneAssumption DEF Lead, MayLookUp, MokaTypeOK, k
<1>. QED BY <1>5, <1>6, <1>7 DEF LookUp, k

\* A look-up that changes nothing but the caches keeps the caller's invariant.
LEMMA LookUpKeepsInv ==
    ASSUME IInv, NEW t \in Tasks, pc[t] = "policy" \/ stage[t] = "pds", req[t] \in Requests,
           LookUp(t, AwaitedKey(t)), UNCHANGED <<upstreamVars, blobVars, purgeVars, handlerVars, historyVars>>
    PROVE  IInv'
<1>. USE DEF upstreamVars, worldVars, saidVars, blobVars, purgeVars, handlerVars, historyVars
<1>0. TaskInv(t)
  BY DEF IInv
<1>1. /\ MainKey(t)' = MainKey(t) /\ AwaitedKey(t)' = AwaitedKey(t) /\ PairOf(t)' = PairOf(t)
      /\ MainKey(t) \in CacheKeys /\ AwaitedKey(t) \in CacheKeys
  BY TaskKeys DEF MainKey, AwaitedKey, PairOf
<1>2. pc[t] \in Working /\ stage[t] \in {"none", "pds"}
  BY <1>0 DEF TaskInv, StageInv, Working, IInv, TypeOK, HandlersTypeOK
<1>3. SaidGrows
  BY DEF SaidGrows
<1>4. MokaTypeOK' /\ entries' = entries
  BY <1>1, LookUpTypes DEF IInv, TypeOK
<1>5. TypeOK'
  BY <1>4 DEF IInv, TypeOK, UpstreamsTypeOK, HandlersTypeOK, PurgesTypeOK
<1>6. CachesAuthentic'
  BY <1>3, <1>4, EntriesStayAuthentic DEF IInv
<1>7. ASSUME NEW u \in Tasks \ {t} PROVE LocalsKept(u) /\ MokaFrame(u)
  BY <1>1, LookUpFrame DEF IInv, TypeOK, TaskInv, LocalsKept
<1>8. TaskInv(t)'
  <2>1. LeadInv(t)'
    BY <1>0, <1>1, <1>2, CallerAfterLookUp DEF TaskInv, LeadInv, AwaitedKey
  <2>2. StageInv(t)'
    BY <1>0, <1>1, <1>2, CallerAfterLookUp DEF TaskInv, StageInv, Verified
  <2>3. WaitInv(t)'
    BY <1>1, <1>2, CallerAfterLookUp DEF WaitInv
  <2>4. InboxInv(t)'
    BY <1>1, <1>2, <1>3, CallerAfterLookUp, AuthenticStays DEF InboxInv
  <2>5. WireInv(t)'
    BY CallerAfterLookUp DEF WireInv
  <2>6. HandlerInv(t)'
    BY <1>0, <1>1 DEF TaskInv, HandlerInv, Served, Verified, Binding
  <2>. QED BY <2>1, <2>2, <2>3, <2>4, <2>5, <2>6 DEF TaskInv
<1>. QED BY <1>3, <1>5, <1>6, <1>7, <1>8, StepOfTask

-----------------------------------------------------------------------------
(* What the services make of an answer.                                    *)

\* A decision is one of two, and allows only what the service has permitted.
LEMMA PolicyOutcomes ==
    ASSUME NEW a
    PROVE  /\ PolicyOutcome(a) \in Outcomes
           /\ PolicyOutcome(a).tag = "ok" =>
                /\ PolicyOutcome(a).val \in Decisions
                /\ PolicyOutcome(a).val = "Allowed" => a = "allowed"
<1>1. CASE a = "allowed"
  <2>1. PolicyOutcome(a) = Ok("Allowed")
    BY <1>1 DEF PolicyOutcome
  <2>. QED BY <1>1, <2>1 DEF Ok, Outcomes, Values, Decisions
<1>2. CASE a = "forbidden"
  <2>1. PolicyOutcome(a) = Ok("Forbidden")
    BY <1>2 DEF PolicyOutcome
  <2>. QED BY <1>2, <2>1 DEF Ok, Outcomes, Values, Decisions
<1>3. CASE a \notin {"allowed", "forbidden"}
  <2>1. PolicyOutcome(a) \in {Err("StatusCode"), Err("Deserialize"), Err("HttpClient")}
    BY <1>3 DEF PolicyOutcome
  <2>. QED BY <2>1 DEF Err, Outcomes, Errors
<1>. QED BY <1>1, <1>2, <1>3

\* A resolution yields a host with a domain name, or an error.
LEMMA PdsOutcomes ==
    ASSUME NEW a
    PROVE  /\ PdsOutcome(a) \in Outcomes
           /\ PdsOutcome(a).tag = "ok" => PdsOutcome(a).val \in DomainHosts
BY HostAssumption DEF PdsOutcome, Ok, Err, Outcomes, Values, Errors

\* fetch_blob accepts only bytes it has verified, and no failure is taken for them.
LEMMA DownloadOutcomes ==
    ASSUME NEW c, NEW a, a \in {"notFound", "refused", "lost", "cut"} \/ a \in Bodies
    PROVE  /\ DownloadOutcome(c, a) \in Outcomes
           /\ DownloadOutcome(c, a).tag \in {"ok", "err"}
           /\ DownloadOutcome(c, a).tag = "ok" =>
                /\ DownloadOutcome(c, a).val \in Verified(c)
                /\ a \notin {"notFound", "refused", "lost", "cut"}
<1>. DEFINE codes == {"NotFound", "ErrorStatusCode", "FetchFailure", "StreamFailed",
                      "TooLarge", "CidMismatch", "ForbiddenMimeType"}
<1>1. CASE a \in {"notFound", "refused", "lost", "cut"}
  <2>1. DownloadOutcome(c, a) \in {Err(e) : e \in codes}
    BY <1>1 DEF DownloadOutcome
  <2>. QED BY <2>1 DEF Err, Outcomes, Errors
<1>2. CASE a \notin {"notFound", "refused", "lost", "cut"} /\ a \in Verified(c)
  <2>1. DownloadOutcome(c, a) = Ok(a)
    BY <1>2 DEF DownloadOutcome, Verified
  <2>. QED BY <1>2, <2>1 DEF Ok, Outcomes, Values, Verified
<1>3. CASE a \notin {"notFound", "refused", "lost", "cut"} /\ a \notin Verified(c)
  <2>1. a \notin CappedBodies \/ Digest[a] # c \/ a \notin AllowedBodies
    BY <1>3 DEF Verified
  <2>2. DownloadOutcome(c, a) \in {Err(e) : e \in codes}
    BY <1>3, <2>1 DEF DownloadOutcome
  <2>. QED BY <2>2 DEF Err, Outcomes, Errors
<1>. QED BY <1>1, <1>2, <1>3

\* Ownership is granted on a 2xx answer only.
LEMMA OwnershipOutcomes ==
    ASSUME NEW a
    PROVE  /\ OwnershipOutcome(a) \in Outcomes
           /\ OwnershipOutcome(a).tag = "ok" => OwnershipOutcome(a).val = "owned" /\ a = "owned"
<1>1. CASE a = "owned"
  <2>1. OwnershipOutcome(a) = Ok("owned")
    BY <1>1 DEF OwnershipOutcome
  <2>. QED BY <1>1, <2>1 DEF Ok, Outcomes, Values
<1>2. CASE a # "owned"
  <2>1. OwnershipOutcome(a) \in {Err("NotFound"), Err("ErrorStatusCode"), Err("FetchFailure")}
    BY <1>2 DEF OwnershipOutcome
  <2>. QED BY <2>1 DEF Err, Outcomes, Errors
<1>. QED BY <1>1, <1>2

-----------------------------------------------------------------------------
(* The steps of an exchange, whichever service runs it.                    *)

\* An upstream answers: the wire of the leader that asked, and what the upstreams
\* have said, change.
LEMMA AnswerKeepsInv ==
    ASSUME IInv, NEW t \in Tasks, NEW a \in WireAnswers,
           UNCHANGED <<mokaVars, worldVars, blobVars, purgeVars, handlerVars, historyVars>>,
           wire' = [wire EXCEPT ![t] = a],
           SaidGrows, vouched' \subseteq Dids \X Cids, permitted' \subseteq Dids \X Cids,
           pc[t] \in Working, stage[t] \in {"none", "pds", "get"}, flight[AwaitedKey(t)] = t,
           pc[t] = "policy" /\ a = "allowed" => PairOf(t) \in permitted',
           stage[t] = "get" /\ pc[t] = "data" =>
               a \in {"notFound", "refused", "lost", "cut"} \/ (a \in Bodies /\ PairOf(t) \in vouched'),
           stage[t] = "get" /\ pc[t] = "owner" =>
               a \in {"notFound", "refused", "lost"} \/ (a = "owned" /\ PairOf(t) \in vouched')
    PROVE  IInv'
<1>. USE DEF mokaVars, worldVars, blobVars, purgeVars, handlerVars, historyVars
<1>0. TypeOK /\ TaskInv(t)
  BY DEF IInv
<1>1. /\ wire' \in [Tasks -> WireAnswers \cup {None}]
      /\ wire'[t] = a /\ \A u \in Tasks \ {t} : wire'[u] = wire[u]
  BY <1>0 DEF TypeOK, UpstreamsTypeOK
<1>2. TypeOK'
  BY <1>0, <1>1 DEF TypeOK, MokaTypeOK, UpstreamsTypeOK, HandlersTypeOK, PurgesTypeOK, WireAnswers
<1>3. CachesAuthentic'
  BY EntriesStayAuthentic DEF IInv
<1>4. ASSUME NEW u \in Tasks \ {t} PROVE LocalsKept(u) /\ MokaFrame(u)
  BY <1>1, EntriesFrame DEF IInv, TaskInv, LocalsKept
<1>5. TaskInv(t)'
  <2>1. MainKey(t)' = MainKey(t) /\ AwaitedKey(t)' = AwaitedKey(t) /\ PairOf(t)' = PairOf(t)
    BY DEF MainKey, AwaitedKey, PairOf
  <2>2. WireInv(t)'
    BY <1>1, <2>1 DEF WireInv
  <2>3. LeadInv(t)' /\ WaitInv(t)'
    BY <1>0, <2>1 DEF TaskInv, LeadInv, WaitInv
  <2>4. StageInv(t)'
    BY <1>0, <2>1 DEF TaskInv, StageInv, SaidGrows, Verified
  <2>5. InboxInv(t)'
    BY <1>0, <2>1, AuthenticStays DEF TaskInv, InboxInv
  <2>6. HandlerInv(t)'
    BY <1>0, <2>1 DEF TaskInv, HandlerInv, SaidGrows, Served, Verified, Binding
  <2>. QED BY <2>2, <2>3, <2>4, <2>5, <2>6 DEF TaskInv
<1>. QED BY <1>2, <1>3, <1>4, <1>5, StepOfTask

\* A leader whose handler goes on where it is takes its answer: the load is over,
\* and the outcome is with the leader and with everyone who waited.
LEMMA ResolveKeepsInv ==
    ASSUME IInv, NEW t \in Tasks, NEW o \in Outcomes,
           Receive(t), Resolve(t, AwaitedKey(t), o),
           o.tag = "ok" => Authentic(AwaitedKey(t), o.val),
           pc[t] = "policy" \/ stage[t] = "pds",
           UNCHANGED <<blobVars, purgeVars, handlerVars, historyVars>>
    PROVE  IInv'
<1>. USE DEF worldVars, saidVars, blobVars, purgeVars, handlerVars, historyVars
<1>0. TypeOK /\ CachesAuthentic /\ TaskInv(t)
  BY DEF IInv
<1>1. /\ MainKey(t)' = MainKey(t) /\ AwaitedKey(t)' = AwaitedKey(t) /\ PairOf(t)' = PairOf(t)
      /\ pc[t] \in Working /\ req[t] \in Requests
      /\ stage[t] \in {"none", "pds"} /\ (pc[t] = "policy" => stage[t] = "none")
  BY <1>0 DEF MainKey, AwaitedKey, PairOf, TaskInv, StageInv, HandlerInv, Working, TypeOK, HandlersTypeOK
<1>2. MainKey(t) \in CacheKeys /\ AwaitedKey(t) \in CacheKeys
  BY <1>1, TaskKeys
<1>3. SaidGrows
  BY DEF SaidGrows, Receive
<1>4. MokaTypeOK' /\ CachesAuthentic'
  BY <1>0, <1>2, <1>3, ResolveEntries DEF TypeOK
<1>5. wire'[t] = None /\ \A u \in Tasks \ {t} : wire'[u] = wire[u]
  BY <1>0 DEF Receive, TypeOK, UpstreamsTypeOK
<1>6. TypeOK'
  BY <1>0, <1>4 DEF Receive, TypeOK, UpstreamsTypeOK, HandlersTypeOK, PurgesTypeOK
<1>7. ASSUME NEW u \in Tasks \ {t} PROVE LocalsKept(u) /\ MokaFrame(u)
  BY <1>0, <1>2, <1>5, ResolveFrame DEF IInv, TaskInv, TypeOK, LocalsKept
<1>8. TaskInv(t)'
  <2>1. /\ parked[t] # None => flight[parked[t]] # t
        /\ parked[t] \in {None, AwaitedKey(t)}
        /\ flight[AwaitedKey(t)] = t
    BY <1>0 DEF TaskInv, WaitInv, Resolve
  <2>2. /\ parked'[t] = None /\ inbox'[t] = o
        /\ \A j \in CacheKeys : flight'[j] = t <=> flight[j] = t /\ j # AwaitedKey(t)
    BY <2>1, <1>0, <1>2, NoneAssumption, NoneIsNothing DEF Resolve, TypeOK, MokaTypeOK
  <2>3. LeadInv(t)'
    BY <1>0, <1>1, <2>2 DEF TaskInv, LeadInv
  <2>4. StageInv(t)'
    <3>1. stage[t] = "pds" => MainKey(t) # AwaitedKey(t)
      BY KeysDiffer DEF MainKey, AwaitedKey
    <3>. QED BY <1>0, <1>1, <1>2, <2>2, <3>1 DEF TaskInv, StageInv, Verified, Working
  <2>5. WaitInv(t)' /\ WireInv(t)'
    BY <1>5, <2>2 DEF WaitInv, WireInv
  <2>6. InboxInv(t)'
    BY <1>1, <1>2, <1>3, <2>2, AuthenticStays DEF InboxInv
  <2>7. HandlerInv(t)'
    BY <1>0, <1>1, <1>3 DEF TaskInv, HandlerInv, SaidGrows, Served, Verified, Binding
  <2>. QED BY <2>3, <2>4, <2>5, <2>6, <2>7 DEF TaskInv
<1>. QED BY <1>3, <1>4, <1>6, <1>7, <1>8, StepOfTask

-----------------------------------------------------------------------------
(* The policy client and the identity service.                             *)

\* get_policy keeps the invariant.
LEMMA PolicyClientKeepsInv ==
    ASSUME IInv, NEW t \in Tasks, CallPolicyClient(t)
    PROVE  IInv'
<1>. DEFINE d == req[t].did
            c == req[t].cid
<1>0. TypeOK /\ TaskInv(t)
  BY DEF IInv
<1>1. pc[t] = "policy" /\ UNCHANGED <<blobVars, purgeVars, handlerVars, historyVars>>
  BY DEF CallPolicyClient
<1>2. req[t] \in Requests /\ stage[t] = "none"
  BY <1>0, <1>1 DEF TaskInv, HandlerInv, StageInv
<1>3. AwaitedKey(t) = PolicyKey(d, c) /\ d \in Dids /\ c \in Cids
  BY <1>1, <1>2, RequestKeys DEF AwaitedKey, MainKey
<1>4. CASE GetPolicy(t, d, c)
  BY <1>1, <1>2, <1>3, <1>4, LookUpKeepsInv DEF GetPolicy
<1>5. CASE PolicyQueried(t, d, c)
  <2>1. PICK a \in WireAnswers :
          /\ wire' = [wire EXCEPT ![t] = a]
          /\ permitted' = permitted \cup {<<d, c>>} \/ (permitted' = permitted /\ a # "allowed")
    <3>1. CASE \E f \in Faults \cap {"refused", "garbled", "lost"} :
                 Answer(t, f) /\ UNCHANGED saidVars
      BY <3>1 DEF Answer, saidVars, WireAnswers
    <3>2. CASE /\ Answer(t, verdict[d, c])
               /\ permitted' = IF verdict[d, c] = "allowed"
                               THEN permitted \cup {<<d, c>>} ELSE permitted
      <4>1. verdict[d, c] \in WireAnswers
        BY <1>0, <1>3 DEF TypeOK, UpstreamsTypeOK, WireAnswers
      <4>. QED BY <4>1, <3>2 DEF Answer
    <3>. QED BY <1>5, <3>1, <3>2 DEF PolicyQueried, PolicyServiceAnswers, Fail
  <2>2. vouched' = vouched /\ UNCHANGED <<mokaVars, worldVars>>
    BY <1>5 DEF PolicyQueried, PolicyServiceAnswers, Fail, saidVars
  <2>3. /\ SaidGrows /\ vouched' \subseteq Dids \X Cids /\ permitted' \subseteq Dids \X Cids
        /\ pc[t] = "policy" /\ a = "allowed" => PairOf(t) \in permitted'
    BY <1>0, <1>3, <2>1, <2>2 DEF SaidGrows, PairOf, TypeOK, UpstreamsTypeOK
  <2>4. flight[AwaitedKey(t)] = t /\ pc[t] \in Working
    BY <1>1, <1>3, <1>5 DEF PolicyQueried, Working
  <2>. QED BY <1>1, <1>2, <2>1, <2>2, <2>3, <2>4, AnswerKeepsInv
<1>6. CASE PolicyReceived(t, d, c)
  <2>. DEFINE o == PolicyOutcome(wire[t])
  <2>1. o \in Outcomes
    BY PolicyOutcomes
  <2>2. ASSUME o.tag = "ok" PROVE Authentic(PolicyKey(d, c), o.val)
    <3>1. o.val \in Decisions /\ (o.val = "Allowed" => wire[t] = "allowed")
      BY <2>2, PolicyOutcomes
    <3>2. wire[t] = "allowed" => <<d, c>> \in permitted
      BY <1>0, <1>1, <1>6 DEF TaskInv, WireInv, PolicyReceived, Receive, PairOf
    <3>. QED BY <1>3, <3>1, <3>2, AuthenticByKey
  <2>3. Receive(t) /\ Resolve(t, AwaitedKey(t), o)
    BY <1>3, <1>6 DEF PolicyReceived
  <2>. QED BY <1>1, <1>3, <2>1, <2>2, <2>3, ResolveKeepsInv
<1>. QED BY <1>4, <1>5, <1>6 DEF CallPolicyClient, PolicyClientStep

\* pds_for_did, called from an init future at stage "pds".
LEMMA IdentityKeepsInv ==
    ASSUME IInv, NEW t \in Tasks, stage[t] = "pds", IdentityStep(t, req[t].did),
           UNCHANGED <<blobVars, purgeVars, handlerVars, historyVars>>
    PROVE  IInv'
<1>. DEFINE d == req[t].did
<1>0. TypeOK /\ TaskInv(t)
  BY DEF IInv
<1>1. pc[t] \in {"data", "owner"} /\ req[t] \in Requests
  BY <1>0 DEF TaskInv, StageInv, HandlerInv
<1>2. AwaitedKey(t) = IdentityKey(d) /\ d \in Dids
  BY <1>1, RequestKeys DEF AwaitedKey
<1>3. CASE PdsForDid(t, d)
  BY <1>1, <1>2, <1>3, LookUpKeepsInv DEF PdsForDid
<1>4. CASE DirectoryQueried(t, d)
  <2>1. PICK a \in WireAnswers : wire' = [wire EXCEPT ![t] = a]
    <3>1. pds[d] \in WireAnswers /\ "lost" \in WireAnswers
      BY <1>0, <1>2 DEF TypeOK, UpstreamsTypeOK, WireAnswers
    <3>. QED BY <3>1, <1>4 DEF DirectoryQueried, DirectoryAnswers, Fail, Answer
  <2>2. UNCHANGED <<vouched, permitted, mokaVars, worldVars>>
    BY <1>4 DEF DirectoryQueried, DirectoryAnswers, Fail, saidVars
  <2>3. /\ SaidGrows /\ vouched' \subseteq Dids \X Cids /\ permitted' \subseteq Dids \X Cids
    BY <1>0, <2>2 DEF SaidGrows, TypeOK, UpstreamsTypeOK
  <2>4. flight[AwaitedKey(t)] = t /\ pc[t] \in Working
    BY <1>1, <1>2, <1>4 DEF DirectoryQueried, Working
  <2>. QED BY <1>1, <2>1, <2>2, <2>3, <2>4, AnswerKeepsInv
<1>5. CASE DirectoryReceived(t, d)
  <2>. DEFINE o == PdsOutcome(wire[t])
  <2>1. o \in Outcomes /\ (o.tag = "ok" => Authentic(IdentityKey(d), o.val))
    BY <1>2, PdsOutcomes, AuthenticByKey
  <2>2. Receive(t) /\ Resolve(t, AwaitedKey(t), o)
    BY <1>2, <1>5 DEF DirectoryReceived
  <2>. QED BY <1>2, <2>1, <2>2, ResolveKeepsInv
<1>. QED BY <1>3, <1>4, <1>5 DEF IdentityStep

-----------------------------------------------------------------------------
(* The blob service.                                                       *)

\* try_get_with under the handler's own key: whoever leads starts to resolve the
\* host.
LEMMA FetchKeepsInv ==
    ASSUME IInv, NEW t \in Tasks, pc[t] \in {"data", "owner"}, Fetch(t, MainKey(t)),
           UNCHANGED <<purgeVars, handlerVars, historyVars>>
    PROVE  IInv'
<1>. USE DEF upstreamVars, worldVars, saidVars, purgeVars, handlerVars, historyVars
<1>0. TypeOK /\ CachesAuthentic /\ TaskInv(t)
  BY DEF IInv
<1>1. /\ stage[t] = "none" /\ LookUp(t, MainKey(t))
      /\ UNCHANGED <<host, bytes, upstreamVars>>
      /\ \/ stage' = [stage EXCEPT ![t] = "pds"] /\ Lead(t, MainKey(t))
         \/ stage' = stage /\ (Hit(t, MainKey(t)) \/ Park(t, MainKey(t)))
  BY DEF Fetch, LookUp, blobVars
<1>2. /\ req[t] \in Requests /\ AwaitedKey(t) = MainKey(t) /\ MainKey(t) \in CacheKeys
      /\ IdentityKey(req[t].did) # MainKey(t) /\ IdentityKey(req[t].did) \in CacheKeys
  <2>1. req[t] \in Requests
    BY <1>0 DEF TaskInv, HandlerInv
  <2>. QED BY <1>1, <2>1, TaskKeys, RequestKeys, KeysDiffer DEF AwaitedKey, MainKey
<1>3. SaidGrows
  BY <1>1 DEF SaidGrows
<1>4. MokaTypeOK' /\ entries' = entries
  BY <1>0, <1>1, <1>2, LookUpTypes DEF TypeOK
<1>5. TypeOK'
  BY <1>0, <1>1, <1>4 DEF TypeOK, UpstreamsTypeOK, HandlersTypeOK, PurgesTypeOK
<1>6. CachesAuthentic'
  BY <1>0, <1>3, <1>4, EntriesStayAuthentic
<1>7. ASSUME NEW u \in Tasks \ {t} PROVE LocalsKept(u) /\ MokaFrame(u)
  <2>1. stage'[u] = stage[u]
    BY <1>0, <1>1 DEF TypeOK, HandlersTypeOK
  <2>2. MokaFrame(u)
    BY <1>0, <1>1, <1>2, LookUpFrame DEF IInv, TaskInv, TypeOK
  <2>. QED BY <1>1, <2>1, <2>2 DEF LocalsKept
<1>8. TaskInv(t)'
  <2>1. MainKey(t)' = MainKey(t) /\ PairOf(t)' = PairOf(t)
    BY DEF MainKey, PairOf
  <2>2. HandlerInv(t)'
    BY <1>0, <1>1, <2>1 DEF TaskInv, HandlerInv, SaidGrows, Served, Verified, Binding
  <2>3. wire'[t] = None /\ WireInv(t)'
    BY <1>1, <1>2, CallerAfterLookUp DEF WireInv
  <2>4. \A k \in CacheKeys : flight[k] = t => k = MainKey(t)
    BY <1>0, <1>1 DEF TaskInv, LeadInv
  <2>5. CASE stage' = [stage EXCEPT ![t] = "pds"] /\ Lead(t, MainKey(t))
    <3>1. /\ stage'[t] = "pds" /\ flight'[MainKey(t)] = t
          /\ inbox'[t] = None /\ parked'[t] = None
          /\ \A k \in CacheKeys : flight'[k] = t => k = MainKey(t)
      BY <1>0, <1>2, <2>4, <2>5 DEF Lead, MayLookUp, TypeOK, MokaTypeOK, HandlersTypeOK
    <3>. QED BY <1>1, <2>1, <2>2, <2>3, <3>1
         DEF TaskInv, LeadInv, StageInv, WaitInv, InboxInv, Working
  <2>6. CASE stage' = stage /\ (Hit(t, MainKey(t)) \/ Park(t, MainKey(t)))
    <3>1. flight' = flight /\ flight[MainKey(t)] # t
      BY <1>1, <1>2, <2>6, CallerAfterLookUp DEF Hit, Park
    <3>2. AwaitedKey(t)' = MainKey(t)
      BY <1>1, <2>1, <2>6 DEF AwaitedKey
    <3>3. LeadInv(t)' /\ StageInv(t)'
      BY <1>0, <1>1, <2>1, <2>6, <3>1 DEF TaskInv, LeadInv, StageInv
    <3>4. WaitInv(t)'
      BY <1>1, <1>2, <2>6, <3>2, CallerAfterLookUp DEF WaitInv, Working
    <3>5. InboxInv(t)'
      BY <1>1, <1>2, <1>3, <2>6, <3>2, CallerAfterLookUp, AuthenticStays DEF InboxInv, Working
    <3>. QED BY <2>2, <2>3, <3>3, <3>4, <3>5 DEF TaskInv
  <2>. QED BY <1>1, <2>5, <2>6
<1>. QED BY <1>3, <1>5, <1>6, <1>7, <1>8, StepOfTask

\* A step of t that leads, stores and wakes nothing.
LEMMA LocalStep ==
    ASSUME IInv, NEW t \in Tasks, TypeOK', TaskInv(t)', SaidGrows,
           UNCHANGED <<entries, flight, parked>>,
           \A u \in Tasks \ {t} : LocalsKept(u) /\ inbox'[u] = inbox[u]
    PROVE  IInv'
<1>1. CachesAuthentic'
  BY EntriesStayAuthentic DEF IInv
<1>2. ASSUME NEW u \in Tasks \ {t} PROVE MokaFrame(u)
  BY DEF IInv, TaskInv, WaitInv, MokaFrame
<1>. QED BY <1>1, <1>2, StepOfTask

\* The init future under the handler's own key returns.
LEMMA ReturnKeepsInv ==
    ASSUME IInv, NEW t \in Tasks, NEW o \in Outcomes,
           stage[t] # "none", Return(t, MainKey(t), o),
           o.tag = "ok" => Authentic(MainKey(t), o.val),
           parked[t] = None, stage[t] = "pds" => inbox[t] # None,
           Receive(t) \/ (UNCHANGED upstreamVars /\ wire[t] = None),
           UNCHANGED <<purgeVars, handlerVars, historyVars>>
    PROVE  IInv'
<1>. USE DEF worldVars, saidVars, purgeVars, handlerVars, historyVars
<1>0. TypeOK /\ CachesAuthentic /\ TaskInv(t)
  BY DEF IInv
<1>1. pc[t] \in {"data", "owner"} /\ req[t] \in Requests
  BY <1>0 DEF TaskInv, StageInv, HandlerInv
<1>2. MainKey(t) \in CacheKeys
  BY <1>1, TaskKeys
<1>3. /\ SaidGrows /\ vouched' = vouched /\ permitted' = permitted /\ UNCHANGED worldVars
      /\ wire' = [wire EXCEPT ![t] = None]
  BY <1>0 DEF SaidGrows, Receive, upstreamVars, TypeOK, UpstreamsTypeOK
<1>4. MokaTypeOK' /\ CachesAuthentic'
  BY <1>0, <1>2, <1>3, ResolveEntries DEF Return, TypeOK
<1>5. /\ stage'[t] = "none" /\ wire'[t] = None
      /\ \A u \in Tasks \ {t} : /\ stage'[u] = stage[u] /\ bytes'[u] = bytes[u]
                                /\ wire'[u] = wire[u]
  BY <1>0, <1>3 DEF Return, TypeOK, HandlersTypeOK, UpstreamsTypeOK
<1>6. TypeOK'
  <2>1. UpstreamsTypeOK'
    BY <1>0, <1>3 DEF TypeOK, UpstreamsTypeOK
  <2>2. HandlersTypeOK'
    BY <1>0 DEF Return, TypeOK, HandlersTypeOK
  <2>. QED BY <1>0, <1>4, <2>1, <2>2 DEF TypeOK, PurgesTypeOK
<1>7. ASSUME NEW u \in Tasks \ {t} PROVE LocalsKept(u) /\ MokaFrame(u)
  <2>1. MokaFrame(u)
    BY <1>0, <1>2, ResolveFrame DEF Return, IInv, TaskInv, TypeOK
  <2>. QED BY <1>5, <2>1 DEF LocalsKept
<1>8. TaskInv(t)'
  <2>1. /\ MainKey(t)' = MainKey(t) /\ PairOf(t)' = PairOf(t)
        /\ AwaitedKey(t)' = MainKey(t)
    BY <1>5 DEF MainKey, AwaitedKey, PairOf
  <2>2. \A k \in CacheKeys : flight[k] = t => k = MainKey(t)
    <3>1. stage[t] = "pds" => flight[IdentityKey(req[t].did)] # t
      BY <1>0 DEF TaskInv, InboxInv, AwaitedKey
    <3>. QED BY <1>0, <3>1 DEF TaskInv, LeadInv
  <2>3. /\ parked'[t] = None /\ inbox'[t] = o
        /\ \A k \in CacheKeys : flight'[k] # t
    BY <1>0, <1>2, <2>2, NoneAssumption, NoneIsNothing DEF Return, Resolve, TypeOK, MokaTypeOK
  <2>4. LeadInv(t)' /\ StageInv(t)' /\ WaitInv(t)' /\ WireInv(t)'
    BY <1>2, <1>5, <2>1, <2>3 DEF LeadInv, StageInv, WaitInv, WireInv
  <2>5. InboxInv(t)'
    BY <1>1, <1>2, <1>3, <1>5, <2>1, <2>3, AuthenticStays DEF InboxInv, Working
  <2>6. HandlerInv(t)'
    BY <1>0, <1>3, <2>1 DEF TaskInv, HandlerInv, Served, Verified, Binding
  <2>. QED BY <2>4, <2>5, <2>6 DEF TaskInv
<1>. QED BY <1>3, <1>4, <1>6, <1>7, <1>8, StepOfTask

\* The resolution of the host, from its first look-up to its outcome.
LEMMA ResolveHostKeepsInv ==
    ASSUME IInv, NEW t \in Tasks, pc[t] \in {"data", "owner"},
           ResolveHost(t, req[t].did, MainKey(t)),
           UNCHANGED <<purgeVars, handlerVars, historyVars>>
    PROVE  IInv'
<1>. USE DEF worldVars, saidVars, purgeVars, handlerVars, historyVars
<1>0. TypeOK /\ CachesAuthentic /\ TaskInv(t) /\ stage[t] = "pds" /\ flight[MainKey(t)] = t
  BY DEF IInv, ResolveHost
<1>1. req[t] \in Requests
  BY <1>0 DEF TaskInv, HandlerInv
<1>2. AwaitedKey(t) = IdentityKey(req[t].did)
  BY <1>0 DEF AwaitedKey
<1>3. inbox[t] # None => wire[t] = None /\ parked[t] = None
  BY <1>0 DEF TaskInv, InboxInv, WireInv, WaitInv
<1>4. CASE IdentityStep(t, req[t].did) /\ UNCHANGED blobVars
  BY <1>0, <1>4, IdentityKeepsInv
<1>5. CASE /\ Succeeded(t) /\ Consume(t)
           /\ host' = [host EXCEPT ![t] = inbox[t].val]
           /\ stage' = [stage EXCEPT ![t] = "get"]
           /\ UNCHANGED <<bytes, upstreamVars>>
  <2>1. inbox[t].val \in Hosts
    <3>1. Authentic(IdentityKey(req[t].did), inbox[t].val)
      BY <1>0, <1>2, <1>5 DEF Succeeded, TaskInv, InboxInv
    <3>. QED BY <1>1, <3>1, AuthenticByKey, RequestKeys, HostAssumption
  <2>2. /\ stage'[t] = "get" /\ inbox'[t] = None /\ UNCHANGED <<entries, flight, parked>>
        /\ \A u \in Tasks \ {t} : stage'[u] = stage[u] /\ inbox'[u] = inbox[u]
    BY <1>0, <1>5 DEF Consume, TypeOK, MokaTypeOK, HandlersTypeOK
  <2>3. TypeOK'
    BY <1>0, <1>5, <2>1 DEF Consume, upstreamVars, TypeOK, MokaTypeOK, UpstreamsTypeOK,
                            HandlersTypeOK, PurgesTypeOK
  <2>4. TaskInv(t)'
    <3>1. MainKey(t)' = MainKey(t) /\ PairOf(t)' = PairOf(t)
      BY DEF MainKey, PairOf
    <3>2. flight[IdentityKey(req[t].did)] # t
      BY <1>0, <1>2, <1>5 DEF Succeeded, TaskInv, InboxInv
    <3>3. LeadInv(t)' /\ StageInv(t)'
      BY <1>0, <2>2, <3>1, <3>2 DEF TaskInv, LeadInv, StageInv
    <3>4. WaitInv(t)' /\ InboxInv(t)' /\ WireInv(t)'
      BY <1>3, <1>5, <2>2 DEF WaitInv, InboxInv, WireInv, Succeeded, upstreamVars
    <3>5. HandlerInv(t)'
      BY <1>0, <1>5, <3>1 DEF upstreamVars, TaskInv, HandlerInv, Served, Verified, Binding
    <3>. QED BY <3>3, <3>4, <3>5 DEF TaskInv
  <2>5. SaidGrows /\ \A u \in Tasks \ {t} : LocalsKept(u)
    BY <1>5, <2>2 DEF SaidGrows, LocalsKept, upstreamVars
  <2>. QED BY <2>2, <2>3, <2>4, <2>5, LocalStep
<1>6. CASE /\ Failed(t) /\ Return(t, MainKey(t), Err("BlobResolutionFailure"))
           /\ UNCHANGED upstreamVars
  <2>1. Err("BlobResolutionFailure") \in Outcomes /\ Err("BlobResolutionFailure").tag # "ok"
    BY DEF Err, Outcomes, Errors
  <2>. QED BY <1>0, <1>3, <1>6, <2>1, ReturnKeepsInv DEF Failed
<1>. QED BY <1>4, <1>5, <1>6 DEF ResolveHost

\* What a host says, whether it is asked for the bytes or for a range of them.
LEMMA HostSays ==
    ASSUME TypeOK, NEW t \in Tasks, NEW h, NEW d \in Dids, NEW c \in Cids,
           NEW claims, NEW failures, HostAnswers(t, h, d, c, claims, failures)
    PROVE  /\ UNCHANGED worldVars
           /\ SaidGrows /\ vouched' \subseteq Dids \X Cids /\ permitted' \subseteq Dids \X Cids
           /\ \E a : /\ wire' = [wire EXCEPT ![t] = a]
                     /\ \/ a = "notFound" \/ a \in failures
                        \/ a \in claims /\ <<d, c>> \in vouched'
<1>1. CASE /\ \E a \in claims : Answer(t, a)
           /\ vouched' = vouched \cup {<<d, c>>}
           /\ UNCHANGED permitted
  <2>1. PICK a \in claims : wire' = [wire EXCEPT ![t] = a]
    BY <1>1 DEF Answer
  <2>2. UNCHANGED worldVars
    BY DEF HostAnswers
  <2>3. <<d, c>> \in vouched' /\ SaidGrows
    BY <1>1 DEF SaidGrows
  <2>4. vouched' \subseteq Dids \X Cids /\ permitted' \subseteq Dids \X Cids
    BY <1>1 DEF TypeOK, UpstreamsTypeOK
  <2>. QED BY <2>1, <2>2, <2>3, <2>4
<1>2. CASE Answer(t, "notFound") /\ UNCHANGED saidVars
  BY <1>2 DEF HostAnswers, Answer, saidVars, SaidGrows, TypeOK, UpstreamsTypeOK
<1>3. CASE Fail(t, failures)
  BY <1>3 DEF HostAnswers, Fail, Answer, saidVars, SaidGrows, TypeOK, UpstreamsTypeOK
<1>. QED BY <1>1, <1>2, <1>3 DEF HostAnswers

\* The response to the download is received: verified bytes in hand, or an error.
LEMMA BlobReceivedKeepsInv ==
    ASSUME IInv, NEW t \in Tasks, pc[t] = "data", BlobReceived(t, req[t].cid),
           UNCHANGED <<purgeVars, handlerVars, historyVars>>
    PROVE  IInv'
<1>. USE DEF worldVars, saidVars, purgeVars, handlerVars, historyVars
<1>. DEFINE o == DownloadOutcome(req[t].cid, wire[t])
<1>0. TypeOK /\ TaskInv(t)
  BY DEF IInv
<1>1. stage[t] = "get" /\ Receive(t) /\ MainKey(t) = DataKey(req[t].cid)
  BY DEF BlobReceived, MainKey
<1>2. /\ wire[t] \in {"notFound", "refused", "lost", "cut"} \/ wire[t] \in Bodies
      /\ wire[t] \in {"notFound", "refused", "lost", "cut"} \/ PairOf(t) \in vouched
  BY <1>0, <1>1 DEF Receive, TaskInv, WireInv
<1>3. /\ o \in Outcomes
      /\ o.tag = "ok" => o.val \in Verified(req[t].cid) /\ PairOf(t) \in vouched
  BY <1>2, DownloadOutcomes
<1>4. parked[t] = None /\ inbox[t] = None
  BY <1>0, <1>1 DEF TaskInv, WaitInv, InboxInv
<1>5. CASE o.tag = "err" /\ Return(t, DataKey(req[t].cid), o)
  BY <1>1, <1>3, <1>4, <1>5, ReturnKeepsInv
<1>6. CASE /\ o.tag = "ok"
           /\ bytes' = [bytes EXCEPT ![t] = o.val]
           /\ stage' = [stage EXCEPT ![t] = "own"]
           /\ UNCHANGED <<host, mokaVars>>
  <2>. USE DEF mokaVars
  <2>1. /\ stage'[t] = "own" /\ bytes'[t] = o.val /\ wire'[t] = None
        /\ \A u \in Tasks \ {t} :
             stage'[u] = stage[u] /\ bytes'[u] = bytes[u] /\ wire'[u] = wire[u]
    BY <1>0, <1>1, <1>6 DEF Receive, TypeOK, HandlersTypeOK, UpstreamsTypeOK
  <2>2. o.val \in Bodies
    BY <1>3, <1>6 DEF Verified
  <2>3. TypeOK'
    BY <1>0, <1>1, <1>6, <2>2 DEF Receive, TypeOK, MokaTypeOK, UpstreamsTypeOK,
                                  HandlersTypeOK, PurgesTypeOK
  <2>4. TaskInv(t)'
    <3>1. MainKey(t)' = MainKey(t) /\ PairOf(t)' = PairOf(t)
      BY DEF MainKey, PairOf
    <3>2. LeadInv(t)' /\ WaitInv(t)' /\ InboxInv(t)' /\ WireInv(t)'
      BY <1>0, <1>1, <1>4, <1>6, <2>1, <3>1 DEF TaskInv, LeadInv, WaitInv, InboxInv, WireInv
    <3>3. StageInv(t)'
      <4>1. PairOf(t) \in vouched' /\ bytes'[t] \in Verified(req[t].cid)
        BY <1>1, <1>3, <1>6, <2>1 DEF Receive
      <4>2. flight'[MainKey(t)] = t
        BY <1>0, <1>1, <1>6 DEF TaskInv, StageInv
      <4>. QED BY <2>1, <3>1, <4>1, <4>2 DEF StageInv, Verified
    <3>4. HandlerInv(t)'
      BY <1>0, <1>1, <3>1 DEF Receive, TaskInv, HandlerInv, Served, Verified, Binding
    <3>. QED BY <3>2, <3>3, <3>4 DEF TaskInv
  <2>5. SaidGrows /\ \A u \in Tasks \ {t} : LocalsKept(u)
    BY <1>1, <2>1 DEF Receive, SaidGrows, LocalsKept
  <2>. QED BY <1>6, <2>3, <2>4, <2>5, LocalStep
<1>. QED BY <1>5, <1>6 DEF BlobReceived

\* The pair is marked as owned while the verified bytes are still in hand.
LEMMA OwnershipInsertedKeepsInv ==
    ASSUME IInv, NEW t \in Tasks, pc[t] = "data", OwnershipInserted(t, req[t].did, req[t].cid),
           UNCHANGED <<purgeVars, handlerVars, historyVars>>
    PROVE  IInv'
<1>. USE DEF upstreamVars, worldVars, saidVars, purgeVars, handlerVars, historyVars, OwnershipInserted
<1>. DEFINE k == OwnershipKey(req[t].did, req[t].cid)
<1>0. TypeOK /\ CachesAuthentic /\ TaskInv(t)
  BY DEF IInv
<1>1. req[t].did \in Dids /\ req[t].cid \in Cids /\ k \in CacheKeys
  BY <1>0, RequestKeys DEF TaskInv, HandlerInv
<1>2. Authentic(k, "owned")
  BY <1>0, <1>1, AuthenticByKey DEF TaskInv, StageInv, PairOf
<1>3. entries' = [entries EXCEPT ![k] = "owned"] /\ UNCHANGED <<flight, parked, inbox>>
  BY DEF InsertEntry
<1>4. SaidGrows
  BY DEF SaidGrows
<1>5. CachesAuthentic'
  <2>1. \A j \in CacheKeys : entries'[j] = entries[j] \/ Authentic(j, entries'[j])
    <3>. HIDE DEF k
    <3>. QED BY <1>0, <1>2, <1>3, AuthenticStays DEF TypeOK, MokaTypeOK
  <2>2. \A j \in CacheKeys : entries'[j] \in {entries[j], None} \/ Authentic(j, entries'[j])
    BY <2>1
  <2>. QED BY <1>0, <1>4, <2>2, EntriesStayAuthentic
<1>6. stage'[t] = "ret" /\ \A u \in Tasks \ {t} : stage'[u] = stage[u]
  BY <1>0 DEF TypeOK, HandlersTypeOK
<1>7. TypeOK'
  BY <1>0, <1>1, <1>3 DEF TypeOK, MokaTypeOK, UpstreamsTypeOK, HandlersTypeOK, PurgesTypeOK, Values
<1>8. ASSUME NEW u \in Tasks \ {t} PROVE LocalsKept(u) /\ MokaFrame(u)
  BY <1>3, <1>6, EntriesFrame DEF LocalsKept, IInv, TaskInv
<1>9. TaskInv(t)'
  <2>1. MainKey(t)' = MainKey(t) /\ PairOf(t)' = PairOf(t)
    BY DEF MainKey, PairOf
  <2>2. parked[t] = None /\ inbox[t] = None /\ wire[t] = None
    BY <1>0 DEF TaskInv, WaitInv, InboxInv, WireInv
  <2>3. LeadInv(t)' /\ StageInv(t)'
    BY <1>0, <1>3, <1>6, <2>1 DEF TaskInv, LeadInv, StageInv, Verified
  <2>4. WaitInv(t)' /\ InboxInv(t)' /\ WireInv(t)'
    BY <1>3, <2>2 DEF WaitInv, InboxInv, WireInv
  <2>5. HandlerInv(t)'
    BY <1>0, <2>1 DEF TaskInv, HandlerInv, Served, Verified, Binding
  <2>. QED BY <2>3, <2>4, <2>5 DEF TaskInv
<1>. QED BY <1>4, <1>5, <1>7, <1>8, <1>9, StepOfTask

\* fetch_blob keeps the invariant.
LEMMA FetchBlobKeepsInv ==
    ASSUME IInv, NEW t \in Tasks, CallFetchBlob(t)
    PROVE  IInv'
<1>. DEFINE d == req[t].did
            c == req[t].cid
<1>0. TypeOK /\ TaskInv(t)
  BY DEF IInv
<1>1. pc[t] = "data" /\ UNCHANGED <<purgeVars, handlerVars, historyVars>>
  BY DEF CallFetchBlob
<1>2. req[t] \in Requests
  BY <1>0, <1>1 DEF TaskInv, HandlerInv
<1>3. /\ MainKey(t) = DataKey(c) /\ d \in Dids /\ c \in Cids /\ MainKey(t) \in CacheKeys
      /\ OwnershipKey(d, c) \in CacheKeys
  BY <1>1, <1>2, RequestKeys, TaskKeys DEF MainKey
<1>4. CASE Fetch(t, DataKey(c))
  BY <1>1, <1>3, <1>4, FetchKeepsInv
<1>5. CASE ResolveHost(t, d, DataKey(c))
  BY <1>1, <1>3, <1>5, ResolveHostKeepsInv
<1>6. CASE BlobQueried(t, d, c)
  <2>1. stage[t] = "get" /\ flight[AwaitedKey(t)] = t /\ UNCHANGED <<mokaVars, blobVars>>
    BY <1>3, <1>6 DEF BlobQueried, AwaitedKey
  <2>2. HostAnswers(t, host[t], d, c, Bodies, {"refused", "lost", "cut"})
    BY <1>6 DEF BlobQueried, BlobAnswers
  <2>3. PICK a : /\ wire' = [wire EXCEPT ![t] = a]
                 /\ \/ a = "notFound" \/ a \in {"refused", "lost", "cut"}
                    \/ a \in Bodies /\ <<d, c>> \in vouched'
    BY <1>0, <1>3, <2>2, HostSays
  <2>4. /\ UNCHANGED worldVars /\ SaidGrows
        /\ vouched' \subseteq Dids \X Cids /\ permitted' \subseteq Dids \X Cids
    BY <1>0, <1>3, <2>2, HostSays
  <2>5. a \in WireAnswers
    BY <2>3 DEF WireAnswers
  <2>. QED BY <1>1, <2>1, <2>3, <2>4, <2>5, AnswerKeepsInv DEF PairOf, Working
<1>7. CASE BlobReceived(t, c)
  BY <1>1, <1>7, BlobReceivedKeepsInv
<1>8. CASE OwnershipInserted(t, d, c)
  BY <1>1, <1>8, OwnershipInsertedKeepsInv
<1>9. CASE BlobReturned(t, c)
  <2>1. /\ stage[t] = "ret" /\ Return(t, MainKey(t), Ok(bytes[t])) /\ UNCHANGED upstreamVars
        /\ bytes[t] \in Verified(c)
    BY <1>0, <1>3, <1>9 DEF BlobReturned, TaskInv, StageInv
  <2>2. /\ Ok(bytes[t]) \in Outcomes /\ Ok(bytes[t]).val = bytes[t]
        /\ Authentic(MainKey(t), bytes[t])
    BY <1>3, <2>1, AuthenticByKey DEF Ok, Outcomes, Values, Verified
  <2>3. parked[t] = None /\ wire[t] = None
    BY <1>0, <2>1 DEF TaskInv, WaitInv, WireInv
  <2>. QED BY <1>1, <2>1, <2>2, <2>3, ReturnKeepsInv
<1>. QED BY <1>4, <1>5, <1>6, <1>7, <1>8, <1>9 DEF CallFetchBlob, FetchBlob

\* fetch_blob_ownership keeps the invariant.
LEMMA FetchOwnershipKeepsInv ==
    ASSUME IInv, NEW t \in Tasks, CallFetchOwnership(t)
    PROVE  IInv'
<1>. DEFINE d == req[t].did
            c == req[t].cid
<1>0. TypeOK /\ TaskInv(t)
  BY DEF IInv
<1>1. pc[t] = "owner" /\ UNCHANGED <<purgeVars, handlerVars, historyVars>>
  BY DEF CallFetchOwnership
<1>2. req[t] \in Requests
  BY <1>0, <1>1 DEF TaskInv, HandlerInv
<1>3. MainKey(t) = OwnershipKey(d, c) /\ d \in Dids /\ c \in Cids /\ MainKey(t) \in CacheKeys
  BY <1>1, <1>2, RequestKeys, TaskKeys DEF MainKey
<1>4. CASE Fetch(t, OwnershipKey(d, c))
  BY <1>1, <1>3, <1>4, FetchKeepsInv
<1>5. CASE ResolveHost(t, d, OwnershipKey(d, c))
  BY <1>1, <1>3, <1>5, ResolveHostKeepsInv
<1>6. CASE OwnershipQueried(t, d, c)
  <2>1. stage[t] = "get" /\ flight[AwaitedKey(t)] = t /\ UNCHANGED <<mokaVars, blobVars>>
    BY <1>3, <1>6 DEF OwnershipQueried, AwaitedKey
  <2>2. HostAnswers(t, host[t], d, c, {"owned"}, {"refused", "lost"})
    BY <1>6 DEF OwnershipQueried, OwnershipAnswers
  <2>3. PICK a : /\ wire' = [wire EXCEPT ![t] = a]
                 /\ \/ a = "notFound" \/ a \in {"refused", "lost"}
                    \/ a \in {"owned"} /\ <<d, c>> \in vouched'
    BY <1>0, <1>3, <2>2, HostSays
  <2>4. /\ UNCHANGED worldVars /\ SaidGrows
        /\ vouched' \subseteq Dids \X Cids /\ permitted' \subseteq Dids \X Cids
    BY <1>0, <1>3, <2>2, HostSays
  <2>5. a \in WireAnswers
    BY <2>3 DEF WireAnswers
  <2>. QED BY <1>1, <2>1, <2>3, <2>4, <2>5, AnswerKeepsInv DEF PairOf, Working
<1>7. CASE OwnershipReceived(t, d, c)
  <2>. DEFINE o == OwnershipOutcome(wire[t])
  <2>1. stage[t] = "get" /\ Receive(t) /\ Return(t, MainKey(t), o) /\ wire[t] # None
    BY <1>3, <1>7 DEF OwnershipReceived, Receive
  <2>2. o \in Outcomes /\ (o.tag = "ok" => o.val = "owned" /\ wire[t] = "owned")
    BY OwnershipOutcomes
  <2>3. wire[t] = "owned" => <<d, c>> \in vouched
    BY <1>0, <1>1, <2>1 DEF TaskInv, WireInv, PairOf
  <2>4. o.tag = "ok" => Authentic(MainKey(t), o.val)
    BY <1>3, <2>2, <2>3, AuthenticByKey
  <2>5. parked[t] = None
    BY <1>0, <2>1 DEF TaskInv, WaitInv
  <2>. QED BY <1>1, <2>1, <2>2, <2>4, <2>5, ReturnKeepsInv
<1>. QED BY <1>4, <1>5, <1>6, <1>7 DEF CallFetchOwnership, FetchBlobOwnership

-----------------------------------------------------------------------------
(* The handlers.                                                           *)

\* t leads nothing, waits for nothing and is told nothing.
Detached(t) ==
    /\ \A k \in CacheKeys : flight[k] # t
    /\ parked[t] = None /\ stage[t] = "none" /\ wire[t] = None

\* A task whose handler is in no call leads nothing and waits for nothing.
LEMMA OutsideCalls ==
    ASSUME IInv, NEW t \in Tasks, pc[t] \notin Working
    PROVE  Detached(t) /\ inbox[t] = None
BY DEF Detached, IInv, TaskInv, LeadInv, StageInv, WaitInv, InboxInv, WireInv, Working

\* A call that has returned leaves nothing behind, and what it returned is true.
LEMMA AfterCall ==
    ASSUME IInv, NEW t \in Tasks, NEW l \in Working, Returned(t, l)
    PROVE  /\ Detached(t) /\ pc[t] = l /\ req[t] \in Requests
           /\ Succeeded(t) => Authentic(MainKey(t), inbox[t].val)
<1>0. TaskInv(t) /\ pc[t] = l /\ stage[t] = "none" /\ inbox[t] # None
  BY DEF IInv, Returned, Delivered
<1>1. AwaitedKey(t) = MainKey(t) /\ flight[MainKey(t)] # t
  BY <1>0 DEF AwaitedKey, TaskInv, InboxInv
<1>2. \A k \in CacheKeys : flight[k] # t
  BY <1>0, <1>1 DEF TaskInv, LeadInv
<1>3. req[t] \in Requests
  BY <1>0 DEF TaskInv, HandlerInv, Working
<1>4. wire[t] = None /\ parked[t] = None
  BY <1>0, <1>1 DEF TaskInv, WireInv, WaitInv
<1>. QED BY <1>0, <1>1, <1>2, <1>3, <1>4 DEF Detached, Succeeded, TaskInv, InboxInv

\* The handler goes on by itself; what it has established must hold afterwards.
LEMMA HandlerStep ==
    ASSUME IInv, NEW t \in Tasks, Detached(t), TypeOK', HandlerInv(t)',
           UNCHANGED <<entries, flight, parked, upstreamVars, blobVars>>,
           inbox'[t] = None,
           \A u \in Tasks \ {t} : /\ inbox'[u] = inbox[u] /\ pc'[u] = pc[u] /\ req'[u] = req[u]
                                  /\ blob'[u] = blob[u] /\ resp'[u] = resp[u]
    PROVE  IInv'
<1>. USE DEF upstreamVars, worldVars, saidVars, blobVars
<1>1. LeadInv(t)' /\ WaitInv(t)' /\ InboxInv(t)' /\ WireInv(t)'
  BY DEF Detached, LeadInv, WaitInv, InboxInv, WireInv
<1>2. StageInv(t)'
  <2>1. ASSUME pc'[t] \in {"data", "owner"} PROVE MainKey(t)' \in CacheKeys
    <3>1. req'[t] \in Requests
      BY <2>1 DEF HandlerInv
    <3>. QED BY <3>1, RequestKeys DEF MainKey
  <2>. QED BY <2>1 DEF Detached, StageInv
<1>3. TaskInv(t)'
  BY <1>1, <1>2 DEF TaskInv
<1>4. SaidGrows /\ \A u \in Tasks \ {t} : LocalsKept(u)
  BY DEF SaidGrows, LocalsKept
<1>. QED BY <1>3, <1>4, LocalStep

\* A request that does not parse is answered at once.
LEMMA RejectMalformedKeepsInv ==
    ASSUME IInv, NEW t \in Tasks, RejectMalformed(t)
    PROVE  IInv'
<1>. USE DEF RejectMalformed, Refuse, GoTo, mokaVars, purgeVars, historyVars
<1>1. TypeOK /\ Detached(t) /\ inbox[t] = None
  BY OutsideCalls DEF IInv, Working
<1>2. TypeOK'
  BY <1>1 DEF upstreamVars, worldVars, saidVars, blobVars, TypeOK, MokaTypeOK, UpstreamsTypeOK,
              HandlersTypeOK, PurgesTypeOK, Locations
<1>3. HandlerInv(t)'
  BY <1>1 DEF HandlerInv, Served, TypeOK, HandlersTypeOK
<1>4. \A u \in Tasks \ {t} : /\ inbox'[u] = inbox[u] /\ pc'[u] = pc[u] /\ req'[u] = req[u]
                             /\ blob'[u] = blob[u] /\ resp'[u] = resp[u]
  BY <1>1 DEF TypeOK, HandlersTypeOK
<1>. QED BY <1>1, <1>2, <1>3, <1>4, HandlerStep

\* A request arrives at a task that has done nothing yet.
LEMMA ArriveKeepsInv ==
    ASSUME IInv, NEW t \in Tasks, NEW r \in Requests, Arrive(t, r)
    PROVE  IInv'
<1>. USE DEF Arrive, GoTo, mokaVars, purgeVars
<1>1. TypeOK /\ Detached(t) /\ inbox[t] = None
  BY OutsideCalls DEF IInv, Working
<1>2. TypeOK'
  <2>1. HandlersTypeOK'
    BY <1>1 DEF blobVars, TypeOK, HandlersTypeOK, Locations
  <2>2. PurgesTypeOK'
    BY <1>1 DEF TypeOK, PurgesTypeOK
  <2>. QED BY <1>1, <2>1, <2>2 DEF upstreamVars, worldVars, saidVars, TypeOK, MokaTypeOK, UpstreamsTypeOK
<1>3. HandlerInv(t)'
  BY <1>1 DEF IInv, TaskInv, HandlerInv, Served, TypeOK, HandlersTypeOK, Binding
<1>4. \A u \in Tasks \ {t} : /\ inbox'[u] = inbox[u] /\ pc'[u] = pc[u] /\ req'[u] = req[u]
                             /\ blob'[u] = blob[u] /\ resp'[u] = resp[u]
  BY <1>1 DEF TypeOK, HandlersTypeOK
<1>. QED BY <1>1, <1>2, <1>3, <1>4, HandlerStep

\* Extracting metadata adds nothing to what the handler has established.
LEMMA MetadataExtractedKeepsInv ==
    ASSUME IInv, NEW t \in Tasks, MetadataExtracted(t)
    PROVE  IInv'
<1>. USE DEF MetadataExtracted, Serve, GoTo, mokaVars, purgeVars, historyVars
<1>1. TypeOK /\ Detached(t) /\ inbox[t] = None
  BY OutsideCalls DEF IInv, Working
<1>2. TypeOK'
  BY <1>1 DEF upstreamVars, worldVars, saidVars, blobVars, TypeOK, MokaTypeOK, UpstreamsTypeOK,
              HandlersTypeOK, PurgesTypeOK, Locations
<1>3. HandlerInv(t)'
  BY <1>1 DEF IInv, TaskInv, HandlerInv, Served, TypeOK, HandlersTypeOK, PairOf, Verified, Binding,
              upstreamVars, saidVars
<1>4. \A u \in Tasks \ {t} : /\ inbox'[u] = inbox[u] /\ pc'[u] = pc[u] /\ req'[u] = req[u]
                             /\ blob'[u] = blob[u] /\ resp'[u] = resp[u]
  BY <1>1 DEF TypeOK, HandlersTypeOK
<1>. QED BY <1>1, <1>2, <1>3, <1>4, HandlerStep

\* A handler that consumes a result and moves on as its status and place allow.
LEMMA ConsumeStep ==
    ASSUME IInv, NEW t \in Tasks, NEW l \in Working, Returned(t, l),
           pc' = [pc EXCEPT ![t] = pc'[t]], pc'[t] \in Locations,
           blob' = [blob EXCEPT ![t] = blob'[t]], blob'[t] \in Bodies \cup {None},
           resp' = [resp EXCEPT ![t] = resp'[t]],
           resp'[t] \in {0, 200, 403, 404, 408, 410, 413, 422, 424, 500, 502},
           UNCHANGED <<req, upstreamVars, blobVars, purgeVars, historyVars>>,
           HandlerInv(t)'
    PROVE  IInv'
<1>1. TypeOK /\ Detached(t)
  BY AfterCall DEF IInv
<1>2. Consume(t)
  BY DEF Returned
<1>3. TypeOK'
  <2>1. MokaTypeOK'
    BY <1>1, <1>2 DEF Consume, TypeOK, MokaTypeOK
  <2>2. UpstreamsTypeOK' /\ PurgesTypeOK'
    BY <1>1 DEF purgeVars, historyVars, upstreamVars, worldVars, saidVars,
                TypeOK, UpstreamsTypeOK, PurgesTypeOK
  <2>3. pc' \in [Tasks -> Locations]
    BY <1>1 DEF TypeOK, HandlersTypeOK
  <2>4. blob' \in [Tasks -> Bodies \cup {None}]
    BY <1>1 DEF TypeOK, HandlersTypeOK
  <2>5. resp' \in [Tasks -> {0, 200, 403, 404, 408, 410, 413, 422, 424, 500, 502}]
    BY <1>1 DEF TypeOK, HandlersTypeOK
  <2>. QED BY <1>1, <2>1, <2>2, <2>3, <2>4, <2>5 DEF blobVars, TypeOK, HandlersTypeOK
<1>4. inbox'[t] = None /\ UNCHANGED <<entries, flight, parked>>
  BY <1>1, <1>2 DEF Consume, TypeOK, MokaTypeOK
<1>5. ASSUME NEW u \in Tasks \ {t}
      PROVE  /\ inbox'[u] = inbox[u] /\ pc'[u] = pc[u] /\ req'[u] = req[u]
             /\ blob'[u] = blob[u] /\ resp'[u] = resp[u]
  BY <1>1, <1>2 DEF Consume, TypeOK, HandlersTypeOK, MokaTypeOK
<1>. QED BY <1>1, <1>3, <1>4, <1>5, HandlerStep

\* A refusal needs nothing.
LEMMA RefuseKeepsInv ==
    ASSUME IInv, NEW t \in Tasks, NEW l \in Working, Returned(t, l),
           NEW s \in {403, 404, 410, 413, 424, 500, 502}, Refuse(t, s),
           UNCHANGED <<req, upstreamVars, blobVars, purgeVars, historyVars>>
    PROVE  IInv'
<1>1. /\ pc' = [pc EXCEPT ![t] = "done"] /\ blob' = [blob EXCEPT ![t] = None]
      /\ resp' = [resp EXCEPT ![t] = s]
  BY DEF Refuse, GoTo
<1>2. pc'[t] = "done" /\ blob'[t] = None /\ resp'[t] = s
  BY <1>1 DEF IInv, TypeOK, HandlersTypeOK
<1>3. HandlerInv(t)'
  BY <1>2 DEF HandlerInv, Served
<1>4. pc'[t] \in Locations /\ blob'[t] \in Bodies \cup {None}
      /\ resp'[t] \in {0, 200, 403, 404, 408, 410, 413, 422, 424, 500, 502}
  BY <1>2 DEF Locations
<1>. QED BY <1>1, <1>2, <1>3, <1>4, ConsumeStep

\* The handler goes on and keeps its blob and its status.
LEMMA GoOnKeepsInv ==
    ASSUME IInv, NEW t \in Tasks, NEW l \in Working, Returned(t, l),
           NEW m \in Locations, GoTo(t, m), UNCHANGED <<blob, resp>>,
           UNCHANGED <<req, upstreamVars, blobVars, purgeVars, historyVars>>,
           pc'[t] = m => HandlerInv(t)'
    PROVE  IInv'
<1>1. TypeOK
  BY DEF IInv
<1>2. pc' = [pc EXCEPT ![t] = pc'[t]] /\ pc'[t] = m
  BY <1>1 DEF GoTo, TypeOK, HandlersTypeOK
<1>3. /\ blob' = [blob EXCEPT ![t] = blob'[t]]
      /\ resp' = [resp EXCEPT ![t] = resp'[t]]
      /\ blob'[t] \in Bodies \cup {None}
      /\ resp'[t] \in {0, 200, 403, 404, 408, 410, 413, 422, 424, 500, 502}
  BY <1>1 DEF TypeOK, HandlersTypeOK
<1>. QED BY <1>2, <1>3, ConsumeStep

\* Every error has a status of its kind.
LEMMA DownloadStatuses ==
    ASSUME NEW e
    PROVE  DownloadStatus(e) \in {403, 413, 424, 404, 502}
<1>1. CASE e \in {"ForbiddenMimeType", "TooLarge", "BlobResolutionFailure", "NotFound"}
  BY <1>1 DEF DownloadStatus
<1>2. CASE e \notin {"ForbiddenMimeType", "TooLarge", "BlobResolutionFailure", "NotFound"}
  BY <1>2 DEF DownloadStatus
<1>. QED BY <1>1, <1>2

\* Every error of the ownership check has a status of its kind.
LEMMA OwnershipStatuses ==
    ASSUME NEW e
    PROVE  OwnershipStatus(e) \in {424, 404, 502}
<1>1. CASE e \in {"BlobResolutionFailure", "NotFound"}
  BY <1>1 DEF OwnershipStatus
<1>2. CASE e \notin {"BlobResolutionFailure", "NotFound"}
  BY <1>2 DEF OwnershipStatus
<1>. QED BY <1>1, <1>2

\* An ownership check that succeeds is borne out by what a host has said.
LEMMA VerifiedIsVouched ==
    ASSUME IInv, NEW t \in Tasks, OwnershipVerified(t), Succeeded(t)
    PROVE  PairOf(t) \in vouched
<1>1. Returned(t, "owner") /\ "owner" \in Working
  BY DEF OwnershipVerified, Working
<1>2. /\ pc[t] = "owner" /\ req[t] \in Requests
      /\ Authentic(OwnershipKey(req[t].did, req[t].cid), inbox[t].val)
  BY <1>1, AfterCall DEF MainKey
<1>. QED BY <1>2, AuthenticByKey, RequestKeys DEF PairOf

\* The handler goes on only with a permission, or where failing open is configured.
LEMMA PolicyDecidedKeepsInv ==
    ASSUME IInv, NEW t \in Tasks, PolicyDecided(t)
    PROVE  IInv'
<1>. USE DEF saidVars, upstreamVars
<1>0. /\ Returned(t, "policy") /\ "policy" \in Working
      /\ UNCHANGED <<req, upstreamVars, blobVars, purgeVars, historyVars>>
  BY DEF PolicyDecided, Working
<1>1. /\ HandlerInv(t) /\ pc[t] = "policy" /\ req[t] \in Requests
      /\ Succeeded(t) => Authentic(PolicyKey(req[t].did, req[t].cid), inbox[t].val)
  BY <1>0, AfterCall DEF IInv, TaskInv, MainKey
<1>2. CASE /\ \/ Succeeded(t) /\ inbox[t].val = "Allowed"
              \/ Failed(t) /\ PolicyFailOpen
           /\ GoTo(t, "data") /\ UNCHANGED <<blob, resp>>
  <2>1. Binding => PairOf(t) \in permitted
    BY <1>1, <1>2, AuthenticByKey, RequestKeys DEF Binding, PairOf, Failed, Succeeded
  <2>2. pc'[t] = "data" => HandlerInv(t)'
    BY <1>0, <1>1, <1>2, <2>1 DEF HandlerInv, PairOf, Served, Binding
  <2>. QED BY <1>0, <1>2, <2>2, GoOnKeepsInv DEF Locations
<1>3. CASE Refuse(t, 410) \/ Refuse(t, 500)
  BY <1>0, <1>3, RefuseKeepsInv
<1>4. \/ Succeeded(t) /\ inbox[t].val = "Allowed" /\ GoTo(t, "data") /\ UNCHANGED <<blob, resp>>
      \/ Failed(t) /\ PolicyFailOpen /\ GoTo(t, "data") /\ UNCHANGED <<blob, resp>>
      \/ Refuse(t, 410) \/ Refuse(t, 500)
  BY DEF PolicyDecided
<1>. QED BY <1>2, <1>3, <1>4

\* The handler goes on only with verified bytes.
LEMMA BlobFetchedKeepsInv ==
    ASSUME IInv, NEW t \in Tasks, BlobFetched(t)
    PROVE  IInv'
<1>. USE DEF saidVars, upstreamVars
<1>0. /\ Returned(t, "data") /\ "data" \in Working
      /\ UNCHANGED <<req, upstreamVars, blobVars, purgeVars, historyVars>>
  BY DEF BlobFetched, Working
<1>1. /\ TypeOK /\ HandlerInv(t) /\ pc[t] = "data" /\ req[t] \in Requests
      /\ Succeeded(t) => Authentic(DataKey(req[t].cid), inbox[t].val)
  BY <1>0, AfterCall DEF IInv, TaskInv, MainKey
<1>2. CASE /\ Succeeded(t)
           /\ blob' = [blob EXCEPT ![t] = inbox[t].val]
           /\ GoTo(t, "owner") /\ UNCHANGED resp
  <2>1. inbox[t].val \in Verified(req[t].cid)
    BY <1>1, <1>2, AuthenticByKey, RequestKeys
  <2>2. /\ pc' = [pc EXCEPT ![t] = pc'[t]] /\ pc'[t] = "owner" /\ pc'[t] \in Locations
        /\ blob' = [blob EXCEPT ![t] = blob'[t]] /\ blob'[t] = inbox[t].val
        /\ resp' = [resp EXCEPT ![t] = resp'[t]] /\ resp'[t] = resp[t]
    BY <1>1, <1>2 DEF GoTo, TypeOK, HandlersTypeOK, Locations
  <2>3. /\ blob'[t] \in Bodies \cup {None}
        /\ resp'[t] \in {0, 200, 403, 404, 408, 410, 413, 422, 424, 500, 502}
    BY <1>1, <2>1, <2>2 DEF Verified, TypeOK, HandlersTypeOK
  <2>4. HandlerInv(t)'
    BY <1>0, <1>1, <2>1, <2>2 DEF HandlerInv, PairOf, Served, Binding, Verified
  <2>. QED BY <1>0, <2>2, <2>3, <2>4, ConsumeStep
<1>3. ASSUME NEW e, Refuse(t, DownloadStatus(e))
      PROVE  IInv'
  <2>1. DownloadStatus(e) \in {403, 413, 424, 404, 502}
    BY DownloadStatuses
  <2>. QED BY <1>0, <1>3, <2>1, RefuseKeepsInv
<1>. QED BY <1>2, <1>3 DEF BlobFetched

\* The handler serves only what a host has vouched for.
LEMMA OwnershipVerifiedKeepsInv ==
    ASSUME IInv, NEW t \in Tasks, OwnershipVerified(t)
    PROVE  IInv'
<1>. USE DEF saidVars, upstreamVars
<1>0. /\ Returned(t, "owner") /\ "owner" \in Working
      /\ UNCHANGED <<req, upstreamVars, blobVars, purgeVars, historyVars>>
  BY DEF OwnershipVerified, Working
<1>1. /\ TypeOK /\ HandlerInv(t) /\ pc[t] = "owner" /\ req[t] \in Requests
      /\ Succeeded(t) => Authentic(OwnershipKey(req[t].did, req[t].cid), inbox[t].val)
  BY <1>0, AfterCall DEF IInv, TaskInv, MainKey
<1>2. Succeeded(t) => PairOf(t) \in vouched
  BY VerifiedIsVouched
<1>3. ASSUME NEW e, Refuse(t, OwnershipStatus(e))
      PROVE  IInv'
  <2>1. OwnershipStatus(e) \in {424, 404, 502}
    BY OwnershipStatuses
  <2>. QED BY <1>0, <1>3, <2>1, RefuseKeepsInv
<1>4. CASE Succeeded(t) /\ GoTo(t, "metadata") /\ UNCHANGED <<blob, resp>>
  <2>1. pc'[t] = "metadata" => HandlerInv(t)'
    BY <1>0, <1>1, <1>2, <1>4 DEF HandlerInv, PairOf, Served, Binding, Verified
  <2>. QED BY <1>0, <1>4, <2>1, GoOnKeepsInv DEF Locations
<1>5. CASE Succeeded(t) /\ Serve(t)
  <2>1. /\ pc' = [pc EXCEPT ![t] = pc'[t]] /\ pc'[t] = "done" /\ pc'[t] \in Locations
        /\ resp' = [resp EXCEPT ![t] = resp'[t]] /\ resp'[t] = 200
        /\ blob' = [blob EXCEPT ![t] = blob'[t]] /\ blob'[t] = blob[t]
        /\ blob'[t] \in Bodies \cup {None}
    BY <1>1, <1>5 DEF Serve, GoTo, TypeOK, HandlersTypeOK, Locations
  <2>2. HandlerInv(t)'
    BY <1>0, <1>1, <1>2, <1>5, <2>1 DEF HandlerInv, PairOf, Served, Binding, Verified
  <2>3. resp'[t] \in {0, 200, 403, 404, 408, 410, 413, 422, 424, 500, 502}
    BY <2>1
  <2>. QED BY <1>0, <2>1, <2>2, <2>3, ConsumeStep
<1>. QED BY <1>3, <1>4, <1>5 DEF OwnershipVerified

\* The handler's future is dropped: what it led is led by nobody, and everyone
\* who waited for it is woken.
LEMMA DropKeepsInv ==
    ASSUME IInv, NEW t \in Tasks, Drop(t)
    PROVE  IInv'
<1>. USE DEF Drop, Refuse, GoTo, worldVars, saidVars, purgeVars, historyVars
<1>0. TypeOK /\ CachesAuthentic /\ SaidGrows
  BY DEF IInv, SaidGrows
<1>1. MokaTypeOK' /\ entries' = entries
  BY <1>0, DropTypes DEF TypeOK
<1>2. CachesAuthentic'
  BY <1>0, <1>1, EntriesStayAuthentic
<1>3. TypeOK'
  BY <1>0, <1>1 DEF TypeOK, UpstreamsTypeOK, HandlersTypeOK, PurgesTypeOK, Locations
<1>4. ASSUME NEW u \in Tasks \ {t} PROVE LocalsKept(u) /\ MokaFrame(u)
  <2>1. MokaFrame(u)
    BY <1>0, DropFrame DEF IInv, TaskInv, TypeOK
  <2>. QED BY <1>0, <2>1 DEF LocalsKept, TypeOK, HandlersTypeOK, UpstreamsTypeOK
<1>5. TaskInv(t)'
  <2>1. /\ \A k \in CacheKeys : flight'[k] # t
        /\ parked'[t] = None /\ inbox'[t] = None
    BY <1>0, NoneAssumption DEF DropFuture, TypeOK, MokaTypeOK
  <2>2. pc'[t] = "done" /\ resp'[t] = 408 /\ stage'[t] = "none" /\ wire'[t] = None
    BY <1>0 DEF TypeOK, HandlersTypeOK, UpstreamsTypeOK
  <2>. QED BY <2>1, <2>2 DEF TaskInv, LeadInv, StageInv, WaitInv, InboxInv, WireInv, HandlerInv,
                             Served
<1>. QED BY <1>0, <1>2, <1>3, <1>4, <1>5, StepOfTask

-----------------------------------------------------------------------------
(* Purges, expiries and the world.                                         *)

\* No task steps, and the caches lose entries at most.
LEMMA NobodySteps ==
    ASSUME IInv, TypeOK', UNCHANGED <<flight, parked, inbox, wire, saidVars, blobVars, handlerVars>>,
           \A k \in CacheKeys : entries'[k] \in {entries[k], None}
    PROVE  IInv'
<1>. USE DEF saidVars, blobVars, handlerVars
<1>1. SaidGrows
  BY DEF SaidGrows
<1>2. CachesAuthentic'
  BY <1>1, EntriesStayAuthentic DEF IInv
<1>3. ASSUME NEW u \in Tasks PROVE TaskInv(u)'
  BY <1>1, EntriesFrame, OthersKeepInv DEF IInv, TaskInv, LocalsKept
<1>. QED BY <1>2, <1>3 DEF IInv

\* An invalidation removes entries and adds none.
LEMMA InvalidateRemoves ==
    ASSUME MokaTypeOK, NEW ks, Invalidate(ks)
    PROVE  /\ MokaTypeOK' /\ UNCHANGED <<flight, parked, inbox>>
           /\ \A k \in CacheKeys : entries'[k] \in {entries[k], None}
BY DEF Invalidate, MokaTypeOK

\* The steps of a purge, and its failures, keep the invariant.
LEMMA PurgeStepsKeepInv ==
    ASSUME IInv, NEW a \in Admins, PurgeFails(a) \/ RunPurgeStep(a)
    PROVE  IInv'
<1>. USE DEF handlerVars, historyVars
<1>0. TypeOK
  BY DEF IInv
<1>1. CASE PurgeFails(a)
  <2>1. /\ UNCHANGED <<order, step, mokaVars, upstreamVars, blobVars, handlerVars, historyVars>>
        /\ \E s \in {401, 499} : answer' = [answer EXCEPT ![a] = s]
    BY <1>1 DEF PurgeFails, RejectPurge, DropPurge
  <2>2. TypeOK'
    BY <1>0, <2>1 DEF mokaVars, upstreamVars, worldVars, saidVars, blobVars, TypeOK, MokaTypeOK,
                      UpstreamsTypeOK, HandlersTypeOK, PurgesTypeOK
  <2>. QED BY <2>1, <2>2, NobodySteps DEF mokaVars, upstreamVars
<1>2. CASE RunPurgeStep(a)
  <2>1. /\ Invalidate(CurrentStep(a))
        /\ step' = [step EXCEPT ![a] = @ + 1]
        /\ \E s \in {200, answer[a]} : answer' = [answer EXCEPT ![a] = s]
        /\ UNCHANGED <<order, upstreamVars, blobVars>>
        /\ UNCHANGED <<watch, late, handlerVars>>
        /\ purged' \in {purged, purged \cup watch[a]}
    BY <1>2 DEF RunPurgeStep, PurgeStep
  <2>2. /\ MokaTypeOK' /\ UNCHANGED <<flight, parked, inbox>>
        /\ \A k \in CacheKeys : entries'[k] \in {entries[k], None}
    BY <1>0, <2>1, InvalidateRemoves DEF TypeOK
  <2>3. PurgesTypeOK'
    BY <1>0, <2>1 DEF TypeOK, PurgesTypeOK
  <2>4. TypeOK'
    BY <1>0, <2>1, <2>2, <2>3 DEF upstreamVars, worldVars, saidVars, blobVars, TypeOK,
                                  UpstreamsTypeOK, HandlersTypeOK
  <2>. QED BY <2>1, <2>2, <2>4, NobodySteps DEF upstreamVars
<1>. QED BY <1>1, <1>2

\* The start of a purge keeps the invariant.
LEMMA PurgeArrivesKeepsInv ==
    ASSUME IInv, NEW a \in Admins, NEW p \in Purges, PurgeArrives(a, p)
    PROVE  IInv'
<1>1. /\ UNCHANGED <<step, mokaVars, upstreamVars, blobVars, purged, late, handlerVars>>
      /\ \/ order' = [order EXCEPT ![a] = p] /\ UNCHANGED answer
         \/ answer' = [answer EXCEPT ![a] = 422] /\ UNCHANGED order
      /\ watch' = [watch EXCEPT ![a] = {k \in Covered(p) : Withdrawn(k) /\ ~Loading(k)}]
  BY DEF PurgeArrives, StartPurge
<1>2. Covered(p) \subseteq CacheKeys
  <2>1. CASE p.op = "purgeActor"
    BY <2>1 DEF Covered
  <2>2. CASE p.op = "purgeBlob"
    BY <2>2 DEF Covered
  <2>3. CASE p.op \notin {"purgeActor", "purgeBlob"}
    BY <2>3 DEF Covered
  <2>. QED BY <2>1, <2>2, <2>3
<1>3. PurgesTypeOK'
  BY <1>1, <1>2 DEF IInv, TypeOK, PurgesTypeOK
<1>4. TypeOK'
  BY <1>1, <1>3 DEF IInv, mokaVars, upstreamVars, worldVars, saidVars, blobVars, handlerVars,
                    TypeOK, MokaTypeOK, UpstreamsTypeOK, HandlersTypeOK
<1>. QED BY <1>1, <1>4, NobodySteps DEF mokaVars, upstreamVars

\* An entry that expires takes nothing else with it.
LEMMA EntryExpiresKeepsInv ==
    ASSUME IInv, NEW j \in CacheKeys, EntryExpires(j)
    PROVE  IInv'
<1>1. /\ Invalidate({j})
      /\ UNCHANGED <<upstreamVars, blobVars, purgeVars, handlerVars, historyVars>>
  BY DEF EntryExpires, Expire
<1>2. /\ MokaTypeOK' /\ UNCHANGED <<flight, parked, inbox>>
      /\ \A k \in CacheKeys : entries'[k] \in {entries[k], None}
  BY <1>1, InvalidateRemoves DEF IInv, TypeOK
<1>3. TypeOK'
  BY <1>1, <1>2 DEF IInv, upstreamVars, worldVars, saidVars, blobVars, purgeVars, handlerVars,
                    historyVars, TypeOK, UpstreamsTypeOK, HandlersTypeOK, PurgesTypeOK
<1>. QED BY <1>1, <1>2, <1>3, NobodySteps DEF upstreamVars

\* What the world takes back it has still said before.
LEMMA WorldKeepsInv ==
    ASSUME IInv, World
    PROVE  IInv'
<1>. USE DEF mokaVars, saidVars, blobVars, purgeVars, handlerVars, historyVars
<1>1. /\ WorldStep
      /\ UNCHANGED <<mokaVars, blobVars, purgeVars, handlerVars, historyVars>>
  BY DEF World
<1>2. UNCHANGED <<wire, saidVars>> /\ UpstreamsTypeOK'
  BY <1>1 DEF WorldStep, Takedown, Migrate, Delete, IInv, TypeOK, UpstreamsTypeOK
<1>3. TypeOK'
  BY <1>1, <1>2 DEF IInv, TypeOK, MokaTypeOK, HandlersTypeOK, PurgesTypeOK
<1>. QED BY <1>1, <1>2, <1>3, NobodySteps

-----------------------------------------------------------------------------
(* Every behaviour.                                                        *)

\* The invariant holds at the start.
LEMMA InitInv == Init => IInv
<1>. SUFFICES ASSUME Init PROVE IInv
  OBVIOUS
<1>. USE DEF Init, MokaInit, UpstreamsInit, BlobInit, PurgeInit
<1>1. TypeOK
  <2>1. MokaTypeOK
    BY DEF MokaTypeOK
  <2>2. UpstreamsTypeOK
    BY WorldAssumption DEF UpstreamsTypeOK
  <2>3. HandlersTypeOK
    BY DEF HandlersTypeOK, Locations
  <2>4. PurgesTypeOK
    BY DEF PurgesTypeOK
  <2>. QED BY <2>1, <2>2, <2>3, <2>4 DEF TypeOK
<1>2. CachesAuthentic
  BY DEF CachesAuthentic
<1>3. ASSUME NEW t \in Tasks PROVE TaskInv(t)
  BY NoneAssumption DEF TaskInv, LeadInv, StageInv, WaitInv, InboxInv, WireInv, HandlerInv, Served
<1>. QED BY <1>1, <1>2, <1>3 DEF IInv

\* Every step keeps the invariant.
LEMMA NextKeepsInv == IInv /\ [Next]_vars => IInv'
<1>. SUFFICES ASSUME IInv, [Next]_vars PROVE IInv'
  OBVIOUS
<1>1. CASE UNCHANGED vars
  <2>1. TypeOK'
    BY <1>1 DEF vars, mokaVars, upstreamVars, worldVars, saidVars, blobVars, purgeVars, handlerVars,
                historyVars, IInv, TypeOK, MokaTypeOK, UpstreamsTypeOK, HandlersTypeOK, PurgesTypeOK
  <2>. QED BY <1>1, <2>1, NobodySteps DEF vars, mokaVars, upstreamVars
<1>2. ASSUME NEW t \in Tasks, RejectMalformed(t) PROVE IInv'
  BY <1>2, RejectMalformedKeepsInv
<1>3. ASSUME NEW t \in Tasks, Handle(t) PROVE IInv'
  BY <1>3, PolicyClientKeepsInv, PolicyDecidedKeepsInv, FetchBlobKeepsInv, BlobFetchedKeepsInv,
     FetchOwnershipKeepsInv, OwnershipVerifiedKeepsInv, MetadataExtractedKeepsInv DEF Handle
<1>4. ASSUME NEW t \in Tasks, Drop(t) PROVE IInv'
  BY <1>4, DropKeepsInv
<1>5. ASSUME NEW t \in Tasks, NEW r \in Requests, Arrive(t, r) PROVE IInv'
  BY <1>5, ArriveKeepsInv
<1>6. ASSUME NEW a \in Admins, NEW p \in Purges, PurgeArrives(a, p) PROVE IInv'
  BY <1>6, PurgeArrivesKeepsInv
<1>7. ASSUME NEW a \in Admins, PurgeFails(a) \/ RunPurgeStep(a) PROVE IInv'
  BY <1>7, PurgeStepsKeepInv
<1>8. ASSUME NEW k \in CacheKeys, EntryExpires(k) PROVE IInv'
  BY <1>8, EntryExpiresKeepsInv
<1>9. CASE World
  BY <1>9, WorldKeepsInv
<1>10. CASE Quiescent
  BY <1>1, <1>10 DEF Quiescent
<1>. QED BY <1>1, <1>2, <1>3, <1>4, <1>5, <1>6, <1>7, <1>8, <1>9, <1>10 DEF Next

\* The invariant holds in every state of every behaviour.
THEOREM Invariance == Spec => []IInv
<1>. QED BY InitInv, NextKeepsInv, PTL DEF Spec

-----------------------------------------------------------------------------
(* What follows.                                                           *)

\* The variables keep their types.
THEOREM TypeCorrect == Spec => []TypeOK
<1>1. IInv => TypeOK
  BY DEF IInv
<1>. QED BY <1>1, Invariance, PTL

\* No cache ever holds what was not checked.
THEOREM CachesStayAuthentic == Spec => []CachesAuthentic
<1>1. IInv => CachesAuthentic
  BY DEF IInv
<1>. QED BY <1>1, Invariance, PTL

\* Whatever is served has the digest of the requested CID, an allowed type and
\* an allowed size.
THEOREM ServesVerified == Spec => []ServedIsVerified
<1>1. IInv => ServedIsVerified
  BY DEF IInv, TaskInv, HandlerInv, ServedIsVerified
<1>. QED BY <1>1, Invariance, PTL

\* Whatever is served for an actor, a host has vouched for.
THEOREM ServesVouched == Spec => []ServedIsVouched
<1>1. IInv => ServedIsVouched
  BY DEF IInv, TaskInv, HandlerInv, ServedIsVouched
<1>. QED BY <1>1, Invariance, PTL

\* Under a binding policy whatever is served was permitted.
THEOREM ServesPermitted == Spec => []ServedIsPermitted
<1>1. IInv => ServedIsPermitted
  BY DEF IInv, TaskInv, HandlerInv, ServedIsPermitted, Binding
<1>. QED BY <1>1, Invariance, PTL

\* No task waits for a load that nobody runs.
THEOREM WaitersAreLed == Spec => []WaitersHaveLeader
<1>1. IInv => WaitersHaveLeader
  BY DEF IInv, TaskInv, WaitInv, WaitersHaveLeader
<1>. QED BY <1>1, Invariance, PTL

\* No chain of waits is longer than two, so none is a circle.
THEOREM WaitsAreNotCircular == Spec => []NoCircularWait
<1>1. ASSUME IInv PROVE NoCircularWait
  <2>1. SUFFICES ASSUME NEW k \in CacheKeys, flight[k] # None, parked[flight[k]] # None
                 PROVE  k \notin IdentityKeys /\ parked[flight[k]] \in IdentityKeys
    BY DEF NoCircularWait
  <2>. DEFINE t == flight[k]
  <2>2. t \in Tasks /\ TaskInv(t)
    BY <1>1, <2>1 DEF IInv, TypeOK, MokaTypeOK
  <2>3. /\ pc[t] \in Working /\ req[t] \in Requests
        /\ parked[t] = AwaitedKey(t) /\ flight[AwaitedKey(t)] # t
    BY <2>1, <2>2 DEF TaskInv, WaitInv, HandlerInv, Working
  <2>4. k # AwaitedKey(t)
    BY <2>3
  <2>5. stage[t] = "pds" /\ k = MainKey(t)
    BY <2>2, <2>4 DEF TaskInv, LeadInv, AwaitedKey
  <2>6. AwaitedKey(t) = IdentityKey(req[t].did)
    BY <2>5 DEF AwaitedKey
  <2>7. AwaitedKey(t) \in IdentityKeys /\ MainKey(t) \notin IdentityKeys
    BY <2>3, <2>6, RequestKeys, Keys DEF MainKey
  <2>. QED BY <2>3, <2>5, <2>7
<1>. QED BY <1>1, Invariance, PTL
=============================================================================
