---------------------------- MODULE GatewayProofs ----------------------------
(***************************************************************************)
(* Proof that the server implements Gateway: every step of the server is a *)
(* step of the promise or a stutter.  What the server holds and has not    *)
(* served is not part of the promise, so only the step that answers shows. *)
(***************************************************************************)
EXTENDS ServerProofs

Content == [t \in Tasks |-> IF resp[t] = 200 THEN blob[t] ELSE None]
PromiseVars == <<req, resp, Content, vouched, permitted>>

\* The shape of a step that no client can observe: no answer is given.
LEMMA SilentStep ==
    ASSUME TypeOK, UNCHANGED <<req, resp>>,
           \A t \in Tasks : resp[t] = 200 => blob'[t] = blob[t]
    PROVE  Content' = Content
BY DEF Content

\* What was said by the upstreams is all that a call to a service shows.
LEMMA CallIsSilent ==
    ASSUME IInv, UNCHANGED <<req, resp, blob>>,
           \/ UNCHANGED saidVars
           \/ \E p \in Dids \X Cids : vouched' = vouched \cup {p} /\ permitted' = permitted
           \/ \E p \in Dids \X Cids : permitted' = permitted \cup {p} /\ vouched' = vouched
    PROVE  [Promise!Next]_PromiseVars
<1>1. Content' = Content
  BY SilentStep DEF IInv
<1>2. CASE UNCHANGED saidVars
  BY <1>1, <1>2 DEF saidVars, PromiseVars
<1>3. ASSUME NEW p \in Dids \X Cids, vouched' = vouched \cup {p}, permitted' = permitted
      PROVE  Promise!Next
  <2>1. Promise!Vouch(p)
    BY <1>1, <1>3 DEF Promise!Vouch, Content
  <2>. QED BY <2>1 DEF Promise!Next
<1>4. ASSUME NEW p \in Dids \X Cids, permitted' = permitted \cup {p}, vouched' = vouched
      PROVE  Promise!Next
  <2>1. Promise!Permit(p)
    BY <1>1, <1>4 DEF Promise!Permit, Content
  <2>. QED BY <2>1 DEF Promise!Next
<1>. QED BY <1>2, <1>3, <1>4

\* A refusal, of a request that was not answered before.
LEMMA RefusalIsPromised ==
    ASSUME IInv, NEW t \in Tasks, pc[t] # "done", NEW s \in Promise!Refusals,
           Refuse(t, s), UNCHANGED <<req, saidVars>>
    PROVE  Promise!Next
<1>1. resp[t] = 0 /\ TypeOK
  BY DEF IInv, TaskInv, HandlerInv
<1>2. resp' = [resp EXCEPT ![t] = s] /\ blob' = [blob EXCEPT ![t] = None] /\ s # 200
  BY DEF Refuse, Promise!Refusals
<1>3. Content' = Content
  BY <1>1, <1>2 DEF Content, TypeOK, HandlersTypeOK
<1>4. Promise!Refuse(t, s)
  BY <1>1, <1>2, <1>3 DEF Promise!Refuse, Content, saidVars
<1>. QED BY <1>4 DEF Promise!Next

\* A 200, for what the handler holds.
LEMMA ServingIsPromised ==
    ASSUME IInv, NEW t \in Tasks, pc[t] \in {"owner", "metadata"}, Serve(t),
           PairOf(t) \in vouched, UNCHANGED <<req, saidVars>>
    PROVE  Promise!Next
<1>1. /\ TypeOK /\ resp[t] = 0 /\ req[t] \in Requests
      /\ blob[t] \in Verified(req[t].cid)
      /\ Binding => PairOf(t) \in permitted
  BY DEF IInv, TaskInv, HandlerInv
<1>2. resp' = [resp EXCEPT ![t] = 200] /\ blob' = blob
  BY DEF Serve
<1>3. Content' = [Content EXCEPT ![t] = blob[t]]
  <2>1. Content' = [u \in Tasks |-> IF u = t THEN blob[t] ELSE Content[u]]
    BY <1>1, <1>2 DEF Content, TypeOK, HandlersTypeOK
  <2>2. @ = [Content EXCEPT ![t] = blob[t]]
    BY DEF Content
  <2>. QED BY <2>1, <2>2
<1>4. req[t] # None /\ req[t].cid \in Cids
  BY <1>1, NoneIsNothing, RequestKeys
<1>5. PICK c \in Cids, b \in Verified(req[t].cid) : c = req[t].cid /\ b = blob[t]
  BY <1>1, <1>4
<1>6. Promise!Serve(t, b)
  BY <1>1, <1>2, <1>3, <1>4, <1>5 DEF Promise!Serve, Promise!Pair, PairOf, Content, saidVars, Binding
<1>. DEFINE genuine == [x \in Cids |-> Verified(x)]
<1>7. c \in DOMAIN genuine /\ b \in genuine[c]
  BY <1>1, <1>5
<1>. QED BY <1>6, <1>7 DEF Promise!Next

-----------------------------------------------------------------------------
(* The steps of the server.                                                *)

\* No answer is given while a blob, or its ownership, is being fetched.
LEMMA FetchIsSilent ==
    ASSUME IInv, NEW t \in Tasks,
           CallPolicyClient(t) \/ CallFetchBlob(t) \/ CallFetchOwnership(t)
    PROVE  [Promise!Next]_PromiseVars
<1>. DEFINE p == PairOf(t)
<1>1. UNCHANGED handlerVars /\ req[t] \in Requests /\ p \in Dids \X Cids
  BY RequestKeys DEF IInv, TaskInv, HandlerInv, CallPolicyClient, CallFetchBlob, CallFetchOwnership, PairOf
<1>2. \/ UNCHANGED saidVars
      \/ vouched' = vouched \cup {p} /\ permitted' = permitted
      \/ permitted' = permitted \cup {p} /\ vouched' = vouched
  <2>. USE DEF Receive, Fail, Answer, saidVars, upstreamVars, PairOf
  <2>1. CASE CallPolicyClient(t)
    BY <2>1 DEF CallPolicyClient, PolicyClientStep, GetPolicy, PolicyQueried, PolicyReceived,
                PolicyServiceAnswers
  <2>2. CASE \E k : ResolveHost(t, req[t].did, k) \/ Fetch(t, k)
    BY <2>2 DEF ResolveHost, Fetch, IdentityStep, PdsForDid, DirectoryQueried, DirectoryReceived,
                DirectoryAnswers
  <2>3. CASE CallFetchBlob(t)
    BY <2>2, <2>3 DEF CallFetchBlob, FetchBlob, BlobQueried, BlobAnswers, HostAnswers, BlobReceived,
                      OwnershipInserted, BlobReturned
  <2>4. CASE CallFetchOwnership(t)
    BY <2>2, <2>4 DEF CallFetchOwnership, FetchBlobOwnership, OwnershipQueried, OwnershipAnswers,
                      HostAnswers, OwnershipReceived
  <2>. QED BY <2>1, <2>3, <2>4
<1>. QED BY <1>1, <1>2, CallIsSilent DEF handlerVars

\* Every step of the server is a step of the promise, or none of it.
LEMMA StepsImplement ==
    ASSUME IInv, [Next]_vars
    PROVE  [Promise!Next]_PromiseVars
<1>. USE DEF saidVars, upstreamVars
<1>1. CASE \/ UNCHANGED vars \/ Quiescent \/ World
           \/ \E k \in CacheKeys : EntryExpires(k)
           \/ \E a \in Admins : PurgeFails(a) \/ RunPurgeStep(a)
           \/ \E a \in Admins, p \in Purges : PurgeArrives(a, p)
  <2>1. UNCHANGED <<handlerVars, saidVars>>
    BY <1>1 DEF vars, Quiescent, World, WorldStep, Takedown, Migrate, Delete, EntryExpires,
                PurgeFails, RejectPurge, DropPurge, RunPurgeStep, PurgeStep, PurgeArrives, StartPurge
  <2>. QED BY <2>1, CallIsSilent DEF handlerVars
<1>2. ASSUME NEW t \in Tasks, RejectMalformed(t)
      PROVE  Promise!Next
  BY <1>2, RefusalIsPromised DEF RejectMalformed, Promise!Refusals
<1>3. ASSUME NEW t \in Tasks, Drop(t)
      PROVE  Promise!Next
  BY <1>3, RefusalIsPromised DEF Drop, Promise!Refusals
<1>4. ASSUME NEW t \in Tasks, NEW r \in Requests, Arrive(t, r)
      PROVE  Promise!Next
  <2>1. req[t] = None /\ resp[t] = 0
    BY <1>4 DEF Arrive, IInv, TaskInv, HandlerInv
  <2>2. req' = [req EXCEPT ![t] = r] /\ UNCHANGED <<resp, blob, saidVars>>
    BY <1>4 DEF Arrive
  <2>3. Promise!Ask(t, r)
    BY <2>1, <2>2 DEF Promise!Ask
  <2>. QED BY <2>3 DEF Promise!Next
<1>5. ASSUME NEW t \in Tasks, CallPolicyClient(t) \/ CallFetchBlob(t) \/ CallFetchOwnership(t)
      PROVE  [Promise!Next]_PromiseVars
  BY <1>5, FetchIsSilent
<1>6. ASSUME NEW t \in Tasks, NEW s \in Promise!Refusals, pc[t] # "done", Refuse(t, s),
             UNCHANGED <<req, saidVars>>
      PROVE  Promise!Next
  BY <1>6, RefusalIsPromised
<1>7. ASSUME NEW t \in Tasks, PolicyDecided(t)
      PROVE  [Promise!Next]_PromiseVars
  <2>1. pc[t] # "done" /\ UNCHANGED <<req, saidVars>>
    BY <1>7 DEF PolicyDecided, Returned
  <2>2. CASE UNCHANGED <<blob, resp>>
    BY <2>1, <2>2, CallIsSilent
  <2>3. CASE Refuse(t, 410) \/ Refuse(t, 500)
    BY <2>1, <2>3, <1>6 DEF Promise!Refusals
  <2>. QED BY <1>7, <2>2, <2>3 DEF PolicyDecided
<1>8. ASSUME NEW t \in Tasks, BlobFetched(t)
      PROVE  [Promise!Next]_PromiseVars
  <2>1. pc[t] = "data" /\ UNCHANGED <<req, saidVars>> /\ TypeOK /\ resp[t] = 0
    BY <1>8 DEF BlobFetched, Returned, IInv, TaskInv, HandlerInv
  <2>2. CASE blob' = [blob EXCEPT ![t] = inbox[t].val] /\ UNCHANGED resp
    <3>1. Content' = Content
      BY <2>1, <2>2, SilentStep DEF TypeOK, HandlersTypeOK
    <3>. QED BY <2>1, <2>2, <3>1 DEF PromiseVars
  <2>3. ASSUME NEW e, Refuse(t, DownloadStatus(e))
        PROVE  Promise!Next
    <3>1. DownloadStatus(e) \in {403, 413, 424, 404, 502}
      BY DownloadStatuses
    <3>. QED BY <2>1, <2>3, <3>1, <1>6 DEF Promise!Refusals
  <2>. QED BY <1>8, <2>2, <2>3 DEF BlobFetched
<1>9. ASSUME NEW t \in Tasks, OwnershipVerified(t)
      PROVE  [Promise!Next]_PromiseVars
  <2>1. pc[t] = "owner" /\ UNCHANGED <<req, saidVars>>
    BY <1>9 DEF OwnershipVerified, Returned
  <2>2. CASE UNCHANGED <<blob, resp>>
    BY <2>1, <2>2, CallIsSilent
  <2>3. ASSUME NEW e, Refuse(t, OwnershipStatus(e))
        PROVE  Promise!Next
    <3>1. OwnershipStatus(e) \in {424, 404, 502}
      BY OwnershipStatuses
    <3>. QED BY <2>1, <2>3, <3>1, <1>6 DEF Promise!Refusals
  <2>4. CASE Succeeded(t) /\ Serve(t)
    <3>1. PairOf(t) \in vouched
      BY <1>9, <2>1, <2>4, VerifiedIsVouched
    <3>. QED BY <2>1, <2>4, <3>1, ServingIsPromised
  <2>. QED BY <1>9, <2>2, <2>3, <2>4 DEF OwnershipVerified
<1>10. ASSUME NEW t \in Tasks, MetadataExtracted(t)
       PROVE  Promise!Next
  <2>1. PairOf(t) \in vouched
    BY <1>10 DEF MetadataExtracted, IInv, TaskInv, HandlerInv
  <2>. QED BY <1>10, <2>1, ServingIsPromised DEF MetadataExtracted
<1>. QED BY <1>1, <1>2, <1>3, <1>4, <1>5, <1>7, <1>8, <1>9, <1>10 DEF Next, Handle

\* The server starts where the promise does.
LEMMA InitImplements == Init => Promise!Init
BY DEF Init, UpstreamsInit, Promise!Init

\* The server keeps the promise made to its clients.
THEOREM Implements == Spec => KeepsPromise
<1>1. IInv /\ [Next]_vars => [Promise!Next]_Promise!vars
  BY StepsImplement DEF Promise!vars, PromiseVars, Content
<1>. QED BY <1>1, Invariance, InitImplements, PTL DEF Spec, KeepsPromise, Promise!Spec
=============================================================================
