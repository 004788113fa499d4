---------------------------- MODULE PolicyClient ----------------------------
(* policy_client.rs: the policy service's decisions, cached per actor and  *)
(* blob, concurrent queries of one pair coalesced.                         *)
EXTENDS Moka, Upstreams

\* A bug: decisions are cached per blob, whoever it is of.
PolicyKeyOfBlob(d, c) == <<"policy", CHOOSE x \in Dids : TRUE, c>>

PolicyKey(d, c) == <<"policy", d, c>>
PolicyKeys == {"policy"} \X Dids \X Cids

\* What get_policy makes of an answer.  GetBlobPolicyOutput is a closed
\* union, so any third decision fails to deserialize.
PolicyOutcome(a) ==
    CASE a = "allowed"   -> Ok("Allowed")
      [] a = "forbidden" -> Ok("Forbidden")
      [] a = "refused"   -> Err("StatusCode")
      [] a = "garbled"   -> Err("Deserialize")
      [] OTHER           -> Err("HttpClient")

\* get_policy calls try_get_with.
GetPolicy(t, d, c) == LookUp(t, PolicyKey(d, c)) /\ UNCHANGED upstreamVars

\* The init future of t has sent its query, and the service answers it.
PolicyQueried(t, d, c) ==
    /\ flight[PolicyKey(d, c)] = t
    /\ PolicyServiceAnswers(t, d, c)
    /\ UNCHANGED mokaVars

\* The init future of t resolves.
PolicyReceived(t, d, c) ==
    /\ Receive(t)
    /\ Resolve(t, PolicyKey(d, c), PolicyOutcome(wire[t]))

PolicyClientStep(t, d, c) ==
    GetPolicy(t, d, c) \/ PolicyQueried(t, d, c) \/ PolicyReceived(t, d, c)

\* A bug: the predicate compares the wrong half of the key.
PolicyKeysMixedUp(d) == {k \in PolicyKeys : k[3] = d}

\* invalidate_cache_entries_if with the two predicates the purges pass.
PolicyKeysOfDid(d) == {k \in PolicyKeys : k[2] = d}
PolicyKeysOfCid(c) == {k \in PolicyKeys : k[3] = c}
=============================================================================
