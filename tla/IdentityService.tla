--------------------------- MODULE IdentityService ---------------------------
(* identity_service.rs: the PDS host of an actor, cached per actor,        *)
(* concurrent resolutions of one actor coalesced.                          *)
EXTENDS Moka, Upstreams

CONSTANT DomainHosts  \* the hosts named by a domain; the others are IP literals

ASSUME HostAssumption == DomainHosts \subseteq Hosts

IdentityKey(d) == <<"identity", d, None>>
IdentityKeys == {"identity"} \X Dids \X {None}

\* A bug: the directory's failure is taken for a host.
PdsOfAnyAnswer(a) == Ok(a)

\* pds_for_did rejects a URL whose host is not a domain.
PdsOutcome(a) == IF a \in DomainHosts THEN Ok(a) ELSE Err("Identity")

PdsForDid(t, d) == LookUp(t, IdentityKey(d)) /\ UNCHANGED upstreamVars

DirectoryQueried(t, d) ==
    /\ flight[IdentityKey(d)] = t
    /\ DirectoryAnswers(t, d)
    /\ UNCHANGED mokaVars

\* A bug: after a failure the init future calls pds_for_did again, and waits for
\* itself.
DirectoryRetried(t, d) ==
    /\ Receive(t)
    /\ \/ wire[t] # "lost" /\ Resolve(t, IdentityKey(d), PdsOutcome(wire[t]))
       \/ /\ wire[t] = "lost"
          /\ parked' = [parked EXCEPT ![t] = IdentityKey(d)]
          /\ UNCHANGED <<entries, flight, inbox>>

DirectoryReceived(t, d) ==
    /\ Receive(t)
    /\ Resolve(t, IdentityKey(d), PdsOutcome(wire[t]))

IdentityStep(t, d) ==
    PdsForDid(t, d) \/ DirectoryQueried(t, d) \/ DirectoryReceived(t, d)
=============================================================================
