------------------------------ MODULE MCServer ------------------------------
(* Instances of the server for TLC.                                        *)
EXTENDS ServerProperties, TLC

CONSTANTS
    t1, t2, t3, a1, a2,     \* tasks and admins
    alice, bob, c1, c2,     \* actors and CIDs
    h1, h2, ip,             \* hosts, the last an IP literal
    good, video, exe, huge, junk  \* bytes

SomeDigests == (good :> c1) @@ (video :> c2) @@ (exe :> c1) @@ (huge :> c1) @@ (junk :> None)
MCDigest == [b \in Bodies |-> SomeDigests[b]]

Get(d, c) == [op |-> "getBlob", did |-> d, cid |-> c]
GetMetadata(d, c) == [op |-> "getBlobMetadata", did |-> d, cid |-> c]
ActorPurge(d) == [op |-> "purgeActor", did |-> d, cid |-> None]
BlobPurge(c) == [op |-> "purgeBlob", did |-> None, cid |-> c]
FullPurge == [op |-> "purgeAll", did |-> None, cid |-> None]

\* Every actor on a host of its own; the first hosts of alice and bob.
Apart == [d \in Dids |-> IF d = alice THEN h1 ELSE h2]
Together == [d \in Dids |-> h1]
OnAnAddress == [d \in Dids |-> IF d = alice THEN h1 ELSE ip]

Both == {Get(d, c1) : d \in {alice, bob}}
AnyPurge == {ActorPurge(alice), BlobPurge(c1), FullPurge}
AliceOnly == {Get(alice, c1)}
AliceAnyhow == {Get(alice, c1), GetMetadata(alice, c2)}
Everything == {Get(alice, c1), GetMetadata(alice, c2), Get(bob, c1), GetMetadata(bob, c1)}

EverybodyHolds == {<<HomePds[d], d, c>> : d \in Dids, c \in Cids}
AllHostsHold == Hosts \X Dids \X Cids
OnlyBobHolds == {<<HomePds[bob], bob, c1>>}

TaskSymmetry == Permutations(Tasks)
=============================================================================
