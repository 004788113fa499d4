----------------------------- MODULE BlobWeights -----------------------------
(***************************************************************************)
(* The weights of the blob cache.  moka bounds the sum of the weights of   *)
(* what it has admitted, not the memory: the weigher is what relates the   *)
(* two.  An insertion is visible at once, and admitted, or thrown out      *)
(* again, when moka gets to its pending writes.                            *)
(***************************************************************************)
EXTENDS Naturals, FiniteSets, Functions

CONSTANTS
    Blobs,     \* the blobs that are inserted
    Length,    \* Length[b]: how long each of them is, at most max_blob_size
    Capacity,  \* data_cache_max_capacity
    U32Max     \* the greatest weight

ASSUME LengthAssumption == Length \in [Blobs -> Nat] /\ {Capacity, U32Max} \subseteq Nat

VARIABLES
    pending,   \* the blobs inserted since
    admitted   \* the blobs moka has admitted

weightVars == <<pending, admitted>>

\* A bug: no weigher, every entry counts as one.
WeightOne(b) == 1

\* value.bytes.len().try_into().unwrap_or(u32::MAX)
Weight(b) == IF Length[b] > U32Max THEN U32Max ELSE Length[b]

Weights(bs) == SumFunction([b \in bs |-> Weight(b)])
Bytes(bs) == SumFunction([b \in bs |-> Length[b]])

WeightsInit == pending = {} /\ admitted = {}

Insert ==
    \E b \in Blobs \ (pending \cup admitted) :
        pending' = pending \cup {b} /\ UNCHANGED admitted

\* The newcomer displaces others, or is displaced, so that the weights fit.
Admit ==
    \E b \in pending :
        /\ pending' = pending \ {b}
        /\ \E kept \in SUBSET (admitted \cup {b}) :
               /\ Weights(kept) <= Capacity
               /\ (Weights(admitted \cup {b}) <= Capacity => kept = admitted \cup {b})
               /\ admitted' = kept

\* Idle for too long, or purged.
Vanish ==
    \E b \in pending \cup admitted :
        pending' = pending \ {b} /\ admitted' = admitted \ {b}

WeightsNext == Insert \/ Admit \/ Vanish
WeightsSpec == WeightsInit /\ [][WeightsNext]_weightVars

-----------------------------------------------------------------------------

\* The bytes of the admitted blobs fit into the blob cache's share of the memory, as
\* long as none of them is longer than the greatest weight ("Total memory allocation
\* for the internal cache").  A longer one weighs less than it is.
HeldFits ==
    (\A b \in admitted : Length[b] <= U32Max) => Bytes(admitted) <= Capacity
=============================================================================
