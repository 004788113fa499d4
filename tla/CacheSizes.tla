----------------------------- MODULE CacheSizes -----------------------------
(***************************************************************************)
(* compute_cache_sizes (cache.rs): the memory given to the caches is split *)
(* among the four of them.  The product with 0.10 is a floating-point one  *)
(* that is truncated; below 480 MB it is the integer quotient by 10, and   *)
(* above it the cap decides.                                               *)
(***************************************************************************)
EXTENDS Integers

Smaller(a, b) == IF a <= b THEN a ELSE b

\* The share of the policy, the ownership and the identity cache, each.
Share(n) == Smaller(n \div 10, 48000000)

\* A bug: one of the three equal shares is not subtracted.
RestOfTwo(n) == n - Share(n) - Share(n)

\* What checked_sub leaves after three shares; negative is AllocationUnderflow.
Rest(n) == n - Share(n) - Share(n) - Share(n)

\* blob, ownership, policy and identity.
ComputeCacheSizes(n) ==
    [blob |-> Rest(n), ownership |-> Share(n), policy |-> Share(n), identity |-> Share(n)]
=============================================================================
