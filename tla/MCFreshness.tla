---------------------------- MODULE MCFreshness ----------------------------
(* Timed instances of the server for TLC.                                  *)
EXTENDS MCServer, Freshness

\* Alice's first host has her blob, the other does not.
OnlyHomeHolds == {<<h1, alice, c1>>}
PurgeOfTheBlob == {BlobPurge(c1)}
=============================================================================
