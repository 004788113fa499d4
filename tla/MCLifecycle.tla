------------------------------ MODULE MCLifecycle ------------------------------
(* Lifecycle for TLC: three processes and two connections.                 *)
EXTENDS Lifecycle

CONSTANTS p1, p2, p3, c1, c2
MCProcesses == {p1, p2, p3}
MCClients == {c1, c2}
MCSetups == [unix : BOOLEAN, overlap : BOOLEAN]
=============================================================================
