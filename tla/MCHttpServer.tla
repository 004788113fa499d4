---------------------------- MODULE MCHttpServer ----------------------------
(* Requests for every route, and beside them, for TLC.                     *)
EXTENDS HttpServer

CONSTANTS did, cid, secret, wrong  \* a DID, a CID, the right password and another

Paths == {<<"">>, <<did>>, <<did, cid>>, <<did, cid, "">>, <<did, cid, "more">>,
          <<"xrpc">>, <<"xrpc", "">>, <<"xrpc", "unknown">>, <<"xrpc", "unknown", "">>,
          <<"xrpc", did, cid>>}
         \cup {<<"xrpc", m>> : m \in Queries \cup Procedures}

MCPasswords == {secret, None}
Credentials == {None} \cup [user : {"admin", did}, password : {secret, wrong}]

MCRequests ==
    [method : {"GET", "HEAD", "POST", "PUT", "OPTIONS"}, path : Paths,
     credentials : Credentials, parses : BOOLEAN]
=============================================================================
