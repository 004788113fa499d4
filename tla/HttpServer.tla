----------------------------- MODULE HttpServer -----------------------------
(***************************************************************************)
(* One request on its way through the router: server/mod.rs.  The router   *)
(* picks the route from the path as it came; the layers run after that, the *)
(* outermost first, and take the answer on its way back, or the panic that *)
(* unwinds.  What a handler does inside is the matter of Server: here it   *)
(* answers, panics, or is cut by the TimeoutLayer of its route.            *)
(*                                                                         *)
(* A path is the sequence of its segments, the last one "" where it ends   *)
(* with a slash; "/" is <<"">>.                                            *)
(***************************************************************************)
EXTENDS Naturals, Sequences

CONSTANTS
    Requests,  \* the requests that arrive, records [method, path, credentials, parses]
    Passwords, \* what --server-admin-password may be, None where it is not given
    None

VARIABLES
    password,  \* --server-admin-password of this server
    ask,       \* the request, or None
    route,     \* the route its path matched
    depth,     \* the layer that runs; the handler below the last, nobody at 0
    way,       \* "in", "out", or "panic" while a panic unwinds
    reply,     \* the answer so far, or None
    ran,       \* the handlers that ran
    panicked   \* whether one of them panicked

httpVars == <<password, ask, route, depth, way, reply, ran, panicked>>

\* A bug: the layers in the order they are added in, the first one outermost.
LayersAsAdded == <<"catchPanic", "normalizePath", "serverHeaders", "cors">>

\* The last layer added is the outermost.  TraceLayer, which only logs, is left out.
Layers == <<"cors", "serverHeaders", "normalizePath", "catchPanic">>

\* What is in an answer: xrpc, whether its body is an XRPC error; store, what its
\* Cache-Control says; marked and cors, whether those layers' headers are there.
Reply(status, xrpc, store) ==
    [status |-> status, xrpc |-> xrpc, store |-> store, marked |-> FALSE, cors |-> FALSE]
Replies ==
    [status : Nat, xrpc : BOOLEAN, store : {"unset", "noStore", "configured"},
     marked : BOOLEAN, cors : BOOLEAN]

\* Credentials are a user and a password.
ASSUME HttpAssumption ==
    /\ None \notin Requests /\ None \notin Replies
    /\ \A r \in Requests : LET c == r.credentials IN
         c # None => c = [user |-> c.user, password |-> c.password]

HttpInit ==
    /\ password \in Passwords
    /\ ask = None
    /\ route = "none"
    /\ depth = 0
    /\ way = "in"
    /\ reply = None
    /\ ran = {}
    /\ panicked = FALSE

-----------------------------------------------------------------------------
(* Routes.                                                                 *)

Queries == {"_health", "dev.blooym.porxie.getBlob", "dev.blooym.porxie.getBlobMetadata"}
Procedures == {"dev.blooym.porxie.cache.purgeActor", "dev.blooym.porxie.cache.purgeBlob",
               "dev.blooym.porxie.cache.purgeAll"}
BlobRoutes == {"blob", "dev.blooym.porxie.getBlob", "dev.blooym.porxie.getBlobMetadata"}

\* A bug: no catch-all below /xrpc.
RouteWithoutRest(p) ==
    CASE p = <<"">>                                            -> "index"
      [] Len(p) = 2 /\ p[1] = "xrpc" /\ p[2] \in Queries \cup Procedures -> p[2]
      [] Len(p) = 2 /\ p[1] # "" /\ p[2] \notin {""} \cup Queries \cup Procedures -> "blob"
      [] OTHER                                                 -> "none"

\* A literal segment goes before a parameter, and a parameter takes one segment
\* that is not empty.
RouteOf(p) ==
    CASE p = <<"">>                                            -> "index"
      [] Len(p) = 2 /\ p[1] = "xrpc" /\ p[2] \in Queries \cup Procedures -> p[2]
      [] Len(p) = 2 /\ p[1] = "xrpc" /\ p[2] \notin {""} \cup Queries \cup Procedures -> "rest"
      [] Len(p) = 2 /\ p[1] \notin {"", "xrpc"} /\ p[2] # ""   -> "blob"
      [] OTHER                                                 -> "none"

\* The methods a route has a handler for: get() serves HEAD too.
MethodsOf(r) ==
    CASE r \in {"index", "blob"} \cup Queries -> {"GET", "HEAD"}
      [] r \in Procedures                     -> {"POST"}
      [] r = "rest"                           -> {"GET", "HEAD", "POST"}
      [] OTHER                                -> {}

-----------------------------------------------------------------------------
(* The way in and the way out.                                             *)

Receive(r) ==
    /\ ask = None
    /\ ask' = r
    /\ route' = RouteOf(r.path)
    /\ depth' = 1
    /\ UNCHANGED <<password, way, reply, ran, panicked>>

Above == depth' = depth - 1

\* permissive() answers every OPTIONS request itself.
PassIn ==
    /\ way = "in" /\ depth \in DOMAIN Layers
    /\ IF Layers[depth] = "cors" /\ ask.method = "OPTIONS"
       THEN reply' = Reply(200, FALSE, "unset") /\ way' = "out" /\ UNCHANGED depth
       ELSE depth' = depth + 1 /\ UNCHANGED <<reply, way>>
    /\ UNCHANGED <<password, ask, route, ran, panicked>>

PassOut ==
    /\ way = "out" /\ depth \in DOMAIN Layers
    /\ reply' = CASE Layers[depth] = "serverHeaders" -> [reply EXCEPT !.marked = TRUE]
                  [] Layers[depth] = "cors"          -> [reply EXCEPT !.cors = TRUE]
                  [] OTHER                           -> reply
    /\ Above
    /\ UNCHANGED <<password, ask, route, way, ran, panicked>>

\* A panic ends at xrpc_internal_error_panic_handler.
Unwind ==
    /\ way = "panic" /\ depth \in DOMAIN Layers
    /\ IF Layers[depth] = "catchPanic"
       THEN reply' = Reply(500, TRUE, "unset") /\ way' = "out"
       ELSE UNCHANGED <<reply, way>>
    /\ Above
    /\ UNCHANGED <<password, ask, route, ran, panicked>>

-----------------------------------------------------------------------------
(* The handlers.                                                           *)

AtHandler == ask # None /\ way = "in" /\ depth = Len(Layers) + 1

Respond(r) ==
    /\ reply' = r
    /\ way' = "out"
    /\ Above
    /\ UNCHANGED <<password, ask, route, panicked>>

\* No route, or no handler for the method: axum answers.
Unrouted ==
    /\ AtHandler
    /\ \/ route = "none" /\ Respond(Reply(404, FALSE, "unset"))
       \/ /\ route # "none" /\ ask.method \notin MethodsOf(route)
          /\ Respond(Reply(405, FALSE, "unset"))
    /\ UNCHANGED ran

Handled(r) == AtHandler /\ route = r /\ ask.method \in MethodsOf(r)
Run(h) == ran' = ran \cup {h}

\* get_index_handler and xrpc_get_health_handler.
Fixed ==
    \/ Handled("index") /\ Respond(Reply(200, FALSE, "unset")) /\ Run("index")
    \/ Handled("_health") /\ Respond(Reply(200, FALSE, "noStore")) /\ Run("_health")

\* xrpc_fallback_handler.  (xrpc_nonspec_method_handler answers as Unrouted does.)
Fallback ==
    /\ Handled("rest")
    /\ Respond(Reply(501, TRUE, "unset"))
    /\ Run("rest")

\* A bug: with no password configured, none is asked for.
AdmittedUnlessSet(c) == password # None => c # None /\ c.user = "admin" /\ c.password = password

\* c is a user and a password, or None where no Authorization header is Basic.
Admitted(c) ==
    /\ c # None /\ c.user = "admin"
    /\ password # None /\ c.password = password

\* AdminXrpcAuth, then the XRPC extractor, then the handler of a purge.
Purge ==
    /\ \E p \in Procedures : Handled(p)
    /\ \/ /\ ~Admitted(ask.credentials)
          /\ Respond(Reply(401, FALSE, "unset"))
          /\ UNCHANGED ran
       \/ /\ Admitted(ask.credentials) /\ ~ask.parses
          /\ Respond(Reply(400, TRUE, "unset"))
          /\ UNCHANGED ran
       \/ /\ Admitted(ask.credentials) /\ ask.parses
          /\ Run(route)
          /\ \/ Respond(Reply(200, FALSE, "unset"))
             \/ /\ route = "dev.blooym.porxie.cache.purgeBlob"
                /\ Respond(Reply(422, TRUE, "noStore"))

\* The statuses get_blob_handler and xrpc_get_blob_metadata_handler refuse with.
BlobRefusals == {400, 403, 404, 410, 413, 422, 424, 500, 502}

\* A bug: a refusal says the same of its caching as the blob does.
RefusalCachedAsBlob(s) == Reply(s, TRUE, "configured")

Refusal(s) == Reply(s, TRUE, "noStore")

GetBlob ==
    /\ \E r \in BlobRoutes : Handled(r)
    /\ \/ /\ route # "blob" /\ ~ask.parses
          /\ Respond(Reply(400, TRUE, "unset"))
          /\ UNCHANGED ran
       \/ /\ route = "blob" \/ ask.parses
          /\ Run(route)
          /\ \/ Respond(Reply(200, FALSE, "configured"))
             \/ \E s \in BlobRefusals : Respond(Refusal(s))
             \/ Respond(Reply(408, FALSE, "unset"))  \* the TimeoutLayer

\* A handler panics once it runs.
Panic ==
    /\ AtHandler
    /\ ask.method \in MethodsOf(route)
    /\ route \in Procedures => Admitted(ask.credentials)
    /\ route \in Procedures \cup (BlobRoutes \ {"blob"}) => ask.parses
    /\ way' = "panic"
    /\ panicked' = TRUE
    /\ Run(route)
    /\ Above
    /\ UNCHANGED <<password, ask, route, reply>>

Sent == depth = 0 /\ ask # None

HttpNext ==
    \/ \E r \in Requests : Receive(r)
    \/ PassIn \/ PassOut \/ Unwind
    \/ Unrouted \/ Fixed \/ Fallback \/ Purge \/ GetBlob \/ Panic
    \/ Sent /\ UNCHANGED httpVars

HttpSpec == HttpInit /\ [][HttpNext]_httpVars

-----------------------------------------------------------------------------
(* Properties.                                                             *)

Under(prefix) == ask # None /\ ask.path[1] = prefix

\* "Ensure /xrpc/... routes don't fall through elsewhere": no path below /xrpc is
\* taken for the blob of an actor, a method the server does not have is answered as
\* such, and nothing else reaches an XRPC method.
XrpcStaysApart ==
    /\ Under("xrpc") => ran \cap {"index", "blob"} = {}
    /\ Sent /\ route = "rest" /\ ask.method \in {"GET", "POST"} =>
           reply.status \in {500, 501} /\ reply.xrpc
    /\ ask # None /\ ~Under("xrpc") => ran \subseteq {"index", "blob"}

\* A purge runs for a POST by the admin only, and for nobody where no password is
\* configured ("When not set, authenticated endpoints will be unavailable").
PurgesAreAdmins ==
    ran \cap Procedures # {} =>
        /\ ask.method = "POST"
        /\ password # None
        /\ ask.credentials = [user |-> "admin", password |-> password]

\* Every answer carries the server's headers and CORS, a panic's and a refused
\* method's too; only the answer CORS gives itself lacks the server's.  A panic
\* anywhere is an XRPC error to the client, never a broken connection (CHANGELOG
\* 0.3.4: "Panics on all endpoints now return an XRPC-compatiable error format").
AnswersAreWhole ==
    Sent =>
        /\ reply # None /\ reply.cors
        /\ ask.method # "OPTIONS" => reply.marked
        /\ panicked => reply.status = 500 /\ reply.xrpc

\* What caches may store of a GET when the answer does not say (RFC 9110, 15.1).
HeuristicallyCacheable == {200, 203, 204, 206, 300, 301, 308, 404, 405, 410, 414, 501}

\* No refusal of a blob outlives its cause in a cache downstream: it forbids
\* storing, or has a status that is not stored unasked.
RefusalsNotStored ==
    Sent /\ route \in BlobRoutes /\ ask.method = "GET" /\ reply.status # 200 =>
        \/ reply.store = "noStore"
        \/ reply.store = "unset" /\ reply.status \notin HeuristicallyCacheable

\* CHANGELOG 0.3.4: "XRPC subpaths now correctly return `XrpcNotImplemented` on 404":
\* a path below /xrpc that is no method of the server is answered 501.
SubpathsNotImplemented ==
    Sent /\ Under("xrpc") /\ Len(ask.path) > 1 /\ ask.method \in {"GET", "POST"} =>
        route \in Queries \cup Procedures \/ reply.status \in {500, 501}
=============================================================================
