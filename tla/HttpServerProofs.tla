-------------------------- MODULE HttpServerProofs --------------------------
(***************************************************************************)
(* Proofs about the router and its layers, for any set of requests and any  *)
(* password: which handler may run for a request, and what every answer     *)
(* carries.                                                                *)
(***************************************************************************)
EXTENDS HttpServer, TLAPS

-----------------------------------------------------------------------------
(* The inductive invariant.  It follows the request through the layers.    *)

\* A request goes in, runs one handler at most, and its answer comes out.
WayInv ==
    /\ way \in {"in", "out", "panic"}
    /\ way = "in" => ran = {} /\ panicked = FALSE /\ reply = None
    /\ way = "panic" => depth = 4 /\ ask # None /\ panicked = TRUE
    /\ way = "out" => depth \in 0..4 /\ ask # None /\ reply \in Replies

\* Only what the path was routed to has run, for a method it has, and a purge only
\* for the admin.
RanInv ==
    /\ ask = None => depth = 0 /\ way = "in"
    /\ ask # None => ask \in Requests /\ route = RouteOf(ask.path)
    /\ ask # None /\ way = "in" => depth \in 1..5
    /\ ran \subseteq {route}
    /\ ran # {} => ask # None /\ ask.method \in MethodsOf(route)
    /\ ran \cap Procedures # {} => Admitted(ask.credentials)

\* What the answer of a handler, of the panic layer or of axum is.
Sound(r) ==
    /\ panicked => r.status = 500 /\ r.xrpc
    /\ route = "rest" /\ ask.method \in {"GET", "POST"} => r.status \in {500, 501} /\ r.xrpc
    /\ route \in BlobRoutes /\ ask.method = "GET" /\ r.status # 200 =>
         \/ r.store = "noStore"
         \/ r.store = "unset" /\ r.status \notin HeuristicallyCacheable

\* The layers an answer has passed have left their mark.
AnswerInv ==
    way = "out" =>
        /\ depth < 2 /\ ask.method # "OPTIONS" => reply.marked
        /\ depth < 1 => reply.cors
        /\ Sound(reply)

HttpInv == WayInv /\ RanInv /\ AnswerInv

-----------------------------------------------------------------------------
(* Facts about the layers and the answers.                                 *)

\* The layers, one by one.
LEMMA LayerFacts ==
    /\ Len(Layers) = 4 /\ DOMAIN Layers = 1..4
    /\ Layers[1] = "cors" /\ Layers[2] = "serverHeaders"
    /\ Layers[3] = "normalizePath" /\ Layers[4] = "catchPanic"
BY DEF Layers

\* The two kinds of answers: those that are XRPC errors, and the others.
Plain(s, c) == Respond(Reply(s, FALSE, c))
XrpcError(s, c) == Respond(Reply(s, TRUE, c))
Stores == {"unset", "noStore", "configured"}

\* What they start their way out as.
LEMMA AnswerFacts ==
    ASSUME NEW s \in Nat, NEW c \in Stores, Plain(s, c) \/ XrpcError(s, c)
    PROVE  /\ reply' \in Replies /\ reply'.status = s /\ reply'.store = c
           /\ XrpcError(s, c) => reply'.xrpc
           /\ way' = "out" /\ depth' = depth - 1 /\ UNCHANGED <<password, ask, route, panicked>>
<1>. DEFINE r(x) == [status |-> s, xrpc |-> x, store |-> c, marked |-> FALSE, cors |-> FALSE]
<1>1. way' = "out" /\ depth' = depth - 1 /\ UNCHANGED <<password, ask, route, panicked>>
  BY Zenon DEF Plain, XrpcError, Respond, Above
<1>2. reply' = r(FALSE) \/ reply' = r(TRUE)
  BY Zenon DEF Plain, XrpcError, Respond, Reply
<1>3. reply' \in Replies /\ reply'.status = s /\ reply'.store = c
  <2>1. CASE reply' = r(FALSE)
    BY <2>1 DEF Replies, Stores
  <2>2. CASE reply' = r(TRUE)
    BY <2>2 DEF Replies, Stores
  <2>. QED BY <1>2, <2>1, <2>2, Zenon
<1>4. ASSUME XrpcError(s, c) PROVE reply'.xrpc
  <2>1. reply' = r(TRUE)
    BY <1>4, Zenon DEF XrpcError, Respond, Reply
  <2>. QED BY <2>1, Zenon
<1>. QED BY <1>1, <1>3, <1>4, Zenon

\* What a layer's mark changes.
LEMMA MarkFacts ==
    ASSUME NEW r \in Replies
    PROVE  /\ [r EXCEPT !.marked = TRUE] \in Replies
           /\ [r EXCEPT !.marked = TRUE].status = r.status
           /\ [r EXCEPT !.marked = TRUE].store = r.store
           /\ [r EXCEPT !.marked = TRUE].xrpc = r.xrpc
           /\ [r EXCEPT !.marked = TRUE].marked
<1>1. [r EXCEPT !.marked = TRUE] \in Replies
  BY DEF Replies
<1>2. /\ [r EXCEPT !.marked = TRUE].status = r.status
      /\ [r EXCEPT !.marked = TRUE].store = r.store
  BY DEF Replies
<1>3. [r EXCEPT !.marked = TRUE].xrpc = r.xrpc
  BY Zenon DEF Replies
<1>4. [r EXCEPT !.marked = TRUE].marked
  BY Zenon DEF Replies
<1>. QED BY <1>1, <1>2, <1>3, <1>4, Zenon

\* Nor does the mark of CORS change the rest.
LEMMA CorsFacts ==
    ASSUME NEW r \in Replies
    PROVE  /\ [r EXCEPT !.cors = TRUE] \in Replies
           /\ [r EXCEPT !.cors = TRUE].status = r.status
           /\ [r EXCEPT !.cors = TRUE].store = r.store
           /\ [r EXCEPT !.cors = TRUE].xrpc = r.xrpc
           /\ [r EXCEPT !.cors = TRUE].marked = r.marked
           /\ [r EXCEPT !.cors = TRUE].cors
<1>1. [r EXCEPT !.cors = TRUE] \in Replies
  BY DEF Replies
<1>2. /\ [r EXCEPT !.cors = TRUE].status = r.status
      /\ [r EXCEPT !.cors = TRUE].store = r.store
  BY DEF Replies
<1>3. /\ [r EXCEPT !.cors = TRUE].xrpc = r.xrpc
      /\ [r EXCEPT !.cors = TRUE].marked = r.marked
  BY Zenon DEF Replies
<1>4. [r EXCEPT !.cors = TRUE].cors
  BY Zenon DEF Replies
<1>. QED BY <1>1, <1>2, <1>3, <1>4, Zenon

\* No route serves OPTIONS.
LEMMA NoOptions ==
    ASSUME NEW r
    PROVE  "OPTIONS" \notin MethodsOf(r)
BY DEF MethodsOf

\* What is not routed is served by no method.
LEMMA NothingForNone == MethodsOf("none") = {}
BY DEF MethodsOf, Queries, Procedures

\* Purges are served for POST alone, what is beside them for GET and HEAD.
LEMMA MethodFacts ==
    ASSUME NEW r
    PROVE  /\ r \in Procedures => MethodsOf(r) = {"POST"}
           /\ r \in {"index", "blob"} \cup Queries => MethodsOf(r) = {"GET", "HEAD"}
           /\ r = "rest" => MethodsOf(r) = {"GET", "HEAD", "POST"}
<1>1. r \in Procedures => r \notin {"index", "blob"} \cup Queries
  BY DEF Procedures, Queries
<1>2. r = "rest" => r \notin {"index", "blob"} \cup Queries \cup Procedures
  BY DEF Procedures, Queries
<1>. QED BY <1>1, <1>2 DEF MethodsOf

\* A path is routed by its first segment.
LEMMA RouteFacts ==
    ASSUME NEW p
    PROVE  /\ p[1] = "xrpc" => RouteOf(p) \in Queries \cup Procedures \cup {"rest", "none"}
           /\ p[1] # "xrpc" => RouteOf(p) \in {"index", "blob", "none"}
<1>1. CASE p = <<"">>
  BY <1>1 DEF RouteOf
<1>2. CASE p # <<"">> /\ p[1] = "xrpc"
  BY <1>2 DEF RouteOf
<1>3. CASE p # <<"">> /\ p[1] # "xrpc"
  BY <1>3 DEF RouteOf
<1>. QED BY <1>1, <1>2, <1>3

-----------------------------------------------------------------------------
(* The steps.                                                              *)

\* The request arrives.
LEMMA ReceiveKeepsInv ==
    ASSUME HttpInv, NEW r \in Requests, Receive(r)
    PROVE  HttpInv'
<1>1. /\ ask' \in Requests /\ ask' # None /\ route' = RouteOf(ask'.path) /\ depth' = 1
      /\ way' = "in" /\ ran' = {} /\ panicked' = FALSE /\ reply' = None
  BY HttpAssumption DEF Receive, HttpInv, WayInv, RanInv
<1>. QED BY <1>1 DEF HttpInv, WayInv, RanInv, AnswerInv

\* A layer passes the request on, or CORS answers it.
LEMMA PassInKeepsInv ==
    ASSUME HttpInv, PassIn
    PROVE  HttpInv'
<1>1. /\ way = "in" /\ ran = {} /\ panicked = FALSE /\ reply = None /\ ask # None
      /\ ask \in Requests /\ route = RouteOf(ask.path) /\ depth \in 1..4
      /\ UNCHANGED <<ask, route, ran, panicked>>
  BY LayerFacts DEF PassIn, HttpInv, WayInv, RanInv
<1>2. CASE Layers[depth] = "cors" /\ ask.method = "OPTIONS"
  <2>1. depth = 1 /\ depth' = 1 /\ way' = "out"
    BY <1>1, <1>2, LayerFacts DEF PassIn
  <2>2. reply' \in Replies
    <3>1. reply' = Reply(200, FALSE, "unset")
      BY <1>2, Zenon DEF PassIn
    <3>2. 200 \in Nat
      OBVIOUS
    <3>. QED BY <3>1, <3>2, Zenon DEF Reply, Replies
  <2>3. WayInv' /\ RanInv'
    BY <1>1, <2>1, <2>2 DEF HttpInv, WayInv, RanInv
  <2>4. AnswerInv'
    BY <1>1, <1>2, <2>1 DEF AnswerInv, Sound
  <2>. QED BY <2>3, <2>4 DEF HttpInv
<1>3. CASE ~(Layers[depth] = "cors" /\ ask.method = "OPTIONS")
  <2>1. depth' = depth + 1 /\ reply' = reply /\ way' = way
    BY <1>3 DEF PassIn
  <2>. QED BY <1>1, <2>1 DEF HttpInv, WayInv, RanInv, AnswerInv
<1>. QED BY <1>2, <1>3

\* A layer takes the answer, and leaves its mark.
LEMMA PassOutKeepsInv ==
    ASSUME HttpInv, PassOut
    PROVE  HttpInv'
<1>1. /\ way = "out" /\ depth \in 1..4 /\ ask # None /\ reply \in Replies
      /\ depth' = depth - 1
      /\ UNCHANGED <<password, ask, route, way, ran, panicked>>
  BY LayerFacts DEF PassOut, Above, HttpInv, WayInv
<1>2. /\ reply' \in Replies
      /\ reply'.status = reply.status /\ reply'.store = reply.store /\ reply'.xrpc = reply.xrpc
      /\ depth = 2 => reply'.marked
      /\ depth # 2 => reply'.marked = reply.marked
      /\ depth = 1 => reply'.cors
  <2>1. CASE depth = 1
    <3>1. reply' = [reply EXCEPT !.cors = TRUE]
      BY <2>1, LayerFacts DEF PassOut
    <3>. QED BY <1>1, <2>1, <3>1, CorsFacts
  <2>2. CASE depth = 2
    <3>1. reply' = [reply EXCEPT !.marked = TRUE]
      BY <2>2, LayerFacts DEF PassOut
    <3>. QED BY <1>1, <2>2, <3>1, MarkFacts
  <2>3. CASE depth \in {3, 4}
    <3>1. reply' = reply
      BY <2>3, LayerFacts DEF PassOut
    <3>. QED BY <1>1, <2>3, <3>1
  <2>. QED BY <1>1, <2>1, <2>2, <2>3
<1>3. WayInv' /\ RanInv'
  BY <1>1, <1>2 DEF HttpInv, WayInv, RanInv, Admitted
<1>4. Sound(reply)'
  BY <1>1, <1>2 DEF HttpInv, AnswerInv, Sound
<1>5. depth' < 2 /\ ask'.method # "OPTIONS" => reply'.marked
  BY <1>1, <1>2 DEF HttpInv, AnswerInv
<1>6. depth' < 1 => reply'.cors
  BY <1>1, <1>2
<1>. QED BY <1>1, <1>3, <1>4, <1>5, <1>6 DEF HttpInv, AnswerInv

\* The panic layer ends a panic.
LEMMA UnwindKeepsInv ==
    ASSUME HttpInv, Unwind
    PROVE  HttpInv'
<1>1. /\ way = "panic" /\ depth = 4 /\ ask # None /\ panicked = TRUE
      /\ way' = "out" /\ depth' = 3
      /\ UNCHANGED <<password, ask, route, ran, panicked>>
  BY LayerFacts DEF Unwind, Above, HttpInv, WayInv
<1>2. /\ reply' \in Replies /\ reply'.status = 500 /\ reply'.store = "unset" /\ reply'.xrpc
  <2>1. reply' = Reply(500, TRUE, "unset")
    BY <1>1, LayerFacts DEF Unwind
  <2>2. reply' \in Replies /\ reply'.status = 500 /\ reply'.store = "unset"
    BY <2>1 DEF Reply, Replies
  <2>3. reply'.xrpc
    BY <2>1, Zenon DEF Reply
  <2>. QED BY <2>2, <2>3
<1>3. WayInv' /\ RanInv'
  BY <1>1, <1>2 DEF HttpInv, WayInv, RanInv, Admitted
<1>4. 500 \notin HeuristicallyCacheable
  BY DEF HeuristicallyCacheable
<1>. QED BY <1>1, <1>2, <1>3, <1>4 DEF HttpInv, AnswerInv, Sound

\* What a handler, an extractor or axum answers starts its way out.
LEMMA AnsweredKeepsInv ==
    ASSUME HttpInv, AtHandler, NEW s \in Nat, NEW c \in Stores,
           Plain(s, c) \/ XrpcError(s, c),
           ran' = ran \/ (ran' = ran \cup {route} /\ ask.method \in MethodsOf(route)),
           ran' = ran \/ route \notin Procedures \/ Admitted(ask.credentials),
           route = "rest" /\ ask.method \in {"GET", "POST"} =>
             s \in {500, 501} /\ XrpcError(s, c),
           route \in BlobRoutes /\ ask.method = "GET" /\ s # 200 =>
             c = "noStore" \/ (c = "unset" /\ s \notin HeuristicallyCacheable)
    PROVE  HttpInv'
<1>1. /\ ask # None /\ way = "in" /\ depth = 5 /\ ran = {} /\ panicked = FALSE
      /\ way' = "out" /\ depth' = 4
      /\ UNCHANGED <<password, ask, route, panicked>>
  BY LayerFacts, AnswerFacts DEF AtHandler, HttpInv, WayInv
<1>2. /\ reply' \in Replies /\ reply'.status = s /\ reply'.store = c
      /\ XrpcError(s, c) => reply'.xrpc
  BY AnswerFacts
<1>3. WayInv'
  BY <1>1, <1>2 DEF WayInv
<1>4. RanInv'
  BY <1>1 DEF HttpInv, RanInv, Admitted
<1>5. Sound(reply)'
  BY <1>1, <1>2 DEF Sound
<1>. QED BY <1>1, <1>3, <1>4, <1>5 DEF HttpInv, AnswerInv

\* axum answers, the fixed handlers, and the fallback.
LEMMA PlainAnswersKeepInv ==
    ASSUME HttpInv, Unrouted \/ Fixed \/ Fallback
    PROVE  HttpInv'
<1>. USE DEF Run, Handled, Stores
<1>1. CASE Unrouted /\ route = "none"
  <2>1. Plain(404, "unset")
    BY <1>1, Zenon DEF Unrouted, Plain
  <2>2. AtHandler /\ ran' = ran /\ route # "rest" /\ route \notin BlobRoutes
    BY <1>1 DEF Unrouted, BlobRoutes
  <2>. QED BY <2>1, <2>2, AnsweredKeepsInv DEF Stores
<1>2. CASE Unrouted /\ route # "none"
  <2>1. Plain(405, "unset")
    BY <1>2, Zenon DEF Unrouted, Plain
  <2>2. AtHandler /\ ran' = ran /\ ask.method \notin MethodsOf(route)
    BY <1>2 DEF Unrouted
  <2>3. route = "rest" => ask.method \notin {"GET", "POST"}
    BY <2>2, MethodFacts
  <2>4. route \in BlobRoutes => ask.method # "GET"
    <3>1. route \in BlobRoutes => route \in {"index", "blob"} \cup Queries
      BY DEF BlobRoutes, Queries
    <3>. QED BY <2>2, <3>1, MethodFacts
  <2>. QED BY <2>1, <2>2, <2>3, <2>4, AnsweredKeepsInv DEF Stores
<1>3. CASE Fixed
  <2>1. AtHandler /\ ran' = ran \cup {route} /\ ask.method \in MethodsOf(route)
    BY <1>3 DEF Fixed
  <2>2. route \notin Procedures \cup {"rest"} \cup BlobRoutes
    BY <1>3 DEF Fixed, Procedures, BlobRoutes
  <2>3. CASE Plain(200, "unset")
    BY <2>1, <2>2, <2>3, AnsweredKeepsInv
  <2>4. CASE Plain(200, "noStore")
    BY <2>1, <2>2, <2>4, AnsweredKeepsInv
  <2>. QED BY <1>3, <2>3, <2>4, Zenon DEF Fixed, Plain
<1>4. CASE Fallback
  <2>1. XrpcError(501, "unset")
    BY <1>4, Zenon DEF Fallback, XrpcError
  <2>2. AtHandler /\ ran' = ran \cup {route} /\ ask.method \in MethodsOf(route)
    BY <1>4 DEF Fallback
  <2>3. route \notin Procedures \cup BlobRoutes
    BY <1>4 DEF Fallback, Procedures, BlobRoutes
  <2>. QED BY <2>1, <2>2, <2>3, AnsweredKeepsInv DEF Stores
<1>. QED BY <1>1, <1>2, <1>3, <1>4 DEF Unrouted

\* The purge handlers answer.
LEMMA PurgeKeepsInv ==
    ASSUME HttpInv, Purge
    PROVE  HttpInv'
<1>1. /\ AtHandler /\ route \in Procedures /\ ask.method \in MethodsOf(route)
      /\ ran' = ran \/ (ran' = ran \cup {route} /\ Admitted(ask.credentials))
  BY DEF Purge, Handled, Run
<1>2. route \notin BlobRoutes \cup {"rest"}
  BY <1>1 DEF Procedures, BlobRoutes
<1>3. CASE Plain(401, "unset")
  BY <1>1, <1>2, <1>3, AnsweredKeepsInv DEF Stores
<1>4. CASE XrpcError(400, "unset")
  BY <1>1, <1>2, <1>4, AnsweredKeepsInv DEF Stores
<1>5. CASE Plain(200, "unset")
  BY <1>1, <1>2, <1>5, AnsweredKeepsInv DEF Stores
<1>6. CASE XrpcError(422, "noStore")
  BY <1>1, <1>2, <1>6, AnsweredKeepsInv DEF Stores
<1>. QED BY <1>3, <1>4, <1>5, <1>6, Zenon DEF Purge, Plain, XrpcError

\* The blob handlers answer.
LEMMA GetBlobKeepsInv ==
    ASSUME HttpInv, GetBlob
    PROVE  HttpInv'
<1>1. /\ AtHandler /\ route \in BlobRoutes /\ ask.method \in MethodsOf(route)
      /\ ran' = ran \/ ran' = ran \cup {route}
  BY DEF GetBlob, Handled, Run
<1>2. route \notin Procedures \cup {"rest"}
  BY <1>1 DEF Procedures, BlobRoutes
<1>3. 400 \notin HeuristicallyCacheable /\ 408 \notin HeuristicallyCacheable
  BY DEF HeuristicallyCacheable
<1>4. CASE XrpcError(400, "unset")
  BY <1>1, <1>2, <1>3, <1>4, AnsweredKeepsInv DEF Stores
<1>5. CASE Plain(200, "configured")
  BY <1>1, <1>2, <1>5, AnsweredKeepsInv DEF Stores
<1>6. CASE Plain(408, "unset")
  BY <1>1, <1>2, <1>3, <1>6, AnsweredKeepsInv DEF Stores
<1>7. ASSUME NEW s \in BlobRefusals, XrpcError(s, "noStore") PROVE HttpInv'
  <2>1. s \in Nat
    BY DEF BlobRefusals
  <2>. QED BY <1>1, <1>2, <1>7, <2>1, AnsweredKeepsInv DEF Stores
<1>. QED BY <1>4, <1>5, <1>6, <1>7, Zenon DEF GetBlob, Refusal, Plain, XrpcError

\* A handler panics.
LEMMA PanicKeepsInv ==
    ASSUME HttpInv, Panic
    PROVE  HttpInv'
<1>1. /\ ask # None /\ depth' = 4 /\ way' = "panic" /\ panicked' = TRUE
      /\ ran = {} /\ ran' = {route} /\ ask.method \in MethodsOf(route)
      /\ route \in Procedures => Admitted(ask.credentials)
      /\ UNCHANGED <<password, ask, route>>
  BY LayerFacts DEF Panic, AtHandler, Above, Run, HttpInv, WayInv
<1>. QED BY <1>1 DEF HttpInv, WayInv, RanInv, AnswerInv, Admitted

-----------------------------------------------------------------------------
(* Every behaviour.                                                        *)

\* The invariant holds in every state of every behaviour.
THEOREM HttpInvariance == HttpSpec => []HttpInv
<1>1. HttpInit => HttpInv
  BY DEF HttpInit, HttpInv, WayInv, RanInv, AnswerInv
<1>2. HttpInv /\ [HttpNext]_httpVars => HttpInv'
  <2>. SUFFICES ASSUME HttpInv, [HttpNext]_httpVars PROVE HttpInv'
    OBVIOUS
  <2>1. CASE UNCHANGED httpVars
    BY <2>1 DEF httpVars, HttpInv, WayInv, RanInv, AnswerInv, Sound, Admitted
  <2>2. ASSUME NEW r \in Requests, Receive(r) PROVE HttpInv'
    BY <2>2, ReceiveKeepsInv
  <2>. QED BY <2>1, <2>2, PassInKeepsInv, PassOutKeepsInv, UnwindKeepsInv, PlainAnswersKeepInv,
              PurgeKeepsInv, GetBlobKeepsInv, PanicKeepsInv DEF HttpNext
<1>. QED BY <1>1, <1>2, PTL DEF HttpSpec

\* No path below /xrpc runs another handler, and no other path an XRPC method.
THEOREM XrpcIsApart == HttpSpec => []XrpcStaysApart
<1>1. ASSUME HttpInv PROVE XrpcStaysApart
  <2>1. Under("xrpc") => ran \cap {"index", "blob"} = {}
    BY <1>1, RouteFacts DEF Under, HttpInv, RanInv, Queries, Procedures
  <2>2. Sent => way = "out"
    BY <1>1 DEF Sent, HttpInv, WayInv, RanInv
  <2>3. Sent /\ route = "rest" /\ ask.method \in {"GET", "POST"} =>
          reply.status \in {500, 501} /\ reply.xrpc
    BY <1>1, <2>2 DEF HttpInv, AnswerInv, Sound
  <2>4. ask # None /\ ~Under("xrpc") => ran \subseteq {"index", "blob"}
    BY <1>1, RouteFacts, NothingForNone DEF Under, HttpInv, RanInv
  <2>. QED BY <2>1, <2>3, <2>4 DEF XrpcStaysApart
<1>. QED BY <1>1, HttpInvariance, PTL

\* A purge runs for a POST of the admin alone.
THEOREM OnlyAdminsPurge == HttpSpec => []PurgesAreAdmins
<1>1. ASSUME HttpInv, ran \cap Procedures # {}
      PROVE  /\ ask.method = "POST" /\ password # None
             /\ ask.credentials = [user |-> "admin", password |-> password]
  <2>1. ask \in Requests /\ route \in Procedures /\ ask.method \in MethodsOf(route)
    BY <1>1 DEF HttpInv, RanInv
  <2>2. ask.method = "POST"
    BY <2>1, MethodFacts
  <2>3. Admitted(ask.credentials)
    BY <1>1 DEF HttpInv, RanInv
  <2>. QED BY <2>1, <2>2, <2>3, HttpAssumption DEF Admitted
<1>2. HttpInv => PurgesAreAdmins
  BY <1>1 DEF PurgesAreAdmins
<1>. QED BY <1>2, HttpInvariance, PTL

\* Every answer is complete, that of a panic too.
THEOREM AnswersStayWhole == HttpSpec => []AnswersAreWhole
<1>1. ASSUME HttpInv, Sent
      PROVE  /\ reply # None /\ reply.cors
             /\ ask.method # "OPTIONS" => reply.marked
             /\ panicked => reply.status = 500 /\ reply.xrpc
  <2>1. way = "out" /\ reply \in Replies /\ depth = 0
    BY <1>1 DEF Sent, HttpInv, WayInv, RanInv
  <2>. QED BY <1>1, <2>1, HttpAssumption DEF HttpInv, AnswerInv, Sound
<1>2. HttpInv => AnswersAreWhole
  BY <1>1 DEF AnswersAreWhole
<1>. QED BY <1>2, HttpInvariance, PTL

\* No refusal of a blob may be stored unasked.
THEOREM RefusalsStayUnstored == HttpSpec => []RefusalsNotStored
<1>1. ASSUME HttpInv PROVE RefusalsNotStored
  <2>1. Sent => way = "out"
    BY <1>1 DEF Sent, HttpInv, WayInv, RanInv
  <2>. QED BY <1>1, <2>1 DEF RefusalsNotStored, HttpInv, AnswerInv, Sound
<1>. QED BY <1>1, HttpInvariance, PTL
=============================================================================
