------------------------------ MODULE Lifecycle ------------------------------
(***************************************************************************)
(* The life of a server process, from main to its exit: it binds its       *)
(* address, serves, is told to shut down, drains and exits, or dies at any *)
(* point.  A process runs once; a restart is another process.  The file of *)
(* a UNIX socket outlives the process that made it, and nothing but a later *)
(* start or an orderly shutdown removes it.  A TCP port is free again as   *)
(* soon as its listener is gone.                                           *)
(*                                                                         *)
(* A client's connection is queued until the accept loop has taken it and  *)
(* the first of its request is read, and answered once the last of the     *)
(* answer is written; one connection carries one request.                  *)
(***************************************************************************)
EXTENDS Naturals, FiniteSets

CONSTANTS
    Processes,  \* the processes that are started, one after another or not
    Clients,    \* the connections that are made
    Setups,     \* what the processes are started with, see setup
    None

ASSUME NobodyAssumption == None \notin Processes \cup {"ok", "bindFailed", "killed"}
ASSUME SetupAssumption == Setups \subseteq [unix : BOOLEAN, overlap : BOOLEAN]

VARIABLES
    setup,      \* unix: whether --server-address is a UNIX socket; overlap: whether a
                \* process is started before the previous one is gone
    phase,      \* phase[p]: where main is, see Phases
    exit,       \* exit[p]: how p ended: "ok", "bindFailed", "killed", or None
    listening,  \* the processes that have a listener
    bound,      \* the process whose listener the address leads to, or None; a
                \* socket file leads there even when the process is dead
    conn,       \* conn[c]: "none", "queued", "accepted", "answered", "reset" or "left"
    peer        \* peer[c]: the process c connected to, or None

lifeVars == <<setup, phase, exit, listening, bound, conn, peer>>

Phases == {"down", "start", "clear", "bound", "serving", "draining", "drained", "over"}

LifeInit ==
    /\ setup \in Setups
    /\ phase = [p \in Processes |-> "down"]
    /\ exit = [p \in Processes |-> None]
    /\ listening = {}
    /\ bound = None
    /\ conn = [c \in Clients |-> "none"]
    /\ peer = [c \in Clients |-> None]

Enter(p, from, to) == phase[p] = from /\ phase' = [phase EXCEPT ![p] = to]
Ends(p, how) == exit' = [exit EXCEPT ![p] = how]
Running(p) == phase[p] \notin {"down", "over"}

\* The connections cs of p's clients are cut.
Reset(cs) == conn' = [c \in Clients |-> IF c \in cs THEN "reset" ELSE conn[c]]
Of(p, state) == {c \in Clients : peer[c] = p /\ conn[c] = state}

\* A listener that is dropped takes its port along, but not its file.
Unbound(p) == IF ~setup.unix /\ bound = p THEN None ELSE bound

-----------------------------------------------------------------------------
(* Starting.                                                               *)

Launch(p) ==
    /\ Enter(p, "down", "start")
    /\ (setup.overlap \/ \A q \in Processes : ~Running(q))
    /\ UNCHANGED <<setup, exit, listening, bound, conn, peer>>

\* A bug: a file left there is not removed.
StartsOverFile(p) ==
    /\ Enter(p, "start", "clear")
    /\ UNCHANGED <<setup, exit, listening, bound, conn, peer>>

\* let _ = std::fs::remove_file(&path), whoever's file it is.
RemoveStaleFile(p) ==
    /\ Enter(p, "start", "clear")
    /\ bound' = IF setup.unix THEN None ELSE bound
    /\ UNCHANGED <<setup, exit, listening, conn, peer>>

\* A bug: the port is shared with whoever has it.
BindShares(p) ==
    /\ Enter(p, "clear", "bound")
    /\ bound' = p
    /\ listening' = listening \cup {p}
    /\ UNCHANGED <<setup, exit, conn, peer>>

\* A bug: an address in use is waited for.
BindWaits(p) ==
    /\ bound = None
    /\ BindShares(p)

\* Nothing can be bound over a file or a port in use: start returns an error.
Bind(p) ==
    /\ \/ /\ bound = None
          /\ Enter(p, "clear", "bound")
          /\ bound' = p
          /\ listening' = listening \cup {p}
          /\ UNCHANGED exit
       \/ /\ bound # None
          /\ Enter(p, "clear", "over")
          /\ Ends(p, "bindFailed")
          /\ UNCHANGED <<bound, listening>>
    /\ UNCHANGED <<setup, conn, peer>>

\* A bug: the stale file is removed once the listener is bound.
ServesUnlinked(p) ==
    /\ Enter(p, "bound", "serving")
    /\ bound' = IF setup.unix THEN None ELSE bound
    /\ UNCHANGED <<setup, exit, listening, conn, peer>>

\* axum::serve runs, and has polled the shutdown signal, whose handlers are now
\* installed.
Serve(p) ==
    /\ Enter(p, "bound", "serving")
    /\ UNCHANGED <<setup, exit, listening, bound, conn, peer>>

-----------------------------------------------------------------------------
(* Connections.                                                            *)

Connect(c) ==
    /\ conn[c] = "none"
    /\ bound \in listening
    /\ conn' = [conn EXCEPT ![c] = "queued"]
    /\ peer' = [peer EXCEPT ![c] = bound]
    /\ UNCHANGED <<setup, phase, exit, listening, bound>>

Accept(p, c) ==
    /\ phase[p] = "serving"
    /\ c \in Of(p, "queued")
    /\ conn' = [conn EXCEPT ![c] = "accepted"]
    /\ UNCHANGED <<setup, phase, exit, listening, bound, peer>>

\* The rest of the request is read, and all of the answer is written, before or
\* during the draining: both are as fast as the client likes.
AnswerRequest(p, c) ==
    /\ phase[p] \in {"serving", "draining"}
    /\ c \in Of(p, "accepted")
    /\ conn' = [conn EXCEPT ![c] = "answered"]
    /\ UNCHANGED <<setup, phase, exit, listening, bound, peer>>

Leave(c) ==
    /\ conn[c] \in {"queued", "accepted"}
    /\ conn' = [conn EXCEPT ![c] = "left"]
    /\ UNCHANGED <<setup, phase, exit, listening, bound, peer>>

-----------------------------------------------------------------------------
(* Shutting down.                                                          *)

\* SIGTERM or Ctrl+C while axum serves: the accept loop ends and drops the
\* listener, with what waits in its backlog.  A later signal finds the handler
\* still installed and nobody waiting for it.
Shutdown(p) ==
    /\ Enter(p, "serving", "draining")
    /\ listening' = listening \ {p}
    /\ bound' = Unbound(p)
    /\ Reset(Of(p, "queued"))
    /\ UNCHANGED <<setup, exit, peer>>

\* A bug: the connections that are open are not waited for.
DrainedAtOnce(p) ==
    /\ Enter(p, "draining", "drained")
    /\ Reset(Of(p, "accepted"))
    /\ UNCHANGED <<setup, exit, listening, bound, peer>>

\* A bug: the connections that are kept alive are waited for too.
DrainedOfIdle(p) ==
    /\ Enter(p, "draining", "drained")
    /\ Of(p, "accepted") \cup Of(p, "answered") = {}
    /\ UNCHANGED <<setup, exit, listening, bound, conn, peer>>

\* The last of the connections is done, and axum::serve returns.
Drained(p) ==
    /\ Enter(p, "draining", "drained")
    /\ Of(p, "accepted") = {}
    /\ UNCHANGED <<setup, exit, listening, bound, conn, peer>>

\* A bug: the file stays.
ExitLeavingFile(p) ==
    /\ Enter(p, "drained", "over")
    /\ Ends(p, "ok")
    /\ UNCHANGED <<setup, bound, listening, conn, peer>>

\* std::fs::remove_file(&path) once more, and main returns.
Exit(p) ==
    /\ Enter(p, "drained", "over")
    /\ Ends(p, "ok")
    /\ bound' = IF setup.unix THEN None ELSE bound
    /\ UNCHANGED <<setup, listening, conn, peer>>

\* SIGKILL, an abort, or a signal before the handlers are installed.
Die(p) ==
    /\ Running(p)
    /\ phase' = [phase EXCEPT ![p] = "over"]
    /\ Ends(p, "killed")
    /\ listening' = listening \ {p}
    /\ bound' = Unbound(p)
    /\ Reset(Of(p, "queued") \cup Of(p, "accepted"))
    /\ UNCHANGED <<setup, peer>>

AllOver == (\A p \in Processes : phase[p] = "over") /\ UNCHANGED lifeVars

\* What a process goes on to do by itself.
Proceed(p) == RemoveStaleFile(p) \/ Bind(p) \/ Serve(p) \/ Drained(p) \/ Exit(p)

\* What it does as far as a client lets it.
Attend(p, c) == Accept(p, c) \/ AnswerRequest(p, c)

LifeNext ==
    \/ \E p \in Processes : Launch(p) \/ Proceed(p) \/ Shutdown(p) \/ Die(p)
    \/ \E p \in Processes, c \in Clients : Attend(p, c)
    \/ \E c \in Clients : Connect(c) \/ Leave(c)
    \/ AllOver

LifeSpec == LifeInit /\ [][LifeNext]_lifeVars

\* The runtime runs on.  Nobody has to start or stop a process, or kill it; and no
\* client has to send the rest of its request, to read its answer or to leave.
FairLifeSpec == LifeSpec /\ \A p \in Processes : WF_lifeVars(Proceed(p))

-----------------------------------------------------------------------------
(* Properties.                                                             *)

\* The types of the variables.
LifeTypeOK ==
    /\ setup \in Setups
    /\ phase \in [Processes -> Phases]
    /\ exit \in [Processes -> {None, "ok", "bindFailed", "killed"}]
    /\ listening \subseteq Processes
    /\ bound \in Processes \cup {None}
    /\ conn \in [Clients -> {"none", "queued", "accepted", "answered", "reset", "left"}]
    /\ peer \in [Clients -> Processes \cup {None}]

\* A process that serves is the one its address leads to.  Where processes
\* overlap on a UNIX socket it is not so: the older one, when it exits, removes the
\* file of the younger.
ServingIsReachable ==
    ~(setup.unix /\ setup.overlap) => \A p \in Processes : phase[p] \in {"bound", "serving"} => bound = p

\* A process started when no other runs binds, whatever the earlier ones left
\* behind: a crash never needs a hand to clear the socket.
RestartBinds ==
    ~setup.overlap => \A p \in Processes : exit[p] # "bindFailed"

\* An orderly exit leaves nothing at the address.
OrderlyExitCleansUp ==
    [][\A p \in Processes :
         (exit[p] = None /\ exit'[p] = "ok" /\ ~setup.overlap) => bound' = None]_lifeVars

\* A connection the server has accepted is never cut, unless its process dies: a
\* shutdown waits for it ("with_graceful_shutdown").
AcceptedIsNotCut ==
    [][\A c \in Clients :
         (conn[c] = "accepted" /\ conn'[c] = "reset") => exit'[peer[c]] = "killed"]_lifeVars

\* A process that was launched serves or is over: nothing in the start waits.
StartsUp == \A p \in Processes : phase[p] = "start" ~> phase[p] \in {"serving", "over"}

\* In the end every client has read its answer, or has left, or was cut off.
ClientsFinish == <>[](\A c \in Clients : conn[c] # "accepted")

\* A process that was told to shut down exits, if the clients it has accepted finish.
\* Nothing in the server makes them: with_graceful_shutdown waits without a deadline, the
\* head of a request is read without one, and a TimeoutLayer, which the purges do not
\* have, ends where the answer's head begins.  The process waits for them and for
\* nothing else, as connections that are idle.
ShutsDown == ClientsFinish => \A p \in Processes : phase[p] = "draining" ~> phase[p] = "over"
=============================================================================
