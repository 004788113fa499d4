--------------------------- MODULE LifecycleProofs ---------------------------
(***************************************************************************)
(* Proofs about the life of a server process, for any number of processes  *)
(* and connections.  The invariant says to whom an address can lead: where *)
(* processes do not overlap at most one of them runs, a port leads to a    *)
(* listener or nowhere, and a process that is about to bind finds nothing  *)
(* in its way.                                                             *)
(***************************************************************************)
EXTENDS Lifecycle, TLAPS

\* The listeners are those of the processes that have bound and do not drain.
ListenersServe ==
    \A p \in Processes : p \in listening <=> phase[p] \in {"bound", "serving"}

\* No overlap: whoever runs, runs alone.
RunsAlone ==
    ~setup.overlap => \A p, q \in Processes : Running(p) /\ Running(q) => p = q

\* A port is in use by a listener; only a file stays behind.
PortHasListener == ~setup.unix /\ bound # None => bound \in listening

\* What a process that does not overlap with another has cleared stays so.
ClearIsFree == ~setup.overlap => \A p \in Processes : phase[p] = "clear" => bound = None

LifeInv ==
    /\ LifeTypeOK
    /\ ListenersServe
    /\ RunsAlone
    /\ PortHasListener
    /\ ClearIsFree
    /\ ServingIsReachable
    /\ RestartBinds

-----------------------------------------------------------------------------

LEMMA LifeInitInv == LifeInit => LifeInv
<1> SUFFICES ASSUME LifeInit PROVE LifeInv
  OBVIOUS
<1>1. LifeTypeOK
  BY DEF LifeInit, LifeTypeOK, Phases
<1> QED
  BY <1>1, NobodyAssumption DEF LifeInit, LifeInv, ListenersServe, RunsAlone, PortHasListener, ClearIsFree,
              ServingIsReachable, RestartBinds, Running

LEMMA TypeNext == LifeTypeOK /\ [LifeNext]_lifeVars => LifeTypeOK'
<1> SUFFICES ASSUME LifeTypeOK, [LifeNext]_lifeVars PROVE LifeTypeOK'
  OBVIOUS
<1> USE DEF LifeTypeOK, Phases, Enter, Ends, Reset, Of, Unbound
<1>1. ASSUME NEW p \in Processes, Launch(p) PROVE LifeTypeOK'
  BY <1>1 DEF Launch
<1>2. ASSUME NEW p \in Processes, RemoveStaleFile(p) PROVE LifeTypeOK'
  BY <1>2 DEF RemoveStaleFile
<1>3. ASSUME NEW p \in Processes, Bind(p) PROVE LifeTypeOK'
  BY <1>3 DEF Bind
<1>4. ASSUME NEW p \in Processes, Serve(p) PROVE LifeTypeOK'
  BY <1>4 DEF Serve
<1>5. ASSUME NEW p \in Processes, Drained(p) PROVE LifeTypeOK'
  BY <1>5 DEF Drained
<1>6. ASSUME NEW p \in Processes, Exit(p) PROVE LifeTypeOK'
  BY <1>6 DEF Exit
<1>7. ASSUME NEW p \in Processes, NEW c \in Clients, Accept(p, c) PROVE LifeTypeOK'
  BY <1>7 DEF Accept
<1>8. ASSUME NEW p \in Processes, NEW c \in Clients, AnswerRequest(p, c) PROVE LifeTypeOK'
  BY <1>8 DEF AnswerRequest
<1>9. ASSUME NEW p \in Processes, Shutdown(p) PROVE LifeTypeOK'
  BY <1>9 DEF Shutdown
<1>10. ASSUME NEW p \in Processes, Die(p) PROVE LifeTypeOK'
  BY <1>10 DEF Die
<1>11. ASSUME NEW c \in Clients, Connect(c) PROVE LifeTypeOK'
  <2>1. bound \in Processes
    BY <1>11 DEF Connect
  <2> QED
    BY <1>11, <2>1 DEF Connect
<1>12. ASSUME NEW c \in Clients, Leave(c) PROVE LifeTypeOK'
  BY <1>12 DEF Leave
<1>13. CASE AllOver \/ UNCHANGED lifeVars
  BY <1>13 DEF AllOver, lifeVars
<1> QED
  BY <1>1, <1>2, <1>3, <1>4, <1>5, <1>6, <1>7, <1>8, <1>9, <1>10, <1>11, <1>12, <1>13
     DEF LifeNext, Proceed, Attend

\* A step that leaves the phases, the listeners and the address alone.
LEMMA ConnectionsApart ==
    LifeInv /\ LifeTypeOK' /\ UNCHANGED <<setup, phase, exit, listening, bound>> => LifeInv'
BY DEF LifeInv, ListenersServe, RunsAlone, PortHasListener, ClearIsFree,
       ServingIsReachable, RestartBinds, Running

LEMMA LifeNextInv == LifeInv /\ [LifeNext]_lifeVars => LifeInv'
<1> SUFFICES ASSUME LifeInv, [LifeNext]_lifeVars PROVE LifeInv'
  OBVIOUS
<1>0. LifeTypeOK /\ LifeTypeOK'
  BY TypeNext DEF LifeInv
<1> USE <1>0, NobodyAssumption
    DEF LifeInv, ListenersServe, RunsAlone, PortHasListener, ClearIsFree,
        ServingIsReachable, RestartBinds, Running, Enter, LifeTypeOK
<1>1. ASSUME NEW p \in Processes, Launch(p) PROVE LifeInv'
  BY <1>1 DEF Launch
<1>2. ASSUME NEW p \in Processes, RemoveStaleFile(p) PROVE LifeInv'
  BY <1>2 DEF RemoveStaleFile
<1>3. ASSUME NEW p \in Processes, Bind(p) PROVE LifeInv'
  <2>1. CASE bound = None
    BY <1>3, <2>1 DEF Bind
  <2>2. CASE bound # None
    BY <1>3, <2>2 DEF Bind, Ends
  <2> QED
    BY <2>1, <2>2
<1>4. ASSUME NEW p \in Processes, Serve(p) PROVE LifeInv'
  BY <1>4 DEF Serve
<1>5. ASSUME NEW p \in Processes, Drained(p) PROVE LifeInv'
  BY <1>5 DEF Drained
<1>6. ASSUME NEW p \in Processes, Exit(p) PROVE LifeInv'
  BY <1>6 DEF Exit, Ends
<1>7. ASSUME NEW p \in Processes, Shutdown(p) PROVE LifeInv'
  BY <1>7 DEF Shutdown, Unbound
<1>8. ASSUME NEW p \in Processes, Die(p) PROVE LifeInv'
  BY <1>8 DEF Die, Unbound, Ends
<1>9. ASSUME NEW p \in Processes, NEW c \in Clients, Accept(p, c) \/ AnswerRequest(p, c)
      PROVE  LifeInv'
  BY <1>9, ConnectionsApart DEF Accept, AnswerRequest
<1>10. ASSUME NEW c \in Clients, Connect(c) \/ Leave(c) PROVE LifeInv'
  BY <1>10, ConnectionsApart DEF Connect, Leave
<1>11. CASE AllOver \/ UNCHANGED lifeVars
  BY <1>11, ConnectionsApart DEF AllOver, lifeVars
<1> QED
  BY <1>1, <1>2, <1>3, <1>4, <1>5, <1>6, <1>7, <1>8, <1>9, <1>10, <1>11
     DEF LifeNext, Proceed, Attend

LEMMA LifeInvariant == LifeSpec => []LifeInv
BY LifeInitInv, LifeNextInv, PTL DEF LifeSpec

-----------------------------------------------------------------------------

\* Binding leads to the server, and nothing of its own doing leads elsewhere while it
\* serves (Server::start).
THEOREM AddressLeads == LifeSpec => []ServingIsReachable
<1>1. LifeInv => ServingIsReachable
  BY DEF LifeInv
<1> QED
  BY <1>1, LifeInvariant, PTL

\* However the processes before it ended, one that starts alone binds: the file a
\* crash leaves is removed first.
THEOREM StartsAfterCrash == LifeSpec => []RestartBinds
<1>1. LifeInv => RestartBinds
  BY DEF LifeInv
<1> QED
  BY <1>1, LifeInvariant, PTL

\* A step cuts a connection that was accepted only by the death of its process.
LEMMA CutsOnlyByDeath ==
    ASSUME LifeTypeOK, LifeNext,
           NEW c \in Clients, conn[c] = "accepted", conn'[c] = "reset"
    PROVE  exit'[peer[c]] = "killed"
<1> USE DEF LifeTypeOK
<1>1. ASSUME NEW p \in Processes, Die(p) PROVE exit'[peer[c]] = "killed"
  <2>1. c \in Of(p, "queued") \cup Of(p, "accepted")
    BY <1>1 DEF Die, Reset
  <2> QED
    BY <1>1, <2>1 DEF Die, Ends, Of
<1>2. ASSUME NEW p \in Processes, Shutdown(p) PROVE FALSE
  BY <1>2 DEF Shutdown, Reset, Of
<1>3. ASSUME NEW p \in Processes, NEW d \in Clients, Accept(p, d) \/ AnswerRequest(p, d)
      PROVE  FALSE
  BY <1>3 DEF Accept, AnswerRequest
<1>4. ASSUME NEW d \in Clients, Connect(d) \/ Leave(d) PROVE FALSE
  BY <1>4 DEF Connect, Leave
<1>5. ASSUME UNCHANGED conn PROVE FALSE
  BY <1>5
<1> QED
  BY <1>1, <1>2, <1>3, <1>4, <1>5
     DEF LifeNext, Proceed, Attend, Launch, RemoveStaleFile, Bind, Serve, Drained, Exit,
         AllOver, lifeVars

\* with_graceful_shutdown: a shutdown cuts none of the connections it has accepted.
THEOREM ShutdownIsGraceful == LifeSpec => AcceptedIsNotCut
<1>1. LifeInv /\ [LifeNext]_lifeVars =>
        [\A c \in Clients :
           (conn[c] = "accepted" /\ conn'[c] = "reset") => exit'[peer[c]] = "killed"]_lifeVars
  BY CutsOnlyByDeath DEF LifeInv, lifeVars
<1> QED
  BY <1>1, LifeInvariant, PTL DEF LifeSpec, AcceptedIsNotCut

\* A step by which a process that runs alone exits in order leaves the address free.
LEMMA ExitsClean ==
    ASSUME LifeInv, LifeNext, ~setup.overlap,
           NEW p \in Processes, exit[p] = None, exit'[p] = "ok"
    PROVE  bound' = None
<1> USE NobodyAssumption DEF LifeInv, LifeTypeOK
<1>1. ASSUME NEW q \in Processes, Exit(q) PROVE bound' = None
  <2>1. phase[q] = "drained"
    BY <1>1 DEF Exit, Enter
  <2>2. CASE setup.unix
    BY <1>1, <2>2 DEF Exit
  <2>3. CASE ~setup.unix
    <3>1. bound \notin listening
      BY <2>1 DEF ListenersServe, RunsAlone, Running
    <3> QED
      BY <1>1, <2>3, <3>1 DEF Exit, PortHasListener
  <2> QED
    BY <2>2, <2>3
<1>2. ASSUME NEW q \in Processes, Bind(q) \/ Die(q) PROVE FALSE
  BY <1>2 DEF Bind, Die, Ends
<1>3. ASSUME UNCHANGED exit PROVE FALSE
  BY <1>3
<1> QED
  BY <1>1, <1>2, <1>3
     DEF LifeNext, Proceed, Attend, Launch, RemoveStaleFile, Serve, Drained, Shutdown, Accept,
         AnswerRequest, Connect, Leave, AllOver, lifeVars

\* The file is removed at the end of Server::start, and a port is free by then.
THEOREM ExitsInOrder == LifeSpec => OrderlyExitCleansUp
<1>1. LifeInv /\ [LifeNext]_lifeVars =>
        [\A p \in Processes :
           (exit[p] = None /\ exit'[p] = "ok" /\ ~setup.overlap) => bound' = None]_lifeVars
  BY ExitsClean DEF lifeVars
<1> QED
  BY <1>1, LifeInvariant, PTL DEF LifeSpec, OrderlyExitCleansUp
=============================================================================
