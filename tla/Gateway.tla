------------------------------- MODULE Gateway -------------------------------
(***************************************************************************)
(* What the proxy promises its clients, with no cache and no upstream      *)
(* exchange in sight.  A request is answered once, and 200 is for a blob   *)
(* whose bytes match the CID, which a host of the actor has vouched for    *)
(* and, where the policy is binding, the policy service has permitted.     *)
(***************************************************************************)
EXTENDS Base

CONSTANTS
    Requests,       \* the requests that arrive
    Pairs,          \* the pairs <<did, cid>> there are
    Genuine,        \* Genuine[c]: the bytes that may be served for the CID c
    PolicyBinding   \* whether only permitted pairs are served

VARIABLES
    asked,      \* asked[t]: the request of t, or None
    status,     \* status[t]: the status of the answer, 0 before
    content,    \* content[t]: the bytes the answer is about, or None
    vouched, permitted

vars == <<asked, status, content, vouched, permitted>>

Refusals == {403, 404, 408, 410, 413, 422, 424, 500, 502}
Pair(r) == <<r.did, r.cid>>

Init ==
    /\ asked = [t \in Tasks |-> None]
    /\ status = [t \in Tasks |-> 0]
    /\ content = [t \in Tasks |-> None]
    /\ vouched = {}
    /\ permitted = {}

Ask(t, r) ==
    /\ asked[t] = None /\ status[t] = 0
    /\ asked' = [asked EXCEPT ![t] = r]
    /\ UNCHANGED <<status, content, vouched, permitted>>

Vouch(p) ==
    /\ vouched' = vouched \cup {p}
    /\ UNCHANGED <<asked, status, content, permitted>>

Permit(p) ==
    /\ permitted' = permitted \cup {p}
    /\ UNCHANGED <<asked, status, content, vouched>>

Refuse(t, s) ==
    /\ status[t] = 0
    /\ status' = [status EXCEPT ![t] = s]
    /\ UNCHANGED <<asked, content, vouched, permitted>>

Serve(t, b) ==
    /\ asked[t] # None /\ status[t] = 0
    /\ b \in Genuine[asked[t].cid]
    /\ Pair(asked[t]) \in vouched
    /\ PolicyBinding => Pair(asked[t]) \in permitted
    /\ status' = [status EXCEPT ![t] = 200]
    /\ content' = [content EXCEPT ![t] = b]
    /\ UNCHANGED <<asked, vouched, permitted>>

Next ==
    \/ \E t \in Tasks, r \in Requests : Ask(t, r)
    \/ \E t \in Tasks, s \in Refusals : Refuse(t, s)
    \/ \E t \in Tasks, c \in DOMAIN Genuine : \E b \in Genuine[c] : Serve(t, b)
    \/ \E p \in Pairs : Vouch(p) \/ Permit(p)

Spec == Init /\ [][Next]_vars
=============================================================================
