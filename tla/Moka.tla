-------------------------------- MODULE Moka --------------------------------
(***************************************************************************)
(* The moka::future::Cache as this program uses it: try_get_with,          *)
(* insert, invalidate, invalidate_entries_if and invalidate_all.           *)
(*                                                                         *)
(* try_get_with coalesces: of the tasks that miss on a key one becomes the *)
(* leader and runs the init future; the others park on the leader's        *)
(* waiter.  When the future resolves the outcome, an error too, goes to    *)
(* the leader and to every parked task, and only a success is stored.  When*)
(* the leader's own future is dropped the parked tasks are told so and each*)
(* starts over.  An invalidation removes entries; it does not stop an init *)
(* future that is running, which stores its value when it resolves.        *)
(*                                                                         *)
(* moka is a library: the module states its behaviour from how the program *)
(* calls it.  The caches of the program are kept in one function whose keys *)
(* are tagged with the cache they belong to.                               *)
(***************************************************************************)

EXTENDS Base

VARIABLES
    entries,  \* entries[k]: the value cached under k, or None
    flight,   \* flight[k]: the task that runs the init future of k, or None
    parked,   \* parked[t]: the key on whose waiter t is parked, or None
    inbox     \* inbox[t]: what try_get_with has for t, not yet consumed, or None

mokaVars == <<entries, flight, parked, inbox>>

Ok(v) == [tag |-> "ok", val |-> v]
Err(e) == [tag |-> "err", val |-> e]
Aborted == [tag |-> "aborted", val |-> None]  \* the leader's future was dropped

MokaInit(keys) ==
    /\ entries = [k \in keys |-> None]
    /\ flight = [k \in keys |-> None]
    /\ parked = [t \in Tasks |-> None]
    /\ inbox = [t \in Tasks |-> None]

-----------------------------------------------------------------------------
(* try_get_with.                                                           *)

Delivered(t) == inbox[t] # None /\ inbox[t] # Aborted
Succeeded(t) == inbox[t] # None /\ inbox[t].tag = "ok"
Failed(t) == inbox[t] # None /\ inbox[t].tag = "err"

\* t may look k up: it neither waits for k nor has its outcome.
MayLookUp(t, k) == parked[t] = None /\ flight[k] # t /\ ~Delivered(t)

\* The entry is there.  A task that starts over after an abort reads the
\* cache only once it holds the waiter, so not while another task leads.
Hit(t, k) ==
    /\ MayLookUp(t, k)
    /\ entries[k] # None
    /\ inbox[t] = Aborted => flight[k] = None
    /\ inbox' = [inbox EXCEPT ![t] = Ok(entries[k])]
    /\ UNCHANGED <<entries, flight, parked>>

\* Another task leads.  The entry may have been stored since t missed it.
Park(t, k) ==
    /\ MayLookUp(t, k)
    /\ flight[k] # None
    /\ parked' = [parked EXCEPT ![t] = k]
    /\ inbox' = [inbox EXCEPT ![t] = None]
    /\ UNCHANGED <<entries, flight>>

\* No entry and no leader: t runs its init future.
Lead(t, k) ==
    /\ MayLookUp(t, k)
    /\ entries[k] = None
    /\ flight[k] = None
    /\ flight' = [flight EXCEPT ![k] = t]
    /\ inbox' = [inbox EXCEPT ![t] = None]
    /\ UNCHANGED <<entries, parked>>

LookUp(t, k) == Hit(t, k) \/ Park(t, k) \/ Lead(t, k)

\* The init future of k, run by t, returned o.
Resolve(t, k, o) ==
    /\ flight[k] = t
    /\ entries' = IF o.tag = "ok" THEN [entries EXCEPT ![k] = o.val] ELSE entries
    /\ flight' = [flight EXCEPT ![k] = None]
    /\ inbox' = [u \in Tasks |-> IF u = t \/ parked[u] = k THEN o ELSE inbox[u]]
    /\ parked' = [u \in Tasks |-> IF parked[u] = k THEN None ELSE parked[u]]

\* The caller of try_get_with takes the outcome and goes on.
Consume(t) ==
    /\ inbox' = [inbox EXCEPT ![t] = None]
    /\ UNCHANGED <<entries, flight, parked>>

\* The future of t is dropped, and with it the init futures it runs.
DropFuture(t) ==
    LET led == {k \in DOMAIN flight : flight[k] = t}
        orphans == {u \in Tasks : parked[u] \in led}
    IN  /\ flight' = [k \in DOMAIN flight |-> IF k \in led THEN None ELSE flight[k]]
        /\ inbox' = [u \in Tasks |-> IF u = t THEN None
                                     ELSE IF u \in orphans THEN Aborted ELSE inbox[u]]
        /\ parked' = [u \in Tasks |-> IF u = t \/ u \in orphans THEN None ELSE parked[u]]
        /\ UNCHANGED entries

-----------------------------------------------------------------------------
(* The other operations.                                                   *)

InsertEntry(k, v) ==
    /\ entries' = [entries EXCEPT ![k] = v]
    /\ UNCHANGED <<flight, parked, inbox>>

Invalidate(ks) ==
    /\ entries' = [k \in DOMAIN entries |-> IF k \in ks THEN None ELSE entries[k]]
    /\ UNCHANGED <<flight, parked, inbox>>

\* Time to live or to idle has passed, or the entry was evicted for its weight.
Expire(k) == entries[k] # None /\ Invalidate({k})
=============================================================================
