----------------------------- MODULE BytesStream -----------------------------
(***************************************************************************)
(* bytes_stream_capped (networking/http.rs): a response body is read chunk *)
(* by chunk into a growing buffer, and given up once it exceeds max_size.  *)
(* The host decides how long the body is, how it is cut into chunks, and   *)
(* whether a length is declared; a declared length is honoured by the HTTP *)
(* client, which fails the stream of a body that ends short of it.         *)
(***************************************************************************)
EXTENDS Integers

CONSTANTS
    MaxSize,       \* max_blob_size
    DefaultSize,   \* the capacity reserved when no length is declared, 64 KiB
    ChunkSizes,    \* the sizes of the chunks that arrive
    Lengths,       \* the lengths that are declared
    Unknown        \* stands for no declared length

ASSUME SizeAssumption ==
    /\ MaxSize \in Nat \ {0}
    /\ DefaultSize \in Nat \ {0}
    /\ ChunkSizes \subseteq Nat \ {0}
    /\ Lengths \subseteq Nat
    /\ Unknown \notin Nat

VARIABLES
    declared,  \* the length the response declares, or Unknown
    sent,      \* how many bytes of the body have arrived
    length,    \* buffer.len()
    capacity,  \* buffer.capacity()
    outcome    \* "start", "reading", "Ok", "TooLarge" or "ClientError"

vars == <<declared, sent, length, capacity, outcome>>

Least(a, b) == IF a < b THEN a ELSE b
Greatest(a, b) == IF a < b THEN b ELSE a

\* The capacity of a Vec<u8> of capacity c that must hold n bytes: it at least
\* doubles when it grows, and never grows to less than 8.
Grown(c, n) == IF n <= c THEN c ELSE Greatest(Greatest(2 * c, n), 8)

Init ==
    /\ declared \in Lengths \cup {Unknown}
    /\ sent = 0 /\ length = 0 /\ capacity = 0
    /\ outcome = "start"

\* The size check that spares the download, then Vec::with_capacity.
Begin ==
    /\ outcome = "start"
    /\ IF declared # Unknown /\ declared > MaxSize
       THEN outcome' = "TooLarge" /\ UNCHANGED capacity
       ELSE /\ outcome' = "reading"
            /\ capacity' = Least(IF declared = Unknown THEN DefaultSize ELSE declared, MaxSize)
    /\ UNCHANGED <<declared, sent, length>>

\* A bug: the check looks at what was read before.
FitsSoFar(n) == length <= MaxSize

\* A bug: a body of exactly the cap is refused.
FitsBelow(n) == length + n < MaxSize

Fits(n) == length + n <= MaxSize

\* A bug: what exceeds the cap is cut off, and the body is taken as complete.
ChunkTruncated(n) ==
    /\ outcome = "reading"
    /\ declared # Unknown => sent + n <= declared
    /\ sent' = sent + n
    /\ length' = Least(length + n, MaxSize)
    /\ capacity' = Grown(capacity, length')
    /\ UNCHANGED <<declared, outcome>>

\* A bug: a chunk that does not fit is skipped, and the next one is awaited.
ChunkSkipped(n) ==
    /\ outcome = "reading"
    /\ declared # Unknown => sent + n <= declared
    /\ sent' = sent + n
    /\ IF Fits(n)
       THEN length' = length + n /\ capacity' = Grown(capacity, length + n)
       ELSE UNCHANGED <<length, capacity>>
    /\ UNCHANGED <<declared, outcome>>

\* The next chunk; with a declared length the client yields no byte beyond it.
Chunk(n) ==
    /\ outcome = "reading"
    /\ declared # Unknown => sent + n <= declared
    /\ sent' = sent + n
    /\ IF Fits(n)
       THEN /\ length' = length + n
            /\ capacity' = Grown(capacity, length + n)
            /\ UNCHANGED outcome
       ELSE outcome' = "TooLarge" /\ UNCHANGED <<length, capacity>>
    /\ UNCHANGED declared

\* The stream yields an error: the connection broke, or timed out.
Break ==
    /\ outcome = "reading"
    /\ outcome' = "ClientError"
    /\ UNCHANGED <<declared, sent, length, capacity>>

\* The stream ends; into_boxed_slice shrinks the buffer to its length.
End ==
    /\ outcome = "reading"
    /\ declared # Unknown => sent = declared
    /\ outcome' = "Ok"
    /\ capacity' = length
    /\ UNCHANGED <<declared, sent, length>>

Finished == outcome \in {"Ok", "TooLarge", "ClientError"} /\ UNCHANGED vars

Next == Begin \/ (\E n \in ChunkSizes : Chunk(n)) \/ Break \/ End \/ Finished

Spec == Init /\ [][Next]_vars

-----------------------------------------------------------------------------
(* Properties.                                                             *)

\* The types of the variables.
TypeOK ==
    /\ declared \in Lengths \cup {Unknown}
    /\ sent \in Nat /\ length \in Nat /\ capacity \in Nat
    /\ outcome \in {"start", "reading", "Ok", "TooLarge", "ClientError"}

\* While the body streams the buffer is never longer than the cap, and never
\* occupies twice the cap or more (8 bytes when the cap is tiny), however the
\* host cuts its chunks and whatever length it declares.
MemoryBounded ==
    /\ length <= MaxSize
    /\ capacity <= Greatest(2 * MaxSize, 8)

\* Ok returns the whole body, of the declared length if there was one: a body
\* is never silently truncated at the cap.
OkIsWhole ==
    outcome = "Ok" =>
        /\ length = sent
        /\ declared # Unknown => length = declared

\* TooLarge is only said of a body that declares or sends more than the cap: a
\* body of exactly max_size bytes passes.
TooLargeIsTrue ==
    outcome = "TooLarge" => sent > MaxSize \/ (declared # Unknown /\ declared > MaxSize)

\* An endless body is given up at the first chunk that exceeds the cap.
StopsAtCap == outcome \in {"start", "reading"} => sent <= MaxSize
=============================================================================
