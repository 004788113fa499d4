------------------------------- MODULE DnsGuard -------------------------------
(***************************************************************************)
(* SsrfGuardedDnsResolver: what a host name leads the client of the PDS    *)
(* hosts and of the directory to.  An IPv4 address is the sequence of its  *)
(* four octets, an IPv6 address the sequence of its eight segments.        *)
(***************************************************************************)
EXTENDS Naturals, Sequences, SequencesExt

CONSTANTS
    Answers,    \* what the system's resolver may answer: sequences of addresses
    LookupFails \* and its failure

MaxOctet == 255
MaxSegment == 65535
V4Addresses == [1..4 -> 0..MaxOctet]
V6Addresses == [1..8 -> 0..MaxSegment]

ASSUME AnswersAssumption ==
    /\ Answers \subseteq Seq(V4Addresses \cup V6Addresses)
    /\ {LookupFails, "nothing"} \cap Answers = {}
    /\ LookupFails # "nothing"

\* A refusal that is not the lookup's own.
NoSafeAddress == "NoSafeAddress"

IsV4(a) == Len(a) = 4

-----------------------------------------------------------------------------
(* The predicates of core::net, by the masks and patterns of its source.   *)

High(x, unit) == x - (x % unit)   \* x & !(unit - 1), unit a power of two

IsPrivateV4(a) ==
    \/ a[1] = 10
    \/ a[1] = 172 /\ a[2] \in 16..31
    \/ a[1] = 192 /\ a[2] = 168
IsDocumentationV4(a) ==
    <<a[1], a[2], a[3]>> \in {<<192, 0, 2>>, <<198, 51, 100>>, <<203, 0, 113>>}
IsLinkLocalV4(a) == a[1] = 169 /\ a[2] = 254
IsLoopbackV4(a) == a[1] = 127
IsMulticastV4(a) == a[1] \in 224..239
IsBroadcastV4(a) == a = <<255, 255, 255, 255>>

ZeroTo(a, n) == \A i \in 1..n : a[i] = 0
IsLoopbackV6(a) == ZeroTo(a, 7) /\ a[8] = 1
IsUnspecifiedV6(a) == ZeroTo(a, 8)
IsMulticastV6(a) == High(a[1], 256) = 65280
IsUniqueLocalV6(a) == High(a[1], 512) = 64512
IsLinkLocalV6(a) == High(a[1], 64) = 65152
IsV4Mapped(a) == ZeroTo(a, 5) /\ a[6] = 65535
V4Of(a) == <<a[7] \div 256, a[7] % 256, a[8] \div 256, a[8] % 256>>

-----------------------------------------------------------------------------
(* The resolver.                                                           *)

\* A bug: one bit too few of the shared space's mask.
IpIsPrivateV4Halved(a) ==
    \/ IsBroadcastV4(a) \/ IsDocumentationV4(a) \/ IsLinkLocalV4(a)
    \/ IsLoopbackV4(a) \/ IsMulticastV4(a) \/ IsPrivateV4(a)
    \/ a[1] = 0
    \/ a[1] = 100 /\ High(a[2], 32) = 64

IpIsPrivateV4(a) ==
    \/ IsBroadcastV4(a) \/ IsDocumentationV4(a) \/ IsLinkLocalV4(a)
    \/ IsLoopbackV4(a) \/ IsMulticastV4(a) \/ IsPrivateV4(a)
    \/ a[1] = 0
    \/ a[1] = 100 /\ High(a[2], 64) = 64

\* An IPv4 address in an IPv6 one is judged as the IPv4 address it is.
IpIsPrivateV6(a) ==
    IF IsV4Mapped(a) THEN IpIsPrivateV4(V4Of(a)) ELSE
    \/ IsLoopbackV6(a) \/ IsMulticastV6(a) \/ IsLinkLocalV6(a)
    \/ IsUniqueLocalV6(a) \/ IsUnspecifiedV6(a)
    \/ a[1] = 8193 /\ a[2] = 3512
    \/ a[1] = 16383 /\ 0 <= a[2] /\ a[2] <= 16383
    \/ a[1] = 8193 /\ a[2] = 0
    \/ a[1] = 8194
    \/ a[1] = 100 /\ a[2] = 65435

IsSafe(a) == IF IsV4(a) THEN ~IpIsPrivateV4(a) ELSE ~IpIsPrivateV6(a)

\* The members of S, in the order of seq.
Filter(seq, S) == LET In(a) == a \in S IN SelectSeq(seq, In)

\* What reqwest is given to connect to, or the error.
Resolved(addrs) ==
    IF addrs = LookupFails THEN LookupFails
    ELSE LET safe == Filter(addrs, {a \in Range(addrs) : IsSafe(a)})
         IN  IF safe = <<>> THEN NoSafeAddress ELSE safe

VARIABLES
    found,  \* what the system's resolver answered the last time, or "nothing" yet
    given   \* what the client was given for it, or "nothing" yet

dnsVars == <<found, given>>

DnsInit == found = "nothing" /\ given = "nothing"

\* One connection resolves the name, anew each time.
Lookup ==
    /\ given = "nothing"
    /\ found = "nothing"
    /\ found' \in Answers \cup {LookupFails}
    /\ UNCHANGED given

Resolve ==
    /\ found # "nothing"
    /\ given = "nothing"
    /\ given' = Resolved(found)
    /\ UNCHANGED found

Again == given # "nothing" /\ found' = "nothing" /\ given' = "nothing"

DnsNext == Lookup \/ Resolve \/ Again
DnsSpec == DnsInit /\ [][DnsNext]_dnsVars

-----------------------------------------------------------------------------
(* The ranges the comments name, from their first to their last address.   *)

First(prefix, n) == [i \in 1..n |-> IF i <= Len(prefix) THEN prefix[i] ELSE 0]
Final(prefix, n, top) == [i \in 1..n |-> IF i <= Len(prefix) THEN prefix[i] ELSE top]
V4Range(from, to) == <<First(from, 4), Final(to, 4, MaxOctet)>>
V6Range(from, to) == <<First(from, 8), Final(to, 8, MaxSegment)>>

V4Ranges ==
    {V4Range(<<0>>, <<0>>), V4Range(<<10>>, <<10>>), V4Range(<<100, 64>>, <<100, 127>>),
     V4Range(<<127>>, <<127>>), V4Range(<<169, 254>>, <<169, 254>>),
     V4Range(<<172, 16>>, <<172, 31>>), V4Range(<<192, 0, 2>>, <<192, 0, 2>>),
     V4Range(<<192, 168>>, <<192, 168>>), V4Range(<<198, 51, 100>>, <<198, 51, 100>>),
     V4Range(<<203, 0, 113>>, <<203, 0, 113>>), V4Range(<<224>>, <<239>>),
     V4Range(<<255, 255, 255, 255>>, <<255, 255, 255, 255>>)}

\* ::, ::1, 64:ff9b::/32, 2001::/32, 2001:db8::/32, 2002::/16, 3fff::/18,
\* fc00::/7, fe80::/10 and ff00::/8.
V6Ranges ==
    {V6Range(<<0, 0, 0, 0, 0, 0, 0, 0>>, <<0, 0, 0, 0, 0, 0, 0, 1>>),
     V6Range(<<100, 65435>>, <<100, 65435>>), V6Range(<<8193, 0>>, <<8193, 0>>),
     V6Range(<<8193, 3512>>, <<8193, 3512>>), V6Range(<<8194>>, <<8194>>),
     V6Range(<<16383, 0>>, <<16383, 16383>>), V6Range(<<64512>>, <<65023>>),
     V6Range(<<65152>>, <<65215>>), V6Range(<<65280>>, <<65535>>)}

MappedBlock == V6Range(<<0, 0, 0, 0, 0, 65535>>, <<0, 0, 0, 0, 0, 65535>>)

\* The order of addresses, the order of the numbers they are.
Before(a, b) == \E i \in 1..Len(a) : a[i] < b[i] /\ \A j \in 1..(i - 1) : a[j] = b[j]
Within(a, range) == ~Before(a, range[1]) /\ ~Before(range[2], a)
InSome(a, ranges) == \E range \in ranges : Within(a, range)

Reserved(a) ==
    IF IsV4(a) THEN InSome(a, V4Ranges)
    ELSE IF Within(a, MappedBlock) THEN InSome(V4Of(a), V4Ranges)
    ELSE InSome(a, V6Ranges)

\* The client is given exactly the public addresses of an answer, in the answer's
\* order, and a refusal when there are none: masks, patterns and the unwrapping
\* of mapped addresses agree with the ranges the comments name, at both ends of
\* each ("Only return safe addresses.").
GivenIsPublic ==
    given # "nothing" /\ found # LookupFails =>
        LET public == Filter(found, {a \in Range(found) : ~Reserved(a)})
        IN  given = IF public = <<>> THEN NoSafeAddress ELSE public
=============================================================================
