---------------------------- MODULE PartsProofs ----------------------------
(***************************************************************************)
(* What is proved of the parts that no two requests share: the check of a  *)
(* download against its CID, the judgement of its type, what is said of    *)
(* its media, the guard of the resolver, the weights of the cache and the  *)
(* capped stream.                                                          *)
(***************************************************************************)
EXTENDS BytesStream, BlobCid, ContentType, MediaMetadata, DnsGuard, BlobWeights,
        SequenceTheorems, WellFoundedInduction, FiniteSetTheorems, TLAPS

-----------------------------------------------------------------------------
(* The CID of a request and the bytes that count as its blob.              *)

\* Each step has what the one before it left: nothing is downloaded for a CID that was
\* refused, and what was checked is what was downloaded.
CidInv ==
    /\ parsed # Nothing => asked # Nothing /\ parsed = TryFromCid(asked)
    /\ received # Nothing => parsed = "ok"
    /\ verified # Nothing => received # Nothing /\ verified = Verify(asked, received)

\* The steps of a request keep CidInv.
LEMMA CidStep == CidInv /\ [CidNext]_cidVars => CidInv'
<1> SUFFICES ASSUME CidInv, [CidNext]_cidVars
             PROVE  CidInv'
    OBVIOUS
<1> USE CidAssumption DEF CidInv
<1>1. CASE Ask
    BY <1>1 DEF Ask
<1>2. CASE Parse
    BY <1>2 DEF Parse
<1>3. CASE Download
    BY <1>3 DEF Download
<1>4. CASE Check
    BY <1>4 DEF Check
<1>5. CASE CidDone \/ UNCHANGED cidVars
    BY <1>5 DEF CidDone, cidVars
<1>6. QED
    BY <1>1, <1>2, <1>3, <1>4, <1>5 DEF CidNext

\* What BlobCid accepts, the check can compute, and its outcome is the comparison of the
\* whole CID with the one of the bytes.
LEMMA CheckIsWhole ==
    ASSUME NEW cid, NEW bytes, TryFromCid(cid) = "ok"
    PROVE  /\ Verify(cid, bytes) \in {"ok", "CidMismatch"}
           /\ Verify(cid, bytes) = "ok" <=>
                  cid = Cid("v1", "raw", Multihash("sha2-256", FullSize["sha2-256"], bytes))
<1>1. cid.hash.function \in Code /\ cid.hash.function = "sha2-256"
    BY DEF TryFromCid
<1>2. Digest(cid.hash.function, bytes) = Multihash("sha2-256", FullSize["sha2-256"], bytes)
    BY <1>1 DEF Digest
<1>3. QED
    BY <1>1, <1>2 DEF Verify

\* A download passes the check if and only if its whole SHA-256 is the one in the CID,
\* for whatever CIDs a request may name, bytes a host may send and hash functions the
\* crate is built with (fetch_blob's closure after BlobCid::try_from).
THEOREM DownloadsAreWhole == CidSpec => []PassedIsWhole
<1>1. CidInit => CidInv
    BY DEF CidInit, CidInv
<1>2. CidInv => PassedIsWhole
    <2> SUFFICES ASSUME CidInv, verified # Nothing
                 PROVE  PassedIsWhole
        BY DEF PassedIsWhole
    <2>1. verified = Verify(asked, received) /\ TryFromCid(asked) = "ok"
        BY CidAssumption DEF CidInv
    <2>2. QED
        BY <2>1, CheckIsWhole DEF PassedIsWhole
<1>3. QED
    BY <1>1, <1>2, CidStep, PTL DEF CidSpec

-----------------------------------------------------------------------------
(* The type of a blob and the list of the allowed ones.                    *)

\* The verdict is about the type sniffed of the bytes.
MimeInv ==
    /\ buffer \in Buffers
    /\ sniffed # None => sniffed = SniffMime(buffer)
    /\ verdict # None =>
           /\ sniffed # None
           /\ verdict = IF IsMimeAllowed(sniffed, allowlist) THEN "allowed" ELSE "ForbiddenMimeType"

\* A list admits a type that is sniffed just when the list written out names it.
LEMMA WildcardsStandFor ==
    ASSUME NEW buf \in Buffers, NEW allowed
    PROVE  IsMimeAllowed(SniffMime(buf), allowed) <=> SniffMime(buf) \in WrittenOut(allowed)
<1> DEFINE mime == SniffMime(buf)
           Types == {SniffMime(b) : b \in Buffers}
           StandsFor(p) ==
               CASE p.type = Star /\ p.subtype = Star -> Types
                 [] p.type # Star /\ p.subtype = Star -> {t \in Types : t[1] = p.type}
                 [] p.subtype # Star /\ p.params # <<>> -> {}
                 [] OTHER -> {<<p.type, p.subtype>>}
<1>1. mime \in Types
    OBVIOUS
<1> HIDE DEF mime, Types
<1>2. ASSUME NEW p
      PROVE  Matches(mime, p) <=> mime \in StandsFor(p)
    <2>1. CASE p.type = Star /\ p.subtype = Star
        <3>1. StandsFor(p) = Types
            BY <2>1
        <3>2. QED
            BY <1>1, <2>1, <3>1 DEF Matches
    <2>2. CASE p.type # Star /\ p.subtype = Star
        <3>1. StandsFor(p) = {t \in Types : t[1] = p.type}
            BY <2>2
        <3>2. mime \in StandsFor(p) <=> mime[1] = p.type
            BY <1>1, <3>1
        <3>3. QED
            BY <2>2, <3>2 DEF Matches
    <2>3. CASE p.subtype # Star
        BY <2>3 DEF Matches
    <2>4. QED
        BY <2>1, <2>2, <2>3
<1>3. IsMimeAllowed(mime, allowed) <=> \E i \in DOMAIN allowed : mime \in StandsFor(allowed[i])
    BY <1>2 DEF IsMimeAllowed
<1>4. WrittenOut(allowed) = UNION {StandsFor(allowed[i]) : i \in DOMAIN allowed}
    BY DEF WrittenOut, Types
<1> HIDE DEF StandsFor
<1>5. QED
    BY <1>3, <1>4 DEF mime

\* Whatever the blobs and the list are, the verdict is whether the list with its
\* wildcards written out names the sniffed type (is_mime_allowed).
THEOREM VerdictsFollowTheList == MimeSpec => []VerdictIsTheList
<1>1. MimeInit => MimeInv
    BY DEF MimeInit, MimeInv
<1>2. MimeInv /\ [MimeNext]_mimeVars => MimeInv'
    <2> SUFFICES ASSUME MimeInv, [MimeNext]_mimeVars
                 PROVE  MimeInv'
        OBVIOUS
    <2> USE DEF MimeInv
    <2>1. CASE Sniff
        BY <2>1 DEF Sniff
    <2>2. CASE Judge
        BY <2>2 DEF Judge
    <2>3. CASE MimeDone \/ UNCHANGED mimeVars
        BY <2>3 DEF MimeDone, mimeVars
    <2>4. QED
        BY <2>1, <2>2, <2>3 DEF MimeNext
<1>3. MimeInv => VerdictIsTheList
    <2> SUFFICES ASSUME MimeInv, verdict # None
                 PROVE  verdict = "allowed" <=> sniffed \in WrittenOut(allowlist)
        BY DEF VerdictIsTheList
    <2>1. IsMimeAllowed(sniffed, allowlist) <=> sniffed \in WrittenOut(allowlist)
        BY WildcardsStandFor DEF MimeInv
    <2>2. QED
        BY <2>1 DEF MimeInv
<1>4. QED
    BY <1>1, <1>2, <1>3, PTL DEF MimeSpec

-----------------------------------------------------------------------------
(* What is said of the media.                                              *)

Found(m) == IF m.type = "image" THEN ImageFromBytes(m) ELSE VideoFromBytes(m)
Ended == {"parsed", "failed", "panicked"}

\* What was found is what the parser finds in this blob, and the answer is made of it
\* and of nothing that changes afterwards.
MediaInv ==
    /\ blob \in Media
    /\ task \in {"none", "running"} \cup Ended
    /\ task # "none" => blob.type \in {"image", "video"}
    /\ task = "panicked" => blob.type = "image"
    /\ task = "parsed" => attr = Found(blob) /\ attr # Absent
    /\ task = "failed" => Found(blob) = Absent
    /\ answer # Absent =>
           /\ answer = Body
           /\ task \in Ended \/ (task = "none" /\ blob.type \notin {"image", "video"})

\* The steps of the handler keep MediaInv.
LEMMA MediaStep == MediaInv /\ [MediaNext]_mediaVars => MediaInv'
<1> SUFFICES ASSUME MediaInv, [MediaNext]_mediaVars
             PROVE  MediaInv'
    OBVIOUS
<1> USE DEF MediaInv, Ended
<1>1. CASE StartParsing
    BY <1>1 DEF StartParsing
<1>2. CASE Parsed
    BY <1>2 DEF Parsed, Found
<1>3. CASE ParserPanics
    BY <1>3 DEF ParserPanics
<1>4. CASE Answer
    BY <1>4 DEF Answer, Body
<1>5. CASE Answered \/ UNCHANGED mediaVars
    BY <1>5 DEF Answered, mediaVars, Body
<1>6. QED
    BY <1>1, <1>2, <1>3, <1>4, <1>5 DEF MediaNext

\* Whatever an answer is made of was there from the start: a blob that is parsed.
LEMMA MediaInvariance == MediaSpec => []MediaInv
<1>1. MediaInit => MediaInv
    BY DEF MediaInit, MediaInv, Ended
<1>2. QED
    BY <1>1, MediaStep, PTL DEF MediaSpec

\* The greatest number of the signed kind, plus one.
LEMMA SignBitIsInt == SignBit \in Int
BY WordAssumption DEF SignBit

\* An image that is read comes out with its own height and width.
LEMMA ImageComesOut ==
    ASSUME NEW m \in Media, m.type = "image", ImageFromBytes(m) # Absent
    PROVE  /\ m.parses /\ m.told <= ChunkSize
           /\ ImageOutput(ImageFromBytes(m)) =
                  [kind |-> "image", aspectRatio |-> [height |-> m.height, width |-> m.width],
                   durationMs |-> Absent]
           /\ ImageOutput(ImageFromBytes(m)) # Absent
<1>1. m.parses /\ m.told <= ChunkSize
    BY DEF ImageFromBytes
<1>2. ImageFromBytes(m) = [width |-> m.width, height |-> m.height]
    BY <1>1 DEF ImageFromBytes
<1>3. ImageOutput(ImageFromBytes(m)) =
          [kind |-> "image", aspectRatio |-> [height |-> m.height, width |-> m.width],
           durationMs |-> Absent]
    BY <1>2 DEF ImageOutput, ImageDataBuild, AspectRatioBuild, Width, Height, AspectRatioNew
<1>4. m.height \in Nat /\ m.width \in Nat
    BY MediaAssumption
<1>5. QED
    BY <1>1, <1>3, <1>4, MediaAssumption DEF Ratios

\* A video that is read comes out with its own tags, the missing ones as 0.
LEMMA VideoComesOut ==
    ASSUME NEW m \in Media, m.type = "video", VideoFromBytes(m) # Absent
    PROVE  /\ m.parses
           /\ VideoOutput(VideoFromBytes(m)) =
                  [kind |-> "video",
                   aspectRatio |-> [height |-> OrZero(m.height), width |-> OrZero(m.width)],
                   durationMs |-> AsI64(OrZero(m.duration))]
           /\ VideoOutput(VideoFromBytes(m)) # Absent
           /\ {OrZero(m.height), OrZero(m.width), OrZero(m.duration)} \subseteq Nat
           /\ AsI64(OrZero(m.duration)) \in Int
<1>1. m.parses
    BY DEF VideoFromBytes
<1>2. VideoFromBytes(m) = [width |-> OrZero(m.width), height |-> OrZero(m.height),
                           duration |-> OrZero(m.duration)]
    BY <1>1 DEF VideoFromBytes
<1>3. VideoOutput(VideoFromBytes(m)) =
          [kind |-> "video",
           aspectRatio |-> [height |-> OrZero(m.height), width |-> OrZero(m.width)],
           durationMs |-> AsI64(OrZero(m.duration))]
    BY <1>2 DEF VideoOutput, VideoDataBuild, DurationMs, VideoAspectRatio, VideoDataNew,
                AspectRatioBuild, Width, Height, AspectRatioNew
<1>4. {OrZero(m.height), OrZero(m.width), OrZero(m.duration)} \subseteq Nat
    BY MediaAssumption DEF OrZero
<1>5. AsI64(OrZero(m.duration)) \in Int
    BY <1>4, SignBitIsInt DEF AsI64
<1>6. QED
    BY <1>1, <1>3, <1>4, <1>5, MediaAssumption DEF Ratios

\* The parsers say nothing only of what cannot be read.
LEMMA FoundUnlessUnreadable ==
    ASSUME NEW m \in Media, m.type \in {"image", "video"}
    PROVE  Found(m) = Absent <=> ~m.parses \/ (m.type = "image" /\ m.told > ChunkSize)
<1>1. CASE m.type = "image"
    <2>1. m.told \in Nat /\ [width |-> m.width, height |-> m.height] # Absent
        BY <1>1, MediaAssumption
    <2>2. QED
        BY <1>1, <2>1, WordAssumption DEF Found, ImageFromBytes
<1>2. CASE m.type = "video"
    <2>1. {OrZero(m.height), OrZero(m.width), OrZero(m.duration)} \subseteq Nat
        BY <1>2, MediaAssumption DEF OrZero
    <2>2. [width |-> OrZero(m.width), height |-> OrZero(m.height),
           duration |-> OrZero(m.duration)] # Absent
        BY <2>1, MediaAssumption
    <2>3. QED
        BY <1>2, <2>2 DEF Found, VideoFromBytes
<1>3. QED
    BY <1>1, <1>2

\* What an answer tells of the media is what the media declares: dimensions that are not
\* swapped, a duration that an i64 holds as it is, every field the builders need, for
\* every blob and every width of the numbers (the handler of getBlobMetadata).
THEOREM ReportsAreTrue == MediaSpec => []ReportsTheMedia
<1>1. MediaInv => ReportsTheMedia
    <2> SUFFICES ASSUME MediaInv, HasData
                 PROVE  ReportsTheMedia
        BY DEF ReportsTheMedia
    <2>1. task = "parsed" /\ attr = Found(blob) /\ attr # Absent /\ blob \in Media
        BY DEF MediaInv, HasData, Body
    <2>2. answer.data = IF blob.type = "image" THEN ImageOutput(attr) ELSE VideoOutput(attr)
        BY <2>1 DEF MediaInv, HasData, Body
    <2>3. CASE blob.type = "image"
        <3>1. answer.data =
                  [kind |-> "image", aspectRatio |-> [height |-> blob.height, width |-> blob.width],
                   durationMs |-> Absent]
            BY <2>1, <2>2, <2>3, ImageComesOut DEF Found
        <3>2. {blob.width, blob.height} \subseteq Nat /\ Absent \notin Int
            BY <2>1, <2>3, MediaAssumption
        <3>3. Complete(answer.data)
            BY <3>1, <3>2 DEF Complete
        <3>4. (\A n \in {blob.width, blob.height} : n \notin {Absent, 0}) =>
                  AspectRatioValid(answer.data.aspectRatio)
            BY <3>1, <3>2 DEF AspectRatioValid
        <3>5. QED
            BY <2>3, <3>1, <3>3, <3>4 DEF ReportsTheMedia
    <2>4. CASE blob.type = "video"
        <3>1. /\ answer.data =
                     [kind |-> "video",
                      aspectRatio |-> [height |-> OrZero(blob.height), width |-> OrZero(blob.width)],
                      durationMs |-> AsI64(OrZero(blob.duration))]
              /\ {OrZero(blob.height), OrZero(blob.width), OrZero(blob.duration)} \subseteq Nat
              /\ AsI64(OrZero(blob.duration)) \in Int
            BY <2>1, <2>2, <2>4, VideoComesOut DEF Found
        <3>2. Absent \notin Int
            BY MediaAssumption
        <3>3. Complete(answer.data)
            BY <3>1, <3>2 DEF Complete
        <3>4. /\ blob.width # Absent => answer.data.aspectRatio.width = blob.width
              /\ blob.height # Absent => answer.data.aspectRatio.height = blob.height
            BY <3>1 DEF OrZero
        <3>5. ASSUME blob.duration # Absent, blob.duration < SignBit
              PROVE  answer.data.durationMs = blob.duration /\ VideoDataValid(answer.data)
            <4>1. OrZero(blob.duration) = blob.duration /\ blob.duration \in Nat
                BY <3>1, <3>5 DEF OrZero
            <4>2. AsI64(blob.duration) = blob.duration
                BY <3>5, <4>1, SignBitIsInt DEF AsI64
            <4>3. QED
                BY <3>1, <4>1, <4>2 DEF VideoDataValid
        <3>6. (\A n \in {blob.width, blob.height} : n \notin {Absent, 0}) =>
                  AspectRatioValid(answer.data.aspectRatio)
            BY <3>1 DEF AspectRatioValid, OrZero
        <3>7. QED
            BY <2>4, <3>1, <3>3, <3>4, <3>5, <3>6 DEF ReportsTheMedia
    <2>5. QED
        BY <2>1, <2>3, <2>4 DEF MediaInv
<1>2. QED
    BY <1>1, MediaInvariance, PTL

\* Every answer has the size of the blob, and it is without data only where there is
\* none to tell: no media, media that cannot be read, or whose dimensions are past the
\* first chunk, or a parser that panicked.
THEOREM DataUnlessUnreadable == MediaSpec => []UnreadableHasNoData
<1>1. MediaInv => UnreadableHasNoData
    <2> SUFFICES ASSUME MediaInv, answer # Absent
                 PROVE  /\ answer.size = blob.length
                        /\ answer.data = Absent <=>
                               \/ blob.type \notin {"image", "video"}
                               \/ ~blob.parses
                               \/ blob.type = "image" /\ (blob.told > ChunkSize \/ task = "panicked")
        BY DEF UnreadableHasNoData
    <2>1. answer = Body /\ blob \in Media
        BY DEF MediaInv
    <2>2. answer.size = blob.length
        <3>1. blob.length \in Nat /\ blob.length < SignBit
            BY <2>1, MediaAssumption
        <3>2. AsI64(blob.length) = blob.length
            BY <3>1, SignBitIsInt DEF AsI64
        <3>3. QED
            BY <2>1, <3>2 DEF Body
    <2>3. CASE task = "parsed"
        <3>1. blob.type \in {"image", "video"} /\ attr = Found(blob) /\ attr # Absent
            BY <2>3 DEF MediaInv
        <3>2. answer.data = IF blob.type = "image" THEN ImageOutput(attr) ELSE VideoOutput(attr)
            BY <2>1, <2>3 DEF Body
        <3>3. answer.data # Absent
            BY <2>1, <3>1, <3>2, ImageComesOut, VideoComesOut DEF Found
        <3>4. QED
            BY <2>1, <2>2, <2>3, <3>1, <3>3, FoundUnlessUnreadable
    <2>4. CASE task = "failed"
        <3>1. blob.type \in {"image", "video"} /\ Found(blob) = Absent
            BY <2>4 DEF MediaInv
        <3>2. answer.data = Absent
            BY <2>1, <2>4 DEF Body
        <3>3. QED
            BY <2>1, <2>2, <3>1, <3>2, FoundUnlessUnreadable
    <2>5. CASE task = "panicked"
        BY <2>1, <2>2, <2>5 DEF MediaInv, Body
    <2>6. CASE task = "none"
        BY <2>1, <2>2, <2>6 DEF MediaInv, Body, Ended
    <2>7. QED
        BY <2>3, <2>4, <2>5, <2>6 DEF MediaInv, Ended
<1>2. QED
    BY <1>1, MediaInvariance, PTL

-----------------------------------------------------------------------------
(* The addresses the resolver hands out.                                   *)

\* A function on 1..n is a sequence of length n, with the parts it has.
LEMMA LengthOfTuple ==
    ASSUME NEW n \in Nat \ {0}, NEW top \in Int, NEW a \in [1..n -> 0..top]
    PROVE  /\ Len(a) = n
           /\ \A i \in 1..n : a[i] \in Int /\ 0 <= a[i] /\ a[i] <= top
<1>1. a \in Seq(0..top)
    BY SeqDef
<1>2. Len(a) \in Nat /\ DOMAIN a = 1..Len(a) /\ DOMAIN a = 1..n
    BY <1>1, LenProperties
<1>3. n \in 1..Len(a)
    BY <1>2
<1>4. Len(a) \in 1..n
    BY <1>2, <1>3
<1>5. QED
    BY <1>2, <1>3, <1>4

\* An IPv4 address has four octets, numbers below 2^8.
LEMMA V4Parts ==
    ASSUME NEW a \in V4Addresses
    PROVE  /\ Len(a) = 4
           /\ \A i \in 1..4 : a[i] \in Int /\ 0 <= a[i] /\ a[i] <= MaxOctet
<1>1. MaxOctet \in Int /\ 4 \in Nat \ {0}
    BY SMT DEF MaxOctet
<1>2. a \in [1..4 -> 0..MaxOctet]
    BY DEF V4Addresses
<1>3. QED
    BY <1>1, <1>2, LengthOfTuple

\* The same of an IPv6 address and its segments.
LEMMA V6Parts ==
    ASSUME NEW a \in V6Addresses
    PROVE  /\ Len(a) = 8
           /\ \A i \in 1..8 : a[i] \in Int /\ 0 <= a[i] /\ a[i] <= MaxSegment
<1>1. MaxSegment \in Int /\ 8 \in Nat \ {0}
    BY SMT DEF MaxSegment
<1>2. a \in [1..8 -> 0..MaxSegment]
    BY DEF V6Addresses
<1>3. QED
    BY <1>1, <1>2, LengthOfTuple

\* Of numbers there is a least.
LEMMA LeastOf ==
    ASSUME NEW T, T \subseteq Nat, T # {}
    PROVE  \E x \in T : \A y \in T : x <= y
<1>1. PICK x \in T : \A y \in T : <<y, x>> \notin OpToRel(<, Nat)
    BY NatLessThanWellFounded, WFMin
<1>2. ASSUME NEW y \in T
      PROVE  x <= y
    <2>1. OpToRel(<, Nat) = {ss \in Nat \X Nat : ss[1] < ss[2]}
        BY Zenon DEF OpToRel
    <2>2. <<y, x>> \notin {ss \in Nat \X Nat : ss[1] < ss[2]}
        BY Zenon, <1>1, <2>1
    <2>3. x \in Nat /\ y \in Nat /\ <<y, x>> \in Nat \X Nat
        OBVIOUS
    <2>4. ~(<<y, x>>[1] < <<y, x>>[2])
        BY Zenon, <2>2, <2>3
    <2>5. QED
        BY <2>3, <2>4
<1>3. QED
    BY <1>2

\* The addresses of a range share its first parts, and the next one is between two: in
\* the order of the numbers the addresses are, whatever their kind.
LEMMA PrefixRange ==
    ASSUME NEW n \in Nat, NEW top \in Int, NEW k \in 1..n,
           NEW a, \A i \in 1..n : a[i] \in Int /\ 0 <= a[i] /\ a[i] <= top, Len(a) = n,
           NEW from, Len(from) = k, \A i \in 1..k : from[i] \in Int,
           NEW to, Len(to) = k, \A i \in 1..k : to[i] \in Int,
           \A i \in 1..(k - 1) : from[i] = to[i]
    PROVE  Within(a, <<First(from, n), Final(to, n, top)>>) <=>
               /\ \A i \in 1..(k - 1) : a[i] = from[i]
               /\ from[k] <= a[k] /\ a[k] <= to[k]
<1> DEFINE lo == First(from, n)
           hi == Final(to, n, top)
           Shared == \A i \in 1..(k - 1) : a[i] = from[i]
<1>1. \A i \in 1..n : lo[i] = IF i <= k THEN from[i] ELSE 0
    BY DEF First
<1>2. \A i \in 1..n : hi[i] = IF i <= k THEN to[i] ELSE top
    BY DEF Final
<1>3. Len(hi) = n
    BY SeqDef DEF Final
<1>4. Before(a, lo) <=> \E i \in 1..n : a[i] < lo[i] /\ \A j \in 1..(i - 1) : a[j] = lo[j]
    BY DEF Before
<1>5. Before(hi, a) <=> \E i \in 1..n : hi[i] < a[i] /\ \A j \in 1..(i - 1) : hi[j] = a[j]
    BY <1>3 DEF Before
<1>6. Within(a, <<lo, hi>>) <=> ~Before(a, lo) /\ ~Before(hi, a)
    BY DEF Within
<1> HIDE DEF lo, hi
<1>7. ASSUME Shared, from[k] <= a[k], a[k] <= to[k]
      PROVE  ~Before(a, lo) /\ ~Before(hi, a)
    <2>1. ASSUME NEW i \in 1..n
          PROVE  lo[i] <= a[i] /\ a[i] <= hi[i]
        <3>1. CASE i < k
            BY <1>1, <1>2, <1>7, <3>1
        <3>2. CASE i = k
            BY <1>1, <1>2, <1>7, <3>2
        <3>3. CASE i > k
            BY <1>1, <1>2, <3>3
        <3>4. QED
            BY <3>1, <3>2, <3>3
    <2>2. \A i \in 1..n : lo[i] \in Int /\ hi[i] \in Int
        BY <1>1, <1>2
    <2>3. QED
        BY <1>4, <1>5, <2>1, <2>2
<1>8. ASSUME ~Before(a, lo), ~Before(hi, a)
      PROVE  Shared /\ from[k] <= a[k] /\ a[k] <= to[k]
    <2>1. Shared
        <3>1. SUFFICES ASSUME ~Shared
                       PROVE  FALSE
            OBVIOUS
        <3> DEFINE Differ == {i \in 1..(k - 1) : a[i] # from[i]}
        <3>2. Differ # {}
            BY <3>1
        <3>3. Differ \subseteq Nat
            OBVIOUS
        <3> HIDE DEF Differ
        <3>4. PICK x \in Differ : \A y \in Differ : x <= y
            BY <3>2, <3>3, LeastOf
        <3> USE DEF Differ
        <3>5. \A j \in 1..(x - 1) : a[j] = from[j]
            BY <3>4
        <3>6. x \in 1..n /\ x < k /\ lo[x] = from[x] /\ hi[x] = from[x]
            BY <1>1, <1>2, <3>4
        <3>7. \A j \in 1..(x - 1) : lo[j] = a[j] /\ hi[j] = a[j]
            BY <1>1, <1>2, <3>5, <3>6
        <3>8. a[x] < from[x] \/ from[x] < a[x]
            BY <3>4, <3>6
        <3>9. QED
            BY <1>4, <1>5, <1>8, <3>6, <3>7, <3>8
    <2>2. \A j \in 1..(k - 1) : lo[j] = a[j] /\ hi[j] = a[j]
        BY <1>1, <1>2, <2>1
    <2>3. k \in 1..n /\ lo[k] = from[k] /\ hi[k] = to[k]
        BY <1>1, <1>2
    <2>4. ~(a[k] < from[k]) /\ ~(to[k] < a[k])
        BY <1>4, <1>5, <1>8, <2>2, <2>3
    <2>5. QED
        BY <2>1, <2>4
<1>9. QED
    BY <1>6, <1>7, <1>8 DEF lo, hi

\* The ranges of IPv4 addresses, by how many octets they share.
LEMMA V4Prefix ==
    ASSUME NEW a \in V4Addresses, NEW k \in 1..4,
           NEW from, Len(from) = k, \A i \in 1..k : from[i] \in Int,
           NEW to, Len(to) = k, \A i \in 1..k : to[i] \in Int,
           \A i \in 1..(k - 1) : from[i] = to[i]
    PROVE  Within(a, V4Range(from, to)) <=>
               /\ \A i \in 1..(k - 1) : a[i] = from[i]
               /\ from[k] <= a[k] /\ a[k] <= to[k]
<1> DEFINE n == 4
           range == V4Range(from, to)
<1>1. MaxOctet \in Int /\ n \in Nat /\ k \in 1..n
    BY SMT DEF MaxOctet
<1>2. Len(a) = n /\ \A i \in 1..n : a[i] \in Int /\ 0 <= a[i] /\ a[i] <= MaxOctet
    BY V4Parts
<1>3. range = <<First(from, n), Final(to, n, MaxOctet)>>
    BY DEF V4Range
<1> HIDE DEF n, range
<1>4. Within(a, range) <=>
          /\ \A i \in 1..(k - 1) : a[i] = from[i]
          /\ from[k] <= a[k] /\ a[k] <= to[k]
    BY <1>1, <1>2, <1>3, PrefixRange
<1>5. QED
    BY <1>4 DEF range

\* The addresses whose first octet is between two.
LEMMA V4One ==
    ASSUME NEW a \in V4Addresses, NEW p \in Int, NEW q \in Int
    PROVE  Within(a, V4Range(<<p>>, <<q>>)) <=> p <= a[1] /\ a[1] <= q
<1> DEFINE from == <<p>>
           to == <<q>>
<1>1. /\ Len(from) = 1 /\ from[1] = p
      /\ Len(to) = 1 /\ to[1] = q
    OBVIOUS
<1> HIDE DEF from, to
<1>2. Within(a, V4Range(from, to)) <=> from[1] <= a[1] /\ a[1] <= to[1]
    BY <1>1, V4Prefix
<1>3. QED
    BY <1>1, <1>2 DEF from, to

\* The addresses with a given first octet and a second one between two.
LEMMA V4Two ==
    ASSUME NEW a \in V4Addresses, NEW p \in Int, NEW q \in Int, NEW r \in Int
    PROVE  Within(a, V4Range(<<p, q>>, <<p, r>>)) <=> a[1] = p /\ q <= a[2] /\ a[2] <= r
<1> DEFINE from == <<p, q>>
           to == <<p, r>>
<1>1. /\ Len(from) = 2 /\ from[1] = p /\ from[2] = q
      /\ Len(to) = 2 /\ to[1] = p /\ to[2] = r
    OBVIOUS
<1> HIDE DEF from, to
<1>2. Within(a, V4Range(from, to)) <=>
          (\A i \in 1..(2 - 1) : a[i] = from[i]) /\ from[2] <= a[2] /\ a[2] <= to[2]
    BY <1>1, V4Prefix
<1>3. QED
    BY <1>1, <1>2 DEF from, to

\* The addresses of a network of 24 bits.
LEMMA V4Three ==
    ASSUME NEW a \in V4Addresses, NEW p \in Int, NEW q \in Int, NEW r \in Int
    PROVE  Within(a, V4Range(<<p, q, r>>, <<p, q, r>>)) <=> a[1] = p /\ a[2] = q /\ a[3] = r
<1> DEFINE from == <<p, q, r>>
<1>1. Len(from) = 3 /\ from[1] = p /\ from[2] = q /\ from[3] = r
    OBVIOUS
<1> HIDE DEF from
<1>2. Within(a, V4Range(from, from)) <=>
          (\A i \in 1..(3 - 1) : a[i] = from[i]) /\ from[3] <= a[3] /\ a[3] <= from[3]
    BY <1>1, V4Prefix
<1>3. QED
    BY V4Parts, <1>1, <1>2 DEF from

\* One address.
LEMMA V4Four ==
    ASSUME NEW a \in V4Addresses, NEW p \in Int, NEW q \in Int, NEW r \in Int, NEW s \in Int
    PROVE  Within(a, V4Range(<<p, q, r, s>>, <<p, q, r, s>>)) <=>
                 a[1] = p /\ a[2] = q /\ a[3] = r /\ a[4] = s
<1> DEFINE from == <<p, q, r, s>>
<1>1. Len(from) = 4 /\ from[1] = p /\ from[2] = q /\ from[3] = r /\ from[4] = s
    OBVIOUS
<1> HIDE DEF from
<1>2. Within(a, V4Range(from, from)) <=>
          (\A i \in 1..(4 - 1) : a[i] = from[i]) /\ from[4] <= a[4] /\ a[4] <= from[4]
    BY <1>1, V4Prefix
<1>3. QED
    BY V4Parts, <1>1, <1>2 DEF from

\* The tuples that core::net compares an IPv4 address with, octet by octet.
LEMMA V4Tuples ==
    ASSUME NEW a \in V4Addresses
    PROVE  /\ IsBroadcastV4(a) <=> a[1] = 255 /\ a[2] = 255 /\ a[3] = 255 /\ a[4] = 255
           /\ IsDocumentationV4(a) <=>
                  \/ a[1] = 192 /\ a[2] = 0 /\ a[3] = 2
                  \/ a[1] = 198 /\ a[2] = 51 /\ a[3] = 100
                  \/ a[1] = 203 /\ a[2] = 0 /\ a[3] = 113
<1>1. a = <<a[1], a[2], a[3], a[4]>>
    BY V4Parts DEF V4Addresses
<1>2. QED
    BY <1>1 DEF IsBroadcastV4, IsDocumentationV4

\* The guard refuses an IPv4 address just when it is in a range the comments name.
LEMMA GuardsV4 ==
    ASSUME NEW a \in V4Addresses
    PROVE  IpIsPrivateV4(a) <=> InSome(a, V4Ranges)
<1>1. /\ Within(a, V4Range(<<0>>, <<0>>)) <=> a[1] = 0
      /\ Within(a, V4Range(<<10>>, <<10>>)) <=> a[1] = 10
      /\ Within(a, V4Range(<<127>>, <<127>>)) <=> IsLoopbackV4(a)
      /\ Within(a, V4Range(<<224>>, <<239>>)) <=> IsMulticastV4(a)
    BY V4One, V4Parts DEF IsLoopbackV4, IsMulticastV4
<1>2. /\ Within(a, V4Range(<<100, 64>>, <<100, 127>>)) <=> a[1] = 100 /\ High(a[2], 64) = 64
      /\ Within(a, V4Range(<<169, 254>>, <<169, 254>>)) <=> IsLinkLocalV4(a)
      /\ Within(a, V4Range(<<172, 16>>, <<172, 31>>)) <=> a[1] = 172 /\ a[2] \in 16..31
      /\ Within(a, V4Range(<<192, 168>>, <<192, 168>>)) <=> a[1] = 192 /\ a[2] = 168
    BY V4Two, V4Parts DEF IsLinkLocalV4, High
<1>3. \/ Within(a, V4Range(<<192, 0, 2>>, <<192, 0, 2>>))
      \/ Within(a, V4Range(<<198, 51, 100>>, <<198, 51, 100>>))
      \/ Within(a, V4Range(<<203, 0, 113>>, <<203, 0, 113>>))
      <=> IsDocumentationV4(a)
    BY V4Three, V4Tuples
<1>4. Within(a, V4Range(<<255, 255, 255, 255>>, <<255, 255, 255, 255>>)) <=> IsBroadcastV4(a)
    BY V4Four, V4Tuples
<1>5. InSome(a, V4Ranges) <=>
          \/ Within(a, V4Range(<<0>>, <<0>>)) \/ Within(a, V4Range(<<10>>, <<10>>))
          \/ Within(a, V4Range(<<127>>, <<127>>)) \/ Within(a, V4Range(<<224>>, <<239>>))
          \/ Within(a, V4Range(<<100, 64>>, <<100, 127>>))
          \/ Within(a, V4Range(<<169, 254>>, <<169, 254>>))
          \/ Within(a, V4Range(<<172, 16>>, <<172, 31>>))
          \/ Within(a, V4Range(<<192, 168>>, <<192, 168>>))
          \/ Within(a, V4Range(<<192, 0, 2>>, <<192, 0, 2>>))
          \/ Within(a, V4Range(<<198, 51, 100>>, <<198, 51, 100>>))
          \/ Within(a, V4Range(<<203, 0, 113>>, <<203, 0, 113>>))
          \/ Within(a, V4Range(<<255, 255, 255, 255>>, <<255, 255, 255, 255>>))
    BY DEF InSome, V4Ranges
<1>6. QED
    BY <1>1, <1>2, <1>3, <1>4, <1>5 DEF IpIsPrivateV4, IsPrivateV4

\* The ranges of IPv6 addresses, by how many segments they share.
LEMMA V6Prefix ==
    ASSUME NEW a \in V6Addresses, NEW k \in 1..8,
           NEW from, Len(from) = k, \A i \in 1..k : from[i] \in Int,
           NEW to, Len(to) = k, \A i \in 1..k : to[i] \in Int,
           \A i \in 1..(k - 1) : from[i] = to[i]
    PROVE  Within(a, V6Range(from, to)) <=>
               /\ \A i \in 1..(k - 1) : a[i] = from[i]
               /\ from[k] <= a[k] /\ a[k] <= to[k]
<1> DEFINE n == 8
           range == V6Range(from, to)
<1>1. MaxSegment \in Int /\ n \in Nat /\ k \in 1..n
    BY SMT DEF MaxSegment
<1>2. Len(a) = n /\ \A i \in 1..n : a[i] \in Int /\ 0 <= a[i] /\ a[i] <= MaxSegment
    BY V6Parts
<1>3. range = <<First(from, n), Final(to, n, MaxSegment)>>
    BY DEF V6Range
<1> HIDE DEF n, range
<1>4. Within(a, range) <=>
          /\ \A i \in 1..(k - 1) : a[i] = from[i]
          /\ from[k] <= a[k] /\ a[k] <= to[k]
    BY <1>1, <1>2, <1>3, PrefixRange
<1>5. QED
    BY <1>4 DEF range

\* The addresses whose first segment is between two.
LEMMA V6One ==
    ASSUME NEW a \in V6Addresses, NEW p \in Int, NEW q \in Int
    PROVE  Within(a, V6Range(<<p>>, <<q>>)) <=> p <= a[1] /\ a[1] <= q
<1> DEFINE from == <<p>>
           to == <<q>>
<1>1. /\ Len(from) = 1 /\ from[1] = p
      /\ Len(to) = 1 /\ to[1] = q
    OBVIOUS
<1> HIDE DEF from, to
<1>2. Within(a, V6Range(from, to)) <=> from[1] <= a[1] /\ a[1] <= to[1]
    BY <1>1, V6Prefix
<1>3. QED
    BY <1>1, <1>2 DEF from, to

\* The addresses with a given first segment and a second one between two.
LEMMA V6Two ==
    ASSUME NEW a \in V6Addresses, NEW p \in Int, NEW q \in Int, NEW r \in Int
    PROVE  Within(a, V6Range(<<p, q>>, <<p, r>>)) <=> a[1] = p /\ q <= a[2] /\ a[2] <= r
<1> DEFINE from == <<p, q>>
           to == <<p, r>>
<1>1. /\ Len(from) = 2 /\ from[1] = p /\ from[2] = q
      /\ Len(to) = 2 /\ to[1] = p /\ to[2] = r
    OBVIOUS
<1> HIDE DEF from, to
<1>2. Within(a, V6Range(from, to)) <=>
          (\A i \in 1..(2 - 1) : a[i] = from[i]) /\ from[2] <= a[2] /\ a[2] <= to[2]
    BY <1>1, V6Prefix
<1>3. QED
    BY <1>1, <1>2 DEF from, to

\* An address is in ::ffff:0:0/96 just when it is a mapped IPv4 address.
LEMMA MappedIsBlock ==
    ASSUME NEW a \in V6Addresses
    PROVE  Within(a, MappedBlock) <=> IsV4Mapped(a)
<1> DEFINE from == <<0, 0, 0, 0, 0, 65535>>
<1>1. Len(from) = 6 /\ (\A i \in 1..5 : from[i] = 0) /\ from[6] = 65535
    BY SMT
<1>2. a[6] \in Int
    BY V6Parts
<1> HIDE DEF from
<1>3. Within(a, V6Range(from, from)) <=>
          (\A i \in 1..(6 - 1) : a[i] = from[i]) /\ from[6] <= a[6] /\ a[6] <= from[6]
    BY <1>1, V6Prefix
<1>4. Within(a, V6Range(from, from)) <=> (\A i \in 1..5 : a[i] = 0) /\ a[6] = 65535
    BY SMT, <1>1, <1>2, <1>3
<1>5. QED
    BY <1>4 DEF from, MappedBlock, IsV4Mapped, ZeroTo

\* The addresses :: and ::1 are the unspecified one and the loopback.
LEMMA LowestTwo ==
    ASSUME NEW a \in V6Addresses
    PROVE  Within(a, V6Range(<<0, 0, 0, 0, 0, 0, 0, 0>>, <<0, 0, 0, 0, 0, 0, 0, 1>>)) <=>
               IsUnspecifiedV6(a) \/ IsLoopbackV6(a)
<1> DEFINE from == <<0, 0, 0, 0, 0, 0, 0, 0>>
           to == <<0, 0, 0, 0, 0, 0, 0, 1>>
<1>1. /\ Len(from) = 8 /\ \A i \in 1..8 : from[i] = 0
      /\ Len(to) = 8 /\ (\A i \in 1..7 : to[i] = 0) /\ to[8] = 1
    OBVIOUS
<1>2. a[8] \in Int
    BY V6Parts
<1> HIDE DEF from, to
<1>3. Within(a, V6Range(from, to)) <=>
          (\A i \in 1..(8 - 1) : a[i] = from[i]) /\ from[8] <= a[8] /\ a[8] <= to[8]
    BY <1>1, V6Prefix
<1>4. Within(a, V6Range(from, to)) <=> (\A i \in 1..7 : a[i] = 0) /\ (a[8] = 0 \/ a[8] = 1)
    BY <1>1, <1>2, <1>3
<1>5. QED
    BY <1>4 DEF from, to, IsUnspecifiedV6, IsLoopbackV6, ZeroTo

\* What a mapped address maps is an IPv4 address.
LEMMA MapsV4 ==
    ASSUME NEW a \in V6Addresses
    PROVE  V4Of(a) \in V4Addresses
<1>1. /\ a[7] \in Int /\ 0 <= a[7] /\ a[7] <= MaxSegment
      /\ a[8] \in Int /\ 0 <= a[8] /\ a[8] <= MaxSegment
    BY V6Parts
<1>2. ASSUME NEW x \in Int, 0 <= x, x <= MaxSegment
      PROVE  x \div 256 \in 0..MaxOctet /\ x % 256 \in 0..MaxOctet
    BY SMT, <1>2 DEF MaxSegment, MaxOctet
<1>3. QED
    BY <1>1, <1>2 DEF V4Of, V4Addresses

\* The guard refuses an IPv6 address that maps no IPv4 address just when it is in a range
\* the comments name.
LEMMA GuardsV6 ==
    ASSUME NEW a \in V6Addresses, ~IsV4Mapped(a)
    PROVE  IpIsPrivateV6(a) <=> InSome(a, V6Ranges)
<1>1. /\ a[1] \in Int /\ 0 <= a[1] /\ a[1] <= MaxSegment
      /\ a[2] \in Int /\ 0 <= a[2] /\ a[2] <= MaxSegment
    BY V6Parts
<1>2. Within(a, V6Range(<<0, 0, 0, 0, 0, 0, 0, 0>>, <<0, 0, 0, 0, 0, 0, 0, 1>>)) <=>
          IsUnspecifiedV6(a) \/ IsLoopbackV6(a)
    BY LowestTwo
<1>3. Within(a, V6Range(<<100, 65435>>, <<100, 65435>>)) <=> a[1] = 100 /\ a[2] = 65435
    BY SMT, <1>1, V6Two
<1>4. Within(a, V6Range(<<8193, 0>>, <<8193, 0>>)) <=> a[1] = 8193 /\ a[2] = 0
    BY SMT, <1>1, V6Two
<1>5. Within(a, V6Range(<<8193, 3512>>, <<8193, 3512>>)) <=> a[1] = 8193 /\ a[2] = 3512
    BY SMT, <1>1, V6Two
<1>6. Within(a, V6Range(<<8194>>, <<8194>>)) <=> a[1] = 8194
    BY SMT, <1>1, V6One
<1>7. Within(a, V6Range(<<16383, 0>>, <<16383, 16383>>)) <=> a[1] = 16383 /\ 0 <= a[2] /\ a[2] <= 16383
    BY SMT, <1>1, V6Two
<1>8. Within(a, V6Range(<<64512>>, <<65023>>)) <=> IsUniqueLocalV6(a)
    <2>1. Within(a, V6Range(<<64512>>, <<65023>>)) <=> 64512 <= a[1] /\ a[1] <= 65023
        BY SMT, V6One
    <2>2. QED
        BY SMT, <1>1, <2>1 DEF IsUniqueLocalV6, High, MaxSegment
<1>9. Within(a, V6Range(<<65152>>, <<65215>>)) <=> IsLinkLocalV6(a)
    <2>1. Within(a, V6Range(<<65152>>, <<65215>>)) <=> 65152 <= a[1] /\ a[1] <= 65215
        BY SMT, V6One
    <2>2. QED
        BY SMT, <1>1, <2>1 DEF IsLinkLocalV6, High, MaxSegment
<1>10. Within(a, V6Range(<<65280>>, <<65535>>)) <=> IsMulticastV6(a)
    <2>1. Within(a, V6Range(<<65280>>, <<65535>>)) <=> 65280 <= a[1] /\ a[1] <= 65535
        BY SMT, V6One
    <2>2. QED
        BY SMT, <1>1, <2>1 DEF IsMulticastV6, High, MaxSegment
<1>11. InSome(a, V6Ranges) <=>
          \/ Within(a, V6Range(<<0, 0, 0, 0, 0, 0, 0, 0>>, <<0, 0, 0, 0, 0, 0, 0, 1>>))
          \/ Within(a, V6Range(<<100, 65435>>, <<100, 65435>>))
          \/ Within(a, V6Range(<<8193, 0>>, <<8193, 0>>))
          \/ Within(a, V6Range(<<8193, 3512>>, <<8193, 3512>>))
          \/ Within(a, V6Range(<<8194>>, <<8194>>))
          \/ Within(a, V6Range(<<16383, 0>>, <<16383, 16383>>))
          \/ Within(a, V6Range(<<64512>>, <<65023>>))
          \/ Within(a, V6Range(<<65152>>, <<65215>>))
          \/ Within(a, V6Range(<<65280>>, <<65535>>))
    BY SMT DEF InSome, V6Ranges
<1>12. IpIsPrivateV6(a) <=>
          \/ IsLoopbackV6(a) \/ IsMulticastV6(a) \/ IsLinkLocalV6(a)
          \/ IsUniqueLocalV6(a) \/ IsUnspecifiedV6(a)
          \/ a[1] = 8193 /\ a[2] = 3512
          \/ a[1] = 16383 /\ 0 <= a[2] /\ a[2] <= 16383
          \/ a[1] = 8193 /\ a[2] = 0
          \/ a[1] = 8194
          \/ a[1] = 100 /\ a[2] = 65435
    BY SMT DEF IpIsPrivateV6
<1>13. QED
    BY SMT, <1>2, <1>3, <1>4, <1>5, <1>6, <1>7, <1>8, <1>9, <1>10, <1>11, <1>12

\* Masks, patterns and the unwrapping of mapped addresses agree with the ranges: an
\* address is safe just when it is not reserved, each of the 2^32 and each of the 2^128.
LEMMA SafeIsPublic ==
    ASSUME NEW a \in V4Addresses \cup V6Addresses
    PROVE  IsSafe(a) <=> ~Reserved(a)
<1>1. CASE a \in V4Addresses
    <2>1. IsV4(a)
        BY <1>1, V4Parts DEF IsV4
    <2>2. QED
        BY <1>1, <2>1, GuardsV4 DEF IsSafe, Reserved
<1>2. CASE a \in V6Addresses
    <2>1. ~IsV4(a)
        BY <1>2, V6Parts DEF IsV4
    <2>2. CASE IsV4Mapped(a)
        <3>1. Within(a, MappedBlock) /\ V4Of(a) \in V4Addresses
            BY <1>2, <2>2, MappedIsBlock, MapsV4
        <3>2. IpIsPrivateV6(a) <=> IpIsPrivateV4(V4Of(a))
            BY SMT, <2>2 DEF IpIsPrivateV6
        <3>3. QED
            BY <2>1, <3>1, <3>2, GuardsV4 DEF IsSafe, Reserved
    <2>3. CASE ~IsV4Mapped(a)
        <3>1. ~Within(a, MappedBlock)
            BY <1>2, <2>3, MappedIsBlock
        <3>2. QED
            BY <1>2, <2>1, <2>3, <3>1, GuardsV6 DEF IsSafe, Reserved
    <2>4. QED
        BY <2>2, <2>3
<1>3. QED
    BY <1>1, <1>2

\* The client is given what Resolved makes of the answer.
DnsInv ==
    /\ found \in Answers \cup {LookupFails, "nothing"}
    /\ given # "nothing" => found # "nothing" /\ given = Resolved(found)

\* Whatever the system's resolver answers, the client of the hosts and of the directory is
\* given its public addresses, all of them and in its order, and a refusal when there
\* are none (SsrfGuardedDnsResolver).
THEOREM ClientGetsPublic == DnsSpec => []GivenIsPublic
<1>1. DnsInit => DnsInv
    BY DEF DnsInit, DnsInv
<1>2. DnsInv /\ [DnsNext]_dnsVars => DnsInv'
    <2> SUFFICES ASSUME DnsInv, [DnsNext]_dnsVars
                 PROVE  DnsInv'
        OBVIOUS
    <2> USE DEF DnsInv
    <2>1. CASE Lookup
        BY <2>1 DEF Lookup
    <2>2. CASE Resolve
        BY <2>2 DEF Resolve
    <2>3. CASE Again
        BY <2>3 DEF Again
    <2>4. CASE UNCHANGED dnsVars
        BY <2>4 DEF dnsVars
    <2>5. QED
        BY <2>1, <2>2, <2>3, <2>4 DEF DnsNext
<1>3. DnsInv => GivenIsPublic
    <2> SUFFICES ASSUME DnsInv, given # "nothing", found # LookupFails
                 PROVE  GivenIsPublic
        BY DEF GivenIsPublic
    <2> DEFINE safe == {a \in Range(found) : IsSafe(a)}
               public == {a \in Range(found) : ~Reserved(a)}
    <2>1. found \in Seq(V4Addresses \cup V6Addresses)
        BY AnswersAssumption DEF DnsInv
    <2>2. \A a \in Range(found) : a \in V4Addresses \cup V6Addresses
        <3> HIDE DEF safe, public
        <3>1. \A i \in DOMAIN found : found[i] \in V4Addresses \cup V6Addresses
            BY <2>1, LenProperties, ElementOfSeq
        <3>2. QED
            BY <3>1 DEF Range
    <2>3. safe = public
        BY <2>2, SafeIsPublic
    <2>4. given = IF Filter(found, safe) = <<>> THEN NoSafeAddress ELSE Filter(found, safe)
        BY DEF DnsInv, Resolved
    <2> HIDE DEF safe, public
    <2>5. given = IF Filter(found, public) = <<>> THEN NoSafeAddress ELSE Filter(found, public)
        BY <2>3, <2>4
    <2>6. QED
        BY <2>5 DEF GivenIsPublic, public
<1>4. QED
    BY <1>1, <1>2, <1>3, PTL DEF DnsSpec

-----------------------------------------------------------------------------
(* Sums, and the weights of the cache.                                     *)

\* A set of numbers with 0 and with the successor of each of its members has them all.
LEMMA Induction ==
    ASSUME NEW S, 0 \in S, \A n \in Nat : n \in S => n + 1 \in S
    PROVE  Nat \subseteq S
<1>1. SUFFICES ASSUME Nat \ S # {}
               PROVE  FALSE
    OBVIOUS
<1> DEFINE Rest == Nat \ S
<1>2. Rest # {} /\ Rest \subseteq Nat
    BY <1>1
<1> HIDE DEF Rest
<1>3. PICK x \in Rest : \A y \in Rest : x <= y
    BY <1>2, LeastOf
<1>4. x \in Nat /\ x \notin S
    BY <1>3 DEF Rest
<1>5. x - 1 \in Nat /\ ~(x <= x - 1)
    BY <1>4
<1>6. x - 1 \in S
    BY <1>3, <1>5 DEF Rest
<1>7. (x - 1) + 1 = x
    BY <1>4
<1>8. QED
    BY <1>4, <1>5, <1>6, <1>7

\* The member that a fold takes first, and what it makes of the rest.
One(s) == CHOOSE x \in s : TRUE
Turn(v, iter, s) == IF s = {} THEN 0 ELSE v[One(s)] + iter[s \ {One(s)}]
SumsUp(v, iter) == iter = [s \in SUBSET DOMAIN v |-> Turn(v, iter, s)]

\* SumFunction is the value at the whole domain of a function that sums up.
LEMMA SumIsFold ==
    ASSUME NEW v
    PROVE  SumFunction(v) = (CHOOSE iter : SumsUp(v, iter))[DOMAIN v]
BY Zenon DEF SumFunction, SumFunctionOnSet, FoldFunctionOnSet, MapThenFoldSet, SumsUp, Turn, One

\* What remains of a finite set that is not empty, once a member is taken.
LEMMA TakeOne ==
    ASSUME NEW s, IsFiniteSet(s), s # {}
    PROVE  /\ One(s) \in s
           /\ IsFiniteSet(s \ {One(s)})
           /\ Cardinality(s) \in Nat
           /\ Cardinality(s) # 0
           /\ Cardinality(s \ {One(s)}) = Cardinality(s) - 1
<1>1. One(s) \in s
    BY DEF One
<1>2. QED
    BY <1>1, FS_RemoveElement, FS_CardinalityType, FS_EmptySet

\* On a finite domain there is a function that sums up.
LEMMA SomeSumsUp ==
    ASSUME NEW v, IsFiniteSet(DOMAIN v)
    PROVE  \E iter : SumsUp(v, iter)
<1> DEFINE Upto(n, f) == \A s \in SUBSET DOMAIN v : Cardinality(s) <= n => f[s] = Turn(v, f, s)
           S == {n \in Nat : \E f : Upto(n, f)}
<1>1. \A s \in SUBSET DOMAIN v : IsFiniteSet(s) /\ Cardinality(s) \in Nat
    BY FS_Subset, FS_CardinalityType
<1>2. 0 \in S
    <2> DEFINE f == [s \in SUBSET DOMAIN v |-> 0]
    <2>1. ASSUME NEW s \in SUBSET DOMAIN v, Cardinality(s) <= 0
          PROVE  f[s] = Turn(v, f, s)
        <3>1. s = {}
            BY <1>1, <2>1, FS_EmptySet
        <3>2. QED
            BY <3>1 DEF Turn
    <2>2. QED
        BY <2>1
<1>3. ASSUME NEW n \in Nat, n \in S
      PROVE  n + 1 \in S
    <2>1. PICK f : Upto(n, f)
        BY <1>3
    <2> DEFINE g == [s \in SUBSET DOMAIN v |-> Turn(v, f, s)]
    <2>2. ASSUME NEW s \in SUBSET DOMAIN v, Cardinality(s) <= n
          PROVE  g[s] = f[s]
        BY <2>1, <2>2
    <2>3. ASSUME NEW s \in SUBSET DOMAIN v, Cardinality(s) <= n + 1
          PROVE  g[s] = Turn(v, g, s)
        <3>1. CASE s = {}
            BY <3>1 DEF Turn
        <3>2. CASE s # {}
            <4> DEFINE t == s \ {One(s)}
            <4>1. t \in SUBSET DOMAIN v /\ Cardinality(t) <= n
                BY <1>1, <2>3, <3>2, TakeOne
            <4>2. g[t] = f[t]
                BY <2>2, <4>1
            <4>3. g[s] = Turn(v, f, s)
                OBVIOUS
            <4> HIDE DEF g
            <4>4. QED
                BY <3>2, <4>2, <4>3 DEF Turn
        <3>3. QED
            BY <3>1, <3>2
    <2> HIDE DEF g
    <2>4. Upto(n + 1, g)
        BY <2>3
    <2>5. QED
        BY <2>4
<1>4. Cardinality(DOMAIN v) \in S
    <2> HIDE DEF S
    <2>1. Nat \subseteq S
        BY <1>2, <1>3, Induction
    <2>2. QED
        BY <1>1, <2>1
<1>5. PICK f : Upto(Cardinality(DOMAIN v), f)
    BY <1>4
<1> DEFINE g == [s \in SUBSET DOMAIN v |-> Turn(v, f, s)]
<1>6. ASSUME NEW s \in SUBSET DOMAIN v
      PROVE  g[s] = f[s]
    <2>1. Cardinality(s) <= Cardinality(DOMAIN v)
        BY FS_Subset
    <2>2. QED
        BY <1>5, <2>1
<1>7. ASSUME NEW s \in SUBSET DOMAIN v
      PROVE  Turn(v, f, s) = Turn(v, g, s)
    <2>1. CASE s = {}
        BY <2>1 DEF Turn
    <2>2. CASE s # {}
        <3>1. s \ {One(s)} \in SUBSET DOMAIN v
            OBVIOUS
        <3>2. g[s \ {One(s)}] = f[s \ {One(s)}]
            BY <1>6, <3>1
        <3> HIDE DEF g
        <3>3. QED
            BY <2>2, <3>2 DEF Turn
    <2>3. QED
        BY <2>1, <2>2
<1>8. SumsUp(v, g)
    <2>1. g = [s \in SUBSET DOMAIN v |-> Turn(v, f, s)]
        OBVIOUS
    <2> HIDE DEF g
    <2>2. [s \in SUBSET DOMAIN v |-> Turn(v, f, s)] = [s \in SUBSET DOMAIN v |-> Turn(v, g, s)]
        BY <1>7
    <2>3. QED
        BY <2>1, <2>2 DEF SumsUp
<1>9. QED
    BY <1>8

\* The values of v over T, added up.
Sum(v, T) == SumFunction([x \in T |-> v[x]])

\* Two functions that sum up the same values agree, where both are defined.
LEMMA SumsAgree ==
    ASSUME NEW v, NEW f, SumsUp(v, f),
           NEW w, NEW g, SumsUp(w, g),
           DOMAIN w \subseteq DOMAIN v, \A x \in DOMAIN w : w[x] = v[x], IsFiniteSet(DOMAIN w)
    PROVE  f[DOMAIN w] = g[DOMAIN w]
<1> DEFINE S == {n \in Nat : \A s \in SUBSET DOMAIN w : Cardinality(s) <= n => f[s] = g[s]}
<1>1. \A s \in SUBSET DOMAIN w : IsFiniteSet(s) /\ Cardinality(s) \in Nat
    BY FS_Subset, FS_CardinalityType
<1>2. \A s \in SUBSET DOMAIN w : f[s] = Turn(v, f, s) /\ g[s] = Turn(w, g, s)
    BY DEF SumsUp
<1>3. 0 \in S
    <2>1. ASSUME NEW s \in SUBSET DOMAIN w, Cardinality(s) <= 0
          PROVE  f[s] = g[s]
        <3>1. s = {}
            BY <1>1, <2>1, FS_EmptySet
        <3>2. QED
            BY <1>2, <3>1 DEF Turn
    <2>2. QED
        BY <2>1
<1>4. ASSUME NEW n \in Nat, n \in S
      PROVE  n + 1 \in S
    <2>1. ASSUME NEW s \in SUBSET DOMAIN w, Cardinality(s) <= n + 1
          PROVE  f[s] = g[s]
        <3>1. CASE s = {}
            BY <1>2, <3>1 DEF Turn
        <3>2. CASE s # {}
            <4> DEFINE t == s \ {One(s)}
            <4>1. t \in SUBSET DOMAIN w /\ Cardinality(t) <= n /\ One(s) \in DOMAIN w
                BY <1>1, <2>1, <3>2, TakeOne
            <4>2. f[t] = g[t]
                BY <1>4, <4>1
            <4>3. f[s] = v[One(s)] + f[t] /\ g[s] = w[One(s)] + g[t]
                BY <1>2, <3>2 DEF Turn
            <4>4. QED
                BY <4>1, <4>2, <4>3
        <3>3. QED
            BY <3>1, <3>2
    <2>2. QED
        BY <2>1
<1> HIDE DEF S
<1>5. Nat \subseteq S
    BY <1>3, <1>4, Induction
<1>6. Cardinality(DOMAIN w) \in S
    BY <1>1, <1>5
<1>7. QED
    BY <1>1, <1>6 DEF S

\* A sum over no member, and over a member and the rest.
LEMMA SumSteps ==
    ASSUME NEW v, NEW T, IsFiniteSet(T)
    PROVE  Sum(v, T) = IF T = {} THEN 0 ELSE v[One(T)] + Sum(v, T \ {One(T)})
<1> DEFINE Part(U) == [x \in U |-> v[x]]
           Fold(U) == CHOOSE iter : SumsUp(Part(U), iter)
<1>1. ASSUME NEW U, IsFiniteSet(U)
      PROVE  SumsUp(Part(U), Fold(U)) /\ Sum(v, U) = Fold(U)[U] /\ DOMAIN Part(U) = U
    <2>1. DOMAIN Part(U) = U
        OBVIOUS
    <2> HIDE DEF Part
    <2>2. \E iter : SumsUp(Part(U), iter)
        BY <1>1, <2>1, SomeSumsUp
    <2>3. SumsUp(Part(U), Fold(U))
        BY Zenon, <2>2
    <2>4. SumFunction(Part(U)) = Fold(U)[DOMAIN Part(U)]
        BY SumIsFold
    <2>5. Sum(v, U) = SumFunction(Part(U))
        BY DEF Sum, Part
    <2>6. QED
        BY <2>1, <2>3, <2>4, <2>5
<1>2. Fold(T)[T] = Turn(Part(T), Fold(T), T)
    <2>1. SumsUp(Part(T), Fold(T)) /\ DOMAIN Part(T) = T
        BY <1>1
    <2> HIDE DEF Part, Fold
    <2>2. QED
        BY <2>1 DEF SumsUp
<1>3. CASE T = {}
    BY <1>1, <1>2, <1>3 DEF Turn
<1>4. CASE T # {}
    <2> DEFINE U == T \ {One(T)}
    <2>1. One(T) \in T /\ IsFiniteSet(U) /\ U \subseteq T
        BY <1>4, TakeOne
    <2>2. Part(T)[One(T)] = v[One(T)] /\ \A x \in U : Part(U)[x] = Part(T)[x]
        BY <2>1
    <2> HIDE DEF Part, Fold
    <2>3. Fold(T)[T] = v[One(T)] + Fold(T)[U]
        BY <1>2, <1>4, <2>2 DEF Turn
    <2> HIDE DEF U
    <2>4. /\ SumsUp(Part(T), Fold(T)) /\ DOMAIN Part(T) = T /\ Sum(v, T) = Fold(T)[T]
          /\ SumsUp(Part(U), Fold(U)) /\ DOMAIN Part(U) = U /\ Sum(v, U) = Fold(U)[U]
        BY <1>1, <2>1
    <2>5. Fold(T)[U] = Fold(U)[U]
        BY <2>1, <2>2, <2>4, SumsAgree
    <2>6. Sum(v, T) = v[One(T)] + Sum(v, U)
        BY <2>3, <2>4, <2>5
    <2>7. QED
        BY <1>4, <2>6 DEF U
<1>5. QED
    BY <1>3, <1>4

\* A sum of numbers is a number, and is that of any member and the rest.
LEMMA SumWithout ==
    ASSUME NEW D, NEW v \in [D -> Nat], NEW T \in SUBSET D, IsFiniteSet(T)
    PROVE  /\ Sum(v, T) \in Nat
           /\ \A b \in T : Sum(v, T) = v[b] + Sum(v, T \ {b})
<1> DEFINE Good(s) == Sum(v, s) \in Nat /\ \A b \in s : Sum(v, s) = v[b] + Sum(v, s \ {b})
           S == {n \in Nat : \A s \in SUBSET T : Cardinality(s) <= n => Good(s)}
<1>1. \A s \in SUBSET T : IsFiniteSet(s) /\ Cardinality(s) \in Nat
    BY FS_Subset, FS_CardinalityType
<1>2. Good({})
    <2>1. Sum(v, {}) = 0
        BY SumSteps, FS_EmptySet
    <2>2. QED
        BY <2>1
<1>3. 0 \in S
    <2>1. ASSUME NEW s \in SUBSET T, Cardinality(s) <= 0
          PROVE  s = {}
        BY <1>1, <2>1, FS_EmptySet
    <2> HIDE DEF Good
    <2>2. QED
        BY <1>2, <2>1
<1>4. ASSUME NEW n \in Nat, n \in S
      PROVE  n + 1 \in S
    <2>1. ASSUME NEW s \in SUBSET T, Cardinality(s) <= n + 1, s # {}
          PROVE  Good(s)
        <3> DEFINE x == One(s)
                   t == s \ {x}
        <3>1. x \in s /\ t \in SUBSET T /\ Cardinality(t) <= n
            BY <1>1, <2>1, TakeOne
        <3>2. Sum(v, s) = v[x] + Sum(v, t)
            BY <1>1, <2>1, SumSteps
        <3> HIDE DEF x
        <3>3. v[x] \in Nat /\ Good(t)
            BY <1>4, <3>1
        <3>4. Sum(v, s) \in Nat
            BY <3>2, <3>3
        <3>5. ASSUME NEW b \in s, b # x
              PROVE  Sum(v, s) = v[b] + Sum(v, s \ {b})
            <4> DEFINE u == s \ {b}
            <4>1. b \in t /\ x \in u /\ t \ {b} = u \ {x} /\ v[b] \in Nat
                BY <3>1, <3>5
            <4>2. Sum(v, t) = v[b] + Sum(v, t \ {b})
                BY <3>3, <4>1
            <4>3. u \in SUBSET T /\ Cardinality(u) <= n
                BY <1>1, <2>1, <3>5, FS_RemoveElement
            <4>4. Good(u)
                BY <1>4, <4>3
            <4>5. Sum(v, u) = v[x] + Sum(v, u \ {x})
                BY <4>1, <4>4
            <4>6. Sum(v, u \ {x}) \in Nat
                <5>1. u \ {x} \in SUBSET u /\ IsFiniteSet(u)
                    BY <1>1, <4>3
                <5>2. Cardinality(u \ {x}) <= Cardinality(u)
                    BY <5>1, FS_Subset
                <5> HIDE DEF u
                <5>3. u \ {x} \in SUBSET T
                    BY <4>3, <5>1
                <5>4. Cardinality(u \ {x}) <= n
                    BY <1>1, <4>3, <5>2, <5>3
                <5>5. QED
                    BY <1>4, <5>3, <5>4
            <4> HIDE DEF u, t
            <4>7. QED
                BY <3>2, <3>3, <4>1, <4>2, <4>5, <4>6 DEF u
        <3>6. QED
            BY <3>2, <3>4, <3>5
    <2> HIDE DEF Good
    <2>2. QED
        BY <1>2, <2>1
<1> HIDE DEF S, Good
<1>5. Nat \subseteq S
    BY <1>3, <1>4, Induction
<1>6. Cardinality(T) \in S
    BY <1>1, <1>5
<1>7. Good(T)
    BY <1>1, <1>6 DEF S
<1>8. QED
    BY <1>7 DEF Good

\* What moka has admitted weighs no more than the cache may hold.
WeightsInv ==
    /\ pending \subseteq Blobs /\ admitted \subseteq Blobs
    /\ IsFiniteSet(admitted)
    /\ Weights(admitted) <= Capacity

\* The steps of the cache keep WeightsInv: what vanishes takes its weight along.
LEMMA WeightsStep == WeightsInv /\ [WeightsNext]_weightVars => WeightsInv'
<1> SUFFICES ASSUME WeightsInv, [WeightsNext]_weightVars
             PROVE  WeightsInv'
    OBVIOUS
<1> DEFINE weight == [b \in Blobs |-> Weight(b)]
<1>1. weight \in [Blobs -> Nat]
    BY LengthAssumption DEF Weight
<1>2. ASSUME NEW bs \in SUBSET Blobs
      PROVE  Weights(bs) = Sum(weight, bs)
    BY DEF Weights, Sum
<1>3. CASE Insert
    BY <1>3 DEF Insert, WeightsInv
<1>4. CASE Admit
    <2>1. PICK b \in pending :
              /\ pending' = pending \ {b}
              /\ \E kept \in SUBSET (admitted \cup {b}) :
                     Weights(kept) <= Capacity /\ admitted' = kept
        BY <1>4 DEF Admit
    <2>2. admitted' \in SUBSET (admitted \cup {b}) /\ Weights(admitted') <= Capacity
        BY <2>1
    <2>3. IsFiniteSet(admitted \cup {b})
        BY FS_AddElement DEF WeightsInv
    <2>4. IsFiniteSet(admitted')
        BY <2>2, <2>3, FS_Subset
    <2>5. QED
        BY <2>1, <2>2, <2>4 DEF WeightsInv, Weights
<1>5. CASE Vanish
    <2>1. PICK b \in pending \cup admitted :
              pending' = pending \ {b} /\ admitted' = admitted \ {b}
        BY <1>5 DEF Vanish
    <2>2. IsFiniteSet(admitted') /\ admitted' \in SUBSET Blobs /\ admitted \in SUBSET Blobs
        BY <2>1, FS_RemoveElement DEF WeightsInv
    <2>3. Weights(admitted') <= Capacity
        <3>1. CASE b \in admitted
            <4>1. weight[b] \in Nat
                BY <1>1, <2>2, <3>1
            <4> HIDE DEF weight
            <4>2. Sum(weight, admitted) = weight[b] + Sum(weight, admitted \ {b})
                BY <1>1, <2>2, <3>1, SumWithout DEF WeightsInv
            <4>3. Sum(weight, admitted') \in Nat
                BY <1>1, <2>2, SumWithout
            <4>4. Sum(weight, admitted') <= Sum(weight, admitted)
                BY <2>1, <4>1, <4>2, <4>3
            <4>5. Sum(weight, admitted) \in Nat
                BY <1>1, <2>2, SumWithout DEF WeightsInv
            <4>6. QED
                BY <1>2, <2>2, <4>3, <4>4, <4>5, LengthAssumption DEF WeightsInv
        <3>2. CASE b \notin admitted
            <4>1. admitted' = admitted
                BY <2>1, <3>2
            <4>2. QED
                BY <4>1 DEF WeightsInv
        <3>3. QED
            BY <3>1, <3>2
    <2>4. QED
        BY <2>1, <2>2, <2>3 DEF WeightsInv, Weights
<1>6. CASE UNCHANGED weightVars
    BY <1>6 DEF weightVars, WeightsInv, Weights
<1>7. QED
    BY <1>3, <1>4, <1>5, <1>6 DEF WeightsNext

\* The bytes of what is admitted fit into the share of the blob cache, for any blobs,
\* capacity and greatest weight, as long as none is longer than that (the weigher of
\* BlobService::new).
THEOREM BytesFit == WeightsSpec => []HeldFits
<1>1. WeightsInit => WeightsInv
    <2> SUFFICES ASSUME WeightsInit
                 PROVE  WeightsInv
        OBVIOUS
    <2>1. pending = {} /\ admitted = {}
        BY DEF WeightsInit
    <2> DEFINE weight == [b \in Blobs |-> Weight(b)]
    <2>2. Weights(admitted) = Sum(weight, admitted)
        BY <2>1 DEF Weights, Sum
    <2> HIDE DEF weight
    <2>3. Sum(weight, admitted) = 0
        BY <2>1, SumSteps, FS_EmptySet
    <2>4. QED
        BY <2>1, <2>2, <2>3, FS_EmptySet, LengthAssumption DEF WeightsInv
<1>2. WeightsInv => HeldFits
    <2> SUFFICES ASSUME WeightsInv, \A b \in admitted : Length[b] <= U32Max
                 PROVE  Bytes(admitted) <= Capacity
        BY DEF HeldFits
    <2>1. \A b \in admitted : Weight(b) = Length[b]
        <3>1. ASSUME NEW b \in admitted
              PROVE  Weight(b) = Length[b]
            <4>1. Length[b] \in Nat /\ Length[b] <= U32Max /\ U32Max \in Nat
                BY LengthAssumption DEF WeightsInv
            <4>2. QED
                BY <4>1 DEF Weight
        <3>2. QED
            BY <3>1
    <2>2. [b \in admitted |-> Weight(b)] = [b \in admitted |-> Length[b]]
        BY <2>1
    <2>3. Bytes(admitted) = Weights(admitted)
        BY <2>2 DEF Bytes, Weights
    <2>4. QED
        BY <2>3 DEF WeightsInv
<1>3. QED
    BY <1>1, <1>2, WeightsStep, PTL DEF WeightsSpec

-----------------------------------------------------------------------------
(* The capped stream, for any cap, any chunks and any length.              *)

\* Until the stream is given up the buffer holds all that was sent, and never
\* more than was declared.
StreamInv ==
    /\ TypeOK
    /\ MemoryBounded
    /\ outcome # "TooLarge" => length = sent
    /\ declared # Unknown => sent <= declared
    /\ outcome = "Ok" /\ declared # Unknown => sent = declared
    /\ TooLargeIsTrue

\* A buffer grown for n bytes that fit the cap stays below twice the cap.
LEMMA GrownIsBounded ==
    ASSUME NEW c \in Nat, NEW n \in Nat, n <= MaxSize, c <= Greatest(2 * MaxSize, 8)
    PROVE  Grown(c, n) \in Nat /\ Grown(c, n) <= Greatest(2 * MaxSize, 8)
BY SizeAssumption DEF Grown, Greatest

\* The invariant holds in every state of every behaviour.
THEOREM StreamInvariance == Spec => []StreamInv
<1>. USE SizeAssumption
<1>1. Init => StreamInv
  BY DEF Init, StreamInv, TypeOK, MemoryBounded, TooLargeIsTrue, Greatest
<1>2. StreamInv /\ [Next]_vars => StreamInv'
  <2>. SUFFICES ASSUME StreamInv, [Next]_vars PROVE StreamInv'
    OBVIOUS
  <2>. USE DEF StreamInv, TypeOK, MemoryBounded, TooLargeIsTrue
  <2>1. CASE Begin
    BY <2>1 DEF Begin, Least, Greatest
  <2>2. ASSUME NEW n \in ChunkSizes, Chunk(n) PROVE StreamInv'
    <3>1. CASE Fits(n)
      <4>1. /\ Grown(capacity, length + n) \in Nat
            /\ Grown(capacity, length + n) <= Greatest(2 * MaxSize, 8)
        BY <3>1, GrownIsBounded DEF Fits
      <4>. QED BY <2>2, <3>1, <4>1 DEF Chunk, Fits
    <3>2. CASE ~Fits(n)
      BY <2>2, <3>2 DEF Chunk, Fits
    <3>. QED BY <3>1, <3>2
  <2>3. CASE Break
    BY <2>3 DEF Break
  <2>4. CASE End
    BY <2>4 DEF End, Greatest
  <2>5. CASE Finished \/ UNCHANGED vars
    BY <2>5 DEF Finished, vars
  <2>. QED BY <2>1, <2>2, <2>3, <2>4, <2>5 DEF Next
<1> QED BY <1>1, <1>2, PTL DEF Spec

\* No body and no way of cutting it makes the buffer exceed its bound.
THEOREM MemoryStaysBounded == Spec => []MemoryBounded
<1>1. StreamInv => MemoryBounded
  BY DEF StreamInv
<1> QED BY <1>1, StreamInvariance, PTL

\* No body is truncated.
THEOREM BodiesAreWhole == Spec => []OkIsWhole
<1>1. StreamInv => OkIsWhole
  BY DEF StreamInv, OkIsWhole
<1> QED BY <1>1, StreamInvariance, PTL

\* No body within the cap is refused.
THEOREM RefusalsAreTrue == Spec => []TooLargeIsTrue
<1>1. StreamInv => TooLargeIsTrue
  BY DEF StreamInv
<1> QED BY <1>1, StreamInvariance, PTL

\* No more than the cap is read of a body that is not given up.
THEOREM StopsReading == Spec => []StopsAtCap
<1>1. StreamInv => StopsAtCap
  BY SizeAssumption DEF StreamInv, MemoryBounded, StopsAtCap
<1> QED BY <1>1, StreamInvariance, PTL
=============================================================================
