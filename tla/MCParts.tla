------------------------------ MODULE MCParts ------------------------------
(* The parts no two requests share, for TLC: one of them runs, the others     *)
(* stay idle.                                                                 *)
EXTENDS Options, DnsGuard, BytesStream, BlobCid, ContentType, MediaMetadata, BlobWeights

CONSTANTS b1, b2, h1  \* two contents, a header

-----------------------------------------------------------------------------
(* Options: each at and next to what its parser refuses, and the options that *)
(* require another with and without it; cache sizes around every boundary of  *)
(* the split.                                                                 *)

Address(prefix, rest) == [prefix |-> prefix, rest |-> rest]
Addresses == {Address("ip:", "address"), Address("ip:", "noPort"), Address("unix:", "path"),
              Address("unix:", "directory"), Address("none", "address")}

H(colon, nameOk, valueOk) == [colon |-> colon, nameOk |-> nameOk, valueOk |-> valueOk, name |-> h1]
HeaderLists == {<<>>, <<H(TRUE, TRUE, TRUE)>>, <<H(FALSE, TRUE, TRUE)>>,
                <<H(TRUE, TRUE, TRUE), H(TRUE, FALSE, TRUE)>>, <<H(TRUE, TRUE, FALSE)>>}

Short == [c \in Caches |-> 1]
Lifetimes == {Short} \cup
    {[Short EXCEPT ![d] = n] : d \in Caches, n \in {0, LongestLife, LongestLife + 1}}

Plain == [address |-> Address("ip:", "address"), maxSize |-> 1, cacheSize |-> 8000000,
          lifetimes |-> Short, plcUrl |-> "strict", others |-> "readable", policyUrl |-> NotGiven,
          headers |-> <<>>, failOpen |-> FALSE]
Boundaries == 7999970..8000030 \cup 479999950..480000050 \cup {1000000000, 2000000000, Unreadable}
MCCommandLines ==
    [address : Addresses, maxSize : {0, 1, Unreadable}, cacheSize : {7999999, 8000000},
     lifetimes : Lifetimes, plcUrl : {"strict", "lenient", Unreadable}, others : {"readable", Unreadable},
     policyUrl : {"url", NotGiven, Unreadable}, headers : HeaderLists, failOpen : BOOLEAN]
    \cup {[Plain EXCEPT !.cacheSize = n] : n \in Boundaries}

-----------------------------------------------------------------------------
(* The resolver: the ends of every range, the addresses next to them, and     *)
(* every way two or three of a few addresses can come in one answer.          *)

\* The address after a and the address before it, for parts below width.
Succ(a, width) ==
    LET Full(i) == \A j \in (i + 1)..Len(a) : a[j] = width - 1
    IN  [i \in 1..Len(a) |-> IF Full(i) THEN (a[i] + 1) % width ELSE a[i]]
Pred(a, width) ==
    LET Empty(i) == \A j \in (i + 1)..Len(a) : a[j] = 0
    IN  [i \in 1..Len(a) |-> IF Empty(i) THEN (a[i] + width - 1) % width ELSE a[i]]
Edges(ranges, width) ==
    UNION {{r[1], r[2], Pred(r[1], width), Succ(r[2], width)} : r \in ranges}

EdgesV4 == Edges(V4Ranges, 256)
Mapped(a) == <<0, 0, 0, 0, 0, 65535, a[1] * 256 + a[2], a[3] * 256 + a[4]>>
EdgesV6 == Edges(V6Ranges \cup {MappedBlock}, 65536) \cup {Mapped(a) : a \in EdgesV4}

Mixed == {<<1, 1, 1, 1>>, <<10, 0, 0, 1>>, Mapped(<<127, 0, 0, 1>>), <<9734, 18176, 0, 0, 0, 0, 0, 0>>}

MCAnswers ==
    {<<a>> : a \in EdgesV4 \cup EdgesV6} \cup {<<>>}
        \cup (Mixed \X Mixed) \cup (Mixed \X Mixed \X Mixed)

-----------------------------------------------------------------------------
(* The stream: a cap between multiples of the chunk sizes, so that chunks end *)
(* below it, on it and beyond it.                                             *)

MCChunkSizes == {1, 3, 4}
MCLengths == 0..13

-----------------------------------------------------------------------------
(* Identifiers: every combination of version, codec, hash function, whole or  *)
(* cut digest and contents that the cid crate reads.  sha2 is the only        *)
(* feature of multihash-codetable that is enabled.                            *)

MCContents == {b1, b2}
MCCode == {"sha2-256", "sha2-512"}
MCFullSize == [f \in MCCode |-> IF f = "sha2-256" THEN 32 ELSE 64]

\* A CID of version 0 is always dag-pb with a whole SHA-256.
V0 == {Cid("v0", "dag-pb", Multihash("sha2-256", 32, b)) : b \in MCContents}
V1 == {Cid("v1", codec, Multihash(f, size, b)) :
          codec \in {"raw", "dag-pb", "dag-cbor"}, f \in MCCode \cup {"blake3"},
          size \in {20, 32, 64}, b \in MCContents}
MCCids == V0 \cup V1 \cup {Malformed}

-----------------------------------------------------------------------------
(* Types: an SVG marker at and around the edge of the part that is sniffed,   *)
(* and every list of up to two patterns.                                      *)

Png == <<"image", "png">>
Mp4 == <<"video", "mp4">>

Buffer(inferred, start, svgAt) == [inferred |-> inferred, start |-> start, svgAt |-> svgAt]
MCBuffers ==
    {Buffer(t, "other", None) : t \in {Png, Mp4, None}}
        \cup {Buffer(None, "<svg", 0)}
        \cup {Buffer(None, "<?xml", at) : at \in {None} \cup 5..6 \cup 250..257}
        \cup {Buffer(None, "other", at) : at \in {1, 252}}

Pattern(type, subtype, params) == [type |-> type, subtype |-> subtype, params |-> params]
Patterns ==
    {Pattern(p[1], p[2], <<>>) : p \in {<<Star, Star>>, <<"image", Star>>, <<"video", Star>>, Png, Svg,
                                        OctetStream, <<Star, "png">>}}
        \cup {Pattern("image", "png", <<"q=1">>), Pattern("image", Star, <<"q=1">>)}
MCAllowLists == {<<>>} \cup {<<p>> : p \in Patterns} \cup (Patterns \X Patterns)

-----------------------------------------------------------------------------
(* Media: images that tell their dimensions before, at and after the end of   *)
(* the chunk, and videos with any of their tags missing, with durations up to *)
(* and beyond the largest i64, here of six bits.                              *)

Dimensions == {0, 1, 7}
Images ==
    [type : {"image"}, length : {9}, parses : BOOLEAN, told : {ChunkSize - 1, ChunkSize, ChunkSize + 1},
     width : Dimensions, height : Dimensions]
Videos ==
    [type : {"video"}, length : {9, 31}, parses : BOOLEAN, width : Dimensions \cup {Absent},
     height : Dimensions \cup {Absent}, duration : {0, 31, 32, 63, Absent}]
Others == [type : {"text"}, length : {9}]
MCMedia == Images \cup Videos \cup Others

-----------------------------------------------------------------------------
(* Weights: blobs below, at and beyond the greatest weight.                   *)

MCBlobs == 1..6
MCLength == <<1, 2, 4, 7, 8, 12>>

-----------------------------------------------------------------------------

VARIABLE active  \* the part that runs

allVars == <<active, optionVars, dnsVars, vars, cidVars, mimeVars, mediaVars, weightVars>>

\* What a part's variables are while another one runs.
OptionsIdle == line = NotGiven /\ args = NotGiven /\ built = <<>> /\ phase = "parsing"
StreamIdle == declared = Unknown /\ sent = 0 /\ length = 0 /\ capacity = 0 /\ outcome = "start"
MimeIdle == buffer = None /\ allowlist = <<>> /\ sniffed = None /\ verdict = None
MediaIdle == blob = Absent /\ task = "none" /\ attr = Absent /\ answer = Absent

PartsInit ==
    /\ active \in {"options", "dns", "stream", "cid", "mime", "media", "weights"}
    /\ IF active = "options" THEN OptionsInit ELSE OptionsIdle
    /\ IF active = "stream" THEN Init ELSE StreamIdle
    /\ IF active = "mime" THEN MimeInit ELSE MimeIdle
    /\ IF active = "media" THEN MediaInit ELSE MediaIdle
    /\ DnsInit /\ CidInit /\ WeightsInit

PartsNext ==
    /\ UNCHANGED active
    /\ IF active = "options" THEN OptionsNext ELSE UNCHANGED optionVars
    /\ IF active = "dns" THEN DnsNext ELSE UNCHANGED dnsVars
    /\ IF active = "stream" THEN Next ELSE UNCHANGED vars
    /\ IF active = "cid" THEN CidNext ELSE UNCHANGED cidVars
    /\ IF active = "mime" THEN MimeNext ELSE UNCHANGED mimeVars
    /\ IF active = "media" THEN MediaNext ELSE UNCHANGED mediaVars
    /\ IF active = "weights" THEN WeightsNext ELSE UNCHANGED weightVars

PartsSpec == PartsInit /\ [][PartsNext]_allVars
=============================================================================
