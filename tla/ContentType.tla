----------------------------- MODULE ContentType -----------------------------
(***************************************************************************)
(* sniff_mime and is_mime_allowed: the type of a blob's bytes, which is    *)
(* inferred, and whether the operator allows it.                           *)
(*                                                                         *)
(* Of the bytes a record has what the infer crate makes of them, with what *)
(* they start, how long they are and at which offset "<svg" first occurs.  *)
(* A type is a pair; an allowed type may have a wildcard and parameters.   *)
(***************************************************************************)
EXTENDS Integers, Sequences

CONSTANTS
    Buffers,   \* the contents that are sniffed
    AllowLists,\* what --blob-allowed-mimetypes may be
    None

SvgMarker == 4          \* SVG_MARKER.len()
XmlSniffahead == 256

Star == "*"
Svg == <<"image", "svg+xml">>
OctetStream == <<"application", "octet-stream">>

-----------------------------------------------------------------------------

\* The first 256 bytes, or all of them, have a window that is the marker.
SvgAhead(buf) == buf.svgAt # None /\ buf.svgAt + SvgMarker <= XmlSniffahead

SniffMime(buf) ==
    IF buf.inferred # None THEN buf.inferred
    ELSE IF buf.start = "<svg" \/ (buf.start = "<?xml" /\ SvgAhead(buf)) THEN Svg
    ELSE OctetStream

\* A bug: a wildcard matches by its subtype alone.
MatchesLoosely(mime, pattern) ==
    \/ pattern.subtype = Star
    \/ <<pattern.type, pattern.subtype>> = mime /\ pattern.params = <<>>

\* One turn of is_mime_allowed's loop.  A sniffed type has no parameters.
Matches(mime, pattern) ==
    \/ pattern.type = Star /\ pattern.subtype = Star
    \/ pattern.subtype = Star /\ pattern.type = mime[1]
    \/ <<pattern.type, pattern.subtype>> = mime /\ pattern.params = <<>>

IsMimeAllowed(mime, allowed) == \E i \in DOMAIN allowed : Matches(mime, allowed[i])

VARIABLES buffer, allowlist, sniffed, verdict
mimeVars == <<buffer, allowlist, sniffed, verdict>>

MimeInit ==
    /\ buffer \in Buffers
    /\ allowlist \in AllowLists
    /\ sniffed = None
    /\ verdict = None

Sniff ==
    /\ sniffed = None
    /\ sniffed' = SniffMime(buffer)
    /\ UNCHANGED <<buffer, allowlist, verdict>>

Judge ==
    /\ sniffed # None /\ verdict = None
    /\ verdict' = IF IsMimeAllowed(sniffed, allowlist) THEN "allowed" ELSE "ForbiddenMimeType"
    /\ UNCHANGED <<buffer, allowlist, sniffed>>

MimeDone == verdict # None /\ UNCHANGED mimeVars
MimeNext == Sniff \/ Judge \/ MimeDone
MimeSpec == MimeInit /\ [][MimeNext]_mimeVars

-----------------------------------------------------------------------------

\* The types of a list written out: each wildcard for the types it stands for.
WrittenOut(allowed) ==
    LET Types == {SniffMime(b) : b \in Buffers}
        StandsFor(p) ==
            CASE p.type = Star /\ p.subtype = Star -> Types
              [] p.type # Star /\ p.subtype = Star -> {t \in Types : t[1] = p.type}
              [] p.subtype # Star /\ p.params # <<>> -> {}
              [] OTHER -> {<<p.type, p.subtype>>}
    IN  UNION {StandsFor(allowed[i]) : i \in DOMAIN allowed}

\* A list with wildcards admits just what the list written out names, whatever its
\* order, and an empty one nothing ("Wildcards are supported "*/*", "image/*", etc.").
VerdictIsTheList ==
    verdict # None => (verdict = "allowed" <=> sniffed \in WrittenOut(allowlist))
=============================================================================
