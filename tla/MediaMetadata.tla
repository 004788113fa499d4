---------------------------- MODULE MediaMetadata ----------------------------
(***************************************************************************)
(* What getBlobMetadata says of a verified blob: the numbers the media     *)
(* declares, through the parsers, the conversions and the builders of the  *)
(* lexicon types, to the body of the answer.                               *)
(*                                                                         *)
(* Of a blob a record has its type, its length, and what its parser finds: *)
(* for an image the end of the part that tells its dimensions, for a video *)
(* the tags it has.  Numbers are of Word bits, the wide kind, or half of   *)
(* that; the code has 64 and 32.                                           *)
(***************************************************************************)
EXTENDS Integers

CONSTANTS
    Media,      \* the blobs
    Word,       \* the width of u64 and i64
    ChunkSize,  \* CHUNK_SIZE, the part of an image that is parsed
    Absent      \* no tag, no field, no value

ASSUME WordAssumption == Word \in Nat \ {0} /\ ChunkSize \in Nat

SignBit == 2 ^ (Word - 1)
AsI64(x) == IF x >= SignBit THEN x - 2 * SignBit ELSE x
OrZero(tag) == IF tag = Absent THEN 0 ELSE tag

Ratios == [height : Nat, width : Nat]

\* A blob is no longer than a slice may be, and a tag is read as an unsigned number.
\* What tells that there is no value is none.
ASSUME MediaAssumption ==
    /\ \A m \in Media :
           /\ m.length \in Nat /\ m.length < SignBit
           /\ m.type = "image" => m.told \in Nat /\ {m.width, m.height} \subseteq Nat
           /\ m.type = "video" => {m.width, m.height, m.duration} \subseteq Nat \cup {Absent}
    /\ Absent \notin Int
    /\ Absent \notin [width : Nat, height : Nat] \cup [width : Nat, height : Nat, duration : Nat]
    /\ Absent \notin [kind : {"image"}, aspectRatio : Ratios, durationMs : {Absent}]
    /\ Absent \notin [kind : {"video"}, aspectRatio : Ratios, durationMs : Int]

-----------------------------------------------------------------------------
(* The builders of the lexicon types: fields by position, set once each.   *)

AspectRatioNew == <<Absent, Absent>>

\* A bug: both setters write to one position.
WidthAtHeight(fields, value) == [fields EXCEPT ![1] = value]

Height(fields, value) == [fields EXCEPT ![1] = value]
Width(fields, value) == [fields EXCEPT ![2] = value]
AspectRatioBuild(fields) == [height |-> fields[1], width |-> fields[2]]

ImageDataBuild(ratio) == [kind |-> "image", aspectRatio |-> ratio, durationMs |-> Absent]

VideoDataNew == <<Absent, Absent>>
VideoAspectRatio(fields, value) == [fields EXCEPT ![1] = value]
DurationMs(fields, value) == [fields EXCEPT ![2] = value]
VideoDataBuild(fields) ==
    [kind |-> "video", aspectRatio |-> fields[1], durationMs |-> fields[2]]

\* The setters' results have a type of their own, and build wants all of them: a
\* field that is missing is an error of the compiler, or an unwrap of None.
Complete(data) ==
    /\ Absent \notin {data.aspectRatio.height, data.aspectRatio.width}
    /\ (data.kind = "video" => data.durationMs # Absent)

\* The minimums of the lexicon, AspectRatio::validate and VideoData::validate.
AspectRatioValid(ratio) == ratio.height >= 1 /\ ratio.width >= 1
VideoDataValid(data) == data.durationMs >= 0

-----------------------------------------------------------------------------
(* The parsers.                                                            *)

\* A bug: the part is taken to be the whole image.
ImageOfWhole(m) ==
    IF m.parses THEN [width |-> m.width, height |-> m.height] ELSE Absent

\* ImageMetadata::from_bytes reads no further than the first chunk.
ImageFromBytes(m) ==
    IF m.parses /\ m.told <= ChunkSize THEN [width |-> m.width, height |-> m.height]
    ELSE Absent

\* VideoMetadata::from_bytes: a tag that is missing, or of another type, is 0.
VideoFromBytes(m) ==
    IF m.parses
    THEN [width |-> OrZero(m.width), height |-> OrZero(m.height), duration |-> OrZero(m.duration)]
    ELSE Absent

ImageOutput(attr) ==
    ImageDataBuild(AspectRatioBuild(Width(Height(AspectRatioNew, attr.height), attr.width)))

VideoOutput(attr) ==
    LET ratio == AspectRatioBuild(Height(Width(AspectRatioNew, attr.width), attr.height))
    IN  VideoDataBuild(DurationMs(VideoAspectRatio(VideoDataNew, ratio), AsI64(attr.duration)))

-----------------------------------------------------------------------------
(* The handler, once the blob is there and its ownership verified.         *)

VARIABLES
    blob,   \* the blob
    task,   \* the task that parses: "none", "running", "parsed", "failed", "panicked"
    attr,   \* what it found, or Absent
    answer  \* the body of the answer, or Absent

mediaVars == <<blob, task, attr, answer>>

MediaInit ==
    /\ blob \in Media
    /\ task = "none"
    /\ attr = Absent
    /\ answer = Absent

\* spawn_blocking for an image, an await for a video.
StartParsing ==
    /\ task = "none" /\ answer = Absent
    /\ blob.type \in {"image", "video"}
    /\ task' = "running"
    /\ UNCHANGED <<blob, attr, answer>>

Parsed ==
    /\ task = "running"
    /\ attr' = IF blob.type = "image" THEN ImageFromBytes(blob) ELSE VideoFromBytes(blob)
    /\ task' = IF attr' = Absent THEN "failed" ELSE "parsed"
    /\ UNCHANGED <<blob, answer>>

\* A panic of the image parser is an error of its task; one of the video parser is the
\* request's own and leaves it to the panic layer.
ParserPanics ==
    /\ task = "running"
    /\ blob.type = "image"
    /\ task' = "panicked"
    /\ UNCHANGED <<blob, attr, answer>>

Body ==
    [size |-> AsI64(blob.length), contentType |-> blob.type,
     data |-> IF task # "parsed" THEN Absent
              ELSE IF blob.type = "image" THEN ImageOutput(attr) ELSE VideoOutput(attr)]

Answer ==
    /\ answer = Absent
    /\ task \in {"parsed", "failed", "panicked"}
         \/ (task = "none" /\ blob.type \notin {"image", "video"})
    /\ answer' = Body
    /\ UNCHANGED <<blob, task, attr>>

Answered == answer # Absent /\ UNCHANGED mediaVars

MediaNext == StartParsing \/ Parsed \/ ParserPanics \/ Answer \/ Answered
MediaSpec == MediaInit /\ [][MediaNext]_mediaVars

-----------------------------------------------------------------------------

HasData == answer # Absent /\ answer.data # Absent

\* What the answer says is what the media says: height and width are not swapped on
\* their way through the parser's tuple and the builder's, and a duration that is
\* an i64 comes out as it is.  No field a builder needs is left unset, and the answer
\* is what the lexicon admits, where the media has its dimensions.
ReportsTheMedia ==
    HasData =>
        /\ answer.data.kind = blob.type
        /\ Complete(answer.data)
        /\ (blob.width # Absent => answer.data.aspectRatio.width = blob.width)
        /\ (blob.height # Absent => answer.data.aspectRatio.height = blob.height)
        /\ (blob.type = "video" /\ blob.duration # Absent /\ blob.duration < SignBit =>
                answer.data.durationMs = blob.duration /\ VideoDataValid(answer.data))
        /\ ((\A n \in {blob.width, blob.height} : n \notin {Absent, 0}) =>
                AspectRatioValid(answer.data.aspectRatio))

\* An image whose dimensions are past its first chunk is answered without them, and
\* so is one whose parser fails or panics: the answer still comes, with the size.
UnreadableHasNoData ==
    answer # Absent =>
        /\ answer.size = blob.length
        /\ (answer.data = Absent <=>
                \/ blob.type \notin {"image", "video"}
                \/ ~blob.parses
                \/ blob.type = "image" /\ (blob.told > ChunkSize \/ task = "panicked"))
=============================================================================
