------------------------------- MODULE Options -------------------------------
(***************************************************************************)
(* From the options of the command line, or of the environment, to the     *)
(* server: what the argument parser admits, and what main then builds of   *)
(* it, in main's order, before an address is bound.                        *)
(*                                                                         *)
(* A value the parser of a library refuses is Unreadable; an option that   *)
(* is not given, and has no default, is NotGiven.  The options that only   *)
(* have to be readable (the allowed types, the header for caches and the   *)
(* timeouts) are one, "others".                                            *)
(***************************************************************************)
EXTENDS Integers, Sequences, CacheSizes

CONSTANTS
    CommandLines, \* records of the options, see Admits
    LongestLife,  \* the longest time to live or to idle that moka takes, 1000 years
    Unreadable, NotGiven

\* Numbers, where they are readable; the defaults of --cache-size and --blob-max-size
\* are given, so there always is one.
ASSUME LineAssumption ==
    \A l \in CommandLines :
        /\ l.cacheSize \in Nat \cup {Unreadable}
        /\ l.maxSize \in Nat \cup {Unreadable}

VARIABLES
    line,   \* the command line
    args,   \* what the parser made of it, or NotGiven
    built,  \* the parts main has built
    phase   \* "parsing", "building", "ready", "usage", "panicked" or "failed"

optionVars == <<line, args, built, phase>>

Caches == {"identity", "policy", "blob", "ownership"}

-----------------------------------------------------------------------------
(* The value parsers.                                                      *)

\* SocketAddress::from_str: "unix:" and a path that does not end in "/", or "ip:" and
\* an address with its port.
SocketAddressFromStr(a) ==
    IF a.prefix = "unix:" /\ a.rest # "directory" THEN "unix"
    ELSE IF a.prefix = "ip:" /\ a.rest = "address" THEN "ip"
    ELSE Unreadable

\* NonZeroU64 of --blob-max-size.
BlobMaxSize(n) == IF n = 0 THEN Unreadable ELSE n

\* "The minimum value is 8mb."
LeastCacheSize == 8000000

\* A bug: nothing but zero is refused.
AnyCacheSize(n) == IF n = 0 THEN Unreadable ELSE n

CacheSize(n) ==
    IF n = Unreadable THEN Unreadable ELSE IF n < LeastCacheSize THEN Unreadable ELSE n

\* A header is split at its first colon; its value is kept out of logs.
Header(h) ==
    IF h.colon /\ h.nameOk /\ h.valueOk THEN [name |-> h.name, sensitive |-> TRUE]
    ELSE Unreadable
Headers(hs) == [i \in DOMAIN hs |-> Header(hs[i])]

\* requires = "PA_POLICY_URL", of the headers and of --policy-fail-open.
RequirementsMet(l) ==
    (l.headers # <<>> \/ l.failOpen) => l.policyUrl # NotGiven

\* What AppArgs::parse makes of a command line.
ArgsOf(l) ==
    [address |-> SocketAddressFromStr(l.address), maxSize |-> BlobMaxSize(l.maxSize),
     cacheSize |-> CacheSize(l.cacheSize), lifetimes |-> l.lifetimes,
     plcUrl |-> l.plcUrl, others |-> l.others, policyUrl |-> l.policyUrl,
     headers |-> Headers(l.headers), failOpen |-> l.failOpen]

\* Something is made of every one.
ASSUME ArgsAssumption == \A l \in CommandLines : ArgsOf(l) # NotGiven

Admits(l) ==
    LET a == ArgsOf(l)
    IN  /\ Unreadable \notin {a.address, a.maxSize, a.cacheSize, a.plcUrl, a.others, a.policyUrl}
        /\ \A i \in DOMAIN a.headers : a.headers[i] # Unreadable
        /\ \A c \in Caches : a.lifetimes[c] # Unreadable
        /\ RequirementsMet(l)

-----------------------------------------------------------------------------
(* main.                                                                   *)

OptionsInit ==
    /\ line \in CommandLines
    /\ args = NotGiven
    /\ built = <<>>
    /\ phase = "parsing"

\* A usage error ends the process.
ParseArgs ==
    /\ phase = "parsing"
    /\ IF Admits(line) THEN args' = ArgsOf(line) /\ phase' = "building"
       ELSE phase' = "usage" /\ UNCHANGED args
    /\ UNCHANGED <<line, built>>

\* The parts in the order main evaluates them in: the caches each builds, and whether
\* its HTTP client is built before them, after them or not at all.
AllParts ==
    <<[part |-> "sizes", caches |-> {}, client |-> "none"],
      [part |-> "identity", caches |-> {"identity"}, client |-> "first"],
      [part |-> "policy", caches |-> {"policy"}, client |-> "last"],
      [part |-> "blob", caches |-> {"blob", "ownership"}, client |-> "last"]>>

\* A bug: the policy client is built without a service too.
PartsAlways == AllParts

\* There is no policy client without a service.
Parts ==
    IF args.policyUrl = NotGiven THEN <<AllParts[1], AllParts[2], AllParts[4]>> ELSE AllParts

\* url::Url reads and keeps what RFC 3986 has no place for, such as "|" in a path;
\* fluent_uri does not read it.  Such a URL is "lenient", any other "strict".
FluentUri(url) == IF url = "lenient" THEN Unreadable ELSE url

\* moka refuses a lifetime with a panic.
Refused(next) == \E c \in next.caches : args.lifetimes[c] > LongestLife

\* So does the .expect on the conversion of the directory's URL.  The other .expect, on the
\* types as a header's value, holds: a type that was read has only the bytes of tokens.
Panics(next) ==
    \/ Refused(next)
    \/ next.part = "identity" /\ FluentUri(args.plcUrl) = Unreadable

\* reqwest's builder may fail, as over the system's certificates, where it is reached.
ClientMayFail(next) == next.client = "first" \/ (next.client = "last" /\ ~Panics(next))

\* A part is built, or main returns the error of its HTTP client, or panics; nothing
\* catches that.  The sizes have no error to return, as SizesPartition shows.
Build ==
    /\ phase = "building"
    /\ Len(built) < Len(Parts)
    /\ LET next == Parts[Len(built) + 1]
       IN  \/ ~Panics(next) /\ built' = Append(built, next.part) /\ UNCHANGED phase
           \/ Panics(next) /\ phase' = "panicked" /\ UNCHANGED built
           \/ ClientMayFail(next) /\ phase' = "failed" /\ UNCHANGED built
    /\ UNCHANGED <<line, args>>

\* The server is put together and is started on the address.
Ready ==
    /\ phase = "building"
    /\ Len(built) = Len(Parts)
    /\ phase' = "ready"
    /\ UNCHANGED <<line, args, built>>

OptionsDone == phase \in {"usage", "panicked", "failed", "ready"} /\ UNCHANGED optionVars

OptionsNext == ParseArgs \/ Build \/ Ready \/ OptionsDone
OptionsSpec == OptionsInit /\ [][OptionsNext]_optionVars

-----------------------------------------------------------------------------

\* The memory the command line gives to the caches is split without a rest: the
\* subtractions of compute_cache_sizes never underflow, the parts use all of it and
\* no more, and the blob cache has at least seven tenths.
SizesPartition ==
    args # NotGiven =>
        LET s == ComputeCacheSizes(args.cacheSize)
        IN  /\ s.blob \in Nat /\ s.ownership \in Nat
            /\ s.blob + s.ownership + s.policy + s.identity = args.cacheSize
            /\ s.blob >= 7 * (args.cacheSize \div 10)

\* A server that starts is one the other parts are written for: a blob may have a
\* byte, every cache gets memory, whether it fails open is asked only beside a policy
\* service, and no header to that service is logged.
ReadyIsSound ==
    phase = "ready" =>
        /\ args.maxSize > 0
        /\ \A part \in {"blob", "ownership", "policy", "identity"} :
               ComputeCacheSizes(args.cacheSize)[part] >= LeastCacheSize \div 10
        /\ ((args.failOpen \/ args.headers # <<>>) =>
               \E i \in DOMAIN built : built[i] = "policy")
        /\ \A i \in DOMAIN args.headers : args.headers[i].sensitive

\* What the parser admits and main cannot build: a directory's URL that is no URI of
\* RFC 3986, or a lifetime beyond a thousand years, which for the policy cache matters
\* only where that is built.
Unbuildable ==
    \/ FluentUri(args.plcUrl) = Unreadable
    \/ \E c \in Caches : args.lifetimes[c] > LongestLife
                            /\ (c = "policy" => args.policyUrl # NotGiven)

\* These are all that main panics over, and with either of them no server starts,
\* whichever part is built first and whichever is left out.
PanicsOverOptions ==
    /\ phase = "panicked" => Unbuildable
    /\ phase = "ready" => ~Unbuildable
=============================================================================
