---------------------------- MODULE OptionsProofs ----------------------------
(***************************************************************************)
(* Proofs about the command line and what main makes of it, for every      *)
(* number that can be given.  What the parser admits is kept as an         *)
(* invariant, Checked, of the arguments; the rest of main only reads them. *)
(***************************************************************************)
EXTENDS Options, TLAPS

\* What the value parsers and "requires" leave of the arguments.
Checked ==
    args # NotGiven =>
        /\ args.cacheSize \in Nat /\ args.cacheSize >= LeastCacheSize
        /\ args.maxSize \in Nat /\ args.maxSize > 0
        /\ (args.failOpen \/ args.headers # <<>>) => args.policyUrl # NotGiven
        /\ \A i \in DOMAIN args.headers : args.headers[i].sensitive

\* main builds a prefix of the parts, in their order, and gets past none that panics.
Prefix ==
    /\ built \in Seq({"sizes", "identity", "policy", "blob"})
    /\ \A i \in DOMAIN built : i \in DOMAIN Parts /\ built[i] = Parts[i].part /\ ~Panics(Parts[i])
    /\ phase = "parsing" => built = <<>>
    /\ phase = "ready" => Len(built) = Len(Parts)

OptionsInv ==
    /\ line \in CommandLines
    /\ phase \in {"building", "panicked", "failed", "ready"} => args # NotGiven
    /\ Checked
    /\ Prefix
    /\ phase = "panicked" => Unbuildable

-----------------------------------------------------------------------------

\* The three equal shares and the rest are natural numbers that add up to the whole.
LEMMA SharesFit ==
    ASSUME NEW n \in Nat
    PROVE  /\ Share(n) \in Nat
           /\ Rest(n) \in Nat
           /\ Rest(n) >= 7 * (n \div 10)
           /\ Rest(n) + Share(n) + Share(n) + Share(n) = n
<1>1. n \div 10 \in Nat /\ 10 * (n \div 10) <= n
  OBVIOUS
<1>2. Share(n) \in Nat /\ Share(n) <= n \div 10
  BY <1>1 DEF Share, Smaller
<1> QED
  BY <1>1, <1>2 DEF Rest

\* From the least size the parser admits on, every cache gets a tenth of that size.
LEMMA SharesServe ==
    ASSUME NEW n \in Nat, n >= LeastCacheSize
    PROVE  Share(n) >= LeastCacheSize \div 10 /\ Rest(n) >= LeastCacheSize \div 10
<1>1. n \div 10 \in Nat /\ n \div 10 >= 800000 /\ LeastCacheSize \div 10 = 800000
  BY SMT DEF LeastCacheSize
<1>2. Share(n) \in Nat /\ Share(n) >= 800000
  BY <1>1, SMT DEF Share, Smaller
<1>3. Rest(n) \in Nat /\ Rest(n) >= 7 * (n \div 10)
  BY SharesFit
<1> QED
  BY <1>1, <1>2, <1>3, SMT

\* A command line that is admitted has arguments that are checked.
LEMMA AdmittedIsChecked ==
    ASSUME NEW l \in CommandLines, Admits(l)
    PROVE  LET a == ArgsOf(l)
           IN  /\ a.cacheSize \in Nat /\ a.cacheSize >= LeastCacheSize
               /\ a.maxSize \in Nat /\ a.maxSize > 0
               /\ (a.failOpen \/ a.headers # <<>>) => a.policyUrl # NotGiven
               /\ \A i \in DOMAIN a.headers : a.headers[i].sensitive
<1> DEFINE a == ArgsOf(l)
<1>1. /\ a.cacheSize = CacheSize(l.cacheSize) /\ a.cacheSize # Unreadable
      /\ a.maxSize = BlobMaxSize(l.maxSize) /\ a.maxSize # Unreadable
  BY DEF Admits, ArgsOf
<1>2. a.cacheSize \in Nat /\ a.cacheSize >= LeastCacheSize
  BY <1>1, LineAssumption, SMT DEF CacheSize, LeastCacheSize
<1>3. a.maxSize \in Nat /\ a.maxSize > 0
  BY <1>1, LineAssumption DEF BlobMaxSize
<1>4. a.headers = Headers(l.headers) /\ a.failOpen = l.failOpen /\ a.policyUrl = l.policyUrl
  BY DEF ArgsOf
<1>5. (a.failOpen \/ a.headers # <<>>) => a.policyUrl # NotGiven
  <2>1. l.headers = <<>> => a.headers = <<>>
    BY <1>4 DEF Headers
  <2> QED
    BY <1>4, <2>1 DEF Admits, RequirementsMet
<1>6. \A i \in DOMAIN a.headers : a.headers[i].sensitive
  <2>1. \A i \in DOMAIN a.headers : a.headers[i] = Header(l.headers[i]) /\ a.headers[i] # Unreadable
    BY <1>4 DEF Headers, Admits
  <2>2. \A i \in DOMAIN a.headers :
            a.headers[i] = [name |-> l.headers[i].name, sensitive |-> TRUE]
    BY <2>1 DEF Header
  <2> HIDE DEF a
  <2>3. \A n : [name |-> n, sensitive |-> TRUE].sensitive
    BY Zenon
  <2> QED
    BY <2>2, <2>3, Zenon
<1> QED
  BY <1>2, <1>3, <1>5, <1>6

-----------------------------------------------------------------------------

LEMMA OptionsInitInv == OptionsInit => OptionsInv
BY DEF OptionsInit, OptionsInv, Checked, Prefix

\* The caches of a part are caches, and that of the policy client is built only
\* beside a policy service.
LEMMA PartsAreParts ==
    ASSUME NEW i \in DOMAIN Parts
    PROVE  /\ Parts[i].part \in {"sizes", "identity", "policy", "blob"}
           /\ \A c \in Parts[i].caches : c \in Caches /\ (c = "policy" => args.policyUrl # NotGiven)
<1>1. CASE args.policyUrl = NotGiven
  <2>1. Parts = <<AllParts[1], AllParts[2], AllParts[4]>>
    BY <1>1 DEF Parts
  <2>2. i \in 1..3
    BY <2>1
  <2> QED
    BY <2>1, <2>2 DEF Caches, AllParts
<1>2. CASE args.policyUrl # NotGiven
  <2>1. Parts = AllParts
    BY <1>2 DEF Parts
  <2>2. i \in 1..4
    BY <2>1 DEF AllParts
  <2> QED
    BY <1>2, <2>1, <2>2 DEF Caches, AllParts
<1> QED
  BY <1>1, <1>2

\* Every cache that is built has a part, and the second of the parts, wherever the third
\* is left out, has the directory's URL.
LEMMA PartsHaveAll ==
    /\ \A c \in Caches : (c = "policy" => args.policyUrl # NotGiven) =>
           \E i \in DOMAIN Parts : c \in Parts[i].caches
    /\ 2 \in DOMAIN Parts /\ Parts[2].part = "identity"
<1>1. CASE args.policyUrl = NotGiven
  <2>1. Parts = <<AllParts[1], AllParts[2], AllParts[4]>>
    BY <1>1 DEF Parts
  <2>2. DOMAIN Parts = 1..3 /\ Parts[2] = AllParts[2] /\ Parts[3] = AllParts[4]
    BY <2>1
  <2>3. /\ AllParts[2].part = "identity" /\ AllParts[2].caches = {"identity"}
        /\ AllParts[4].caches = {"blob", "ownership"}
    BY DEF AllParts
  <2>4. \A c \in Caches : c = "policy" \/ c \in Parts[2].caches \/ c \in Parts[3].caches
    BY <2>2, <2>3 DEF Caches
  <2> QED
    BY <1>1, <2>2, <2>3, <2>4
<1>2. CASE args.policyUrl # NotGiven
  <2>1. Parts = AllParts
    BY <1>2 DEF Parts
  <2>2. DOMAIN Parts = 1..4
    BY <2>1 DEF AllParts
  <2>3. /\ Parts[2].part = "identity" /\ Parts[2].caches = {"identity"}
        /\ Parts[3].caches = {"policy"} /\ Parts[4].caches = {"blob", "ownership"}
    BY <2>1 DEF AllParts
  <2>4. \A c \in Caches : c \in Parts[2].caches \/ c \in Parts[3].caches \/ c \in Parts[4].caches
    BY <2>3 DEF Caches
  <2> QED
    BY <2>2, <2>3, <2>4
<1> QED
  BY <1>1, <1>2

\* The parts are a sequence; with a policy service, the third is its client.
LEMMA PartsAreListed ==
    /\ Len(Parts) \in Nat /\ DOMAIN Parts = 1..Len(Parts)
    /\ args.policyUrl # NotGiven => Len(Parts) = 4 /\ Parts[3].part = "policy"
<1>1. CASE args.policyUrl = NotGiven
  BY <1>1 DEF Parts, AllParts
<1>2. CASE args.policyUrl # NotGiven
  BY <1>2 DEF Parts, AllParts
<1> QED
  BY <1>1, <1>2

\* A part that panics is one the options make unbuildable.
LEMMA PanicsAreUnbuildable ==
    ASSUME NEW i \in DOMAIN Parts, Panics(Parts[i])
    PROVE  Unbuildable
BY PartsAreParts DEF Panics, Refused, Unbuildable

LEMMA OptionsNextInv == OptionsInv /\ [OptionsNext]_optionVars => OptionsInv'
<1> SUFFICES ASSUME OptionsInv, [OptionsNext]_optionVars PROVE OptionsInv'
  OBVIOUS
<1>1. CASE ParseArgs
  <2>1. CASE Admits(line)
    <3>1. line' = line /\ built' = built /\ args' = ArgsOf(line) /\ phase' = "building"
      BY <1>1, <2>1 DEF ParseArgs
    <3>2. args' # NotGiven => Checked'
      BY <2>1, <3>1, AdmittedIsChecked DEF Checked, OptionsInv
    <3>3. Prefix'
      BY <1>1, <3>1 DEF Prefix, OptionsInv, ParseArgs
    <3> QED
      BY <3>1, <3>2, <3>3, ArgsAssumption DEF OptionsInv, Checked
  <2>2. CASE ~Admits(line)
    BY <1>1, <2>2 DEF ParseArgs, OptionsInv, Checked, Prefix, Parts, Panics, Refused
  <2> QED
    BY <2>1, <2>2
<1>2. CASE Build
  <2> DEFINE k == Len(built) + 1
  <2>0. UNCHANGED <<line, args>> /\ phase = "building" /\ Len(built) < Len(Parts)
    BY <1>2 DEF Build
  <2>1. k \in DOMAIN Parts
    BY <2>0, PartsAreListed DEF OptionsInv, Prefix
  <2>2. Parts' = Parts /\ \A next : Panics(next)' <=> Panics(next)
    BY <2>0 DEF Parts, Panics, Refused
  <2>3. ASSUME Panics(Parts[k]), phase' = "panicked", built' = built PROVE OptionsInv'
    <3>1. Unbuildable'
      BY <2>0, <2>1, <2>3, PanicsAreUnbuildable DEF Unbuildable
    <3> QED
      BY <2>0, <2>2, <2>3, <3>1 DEF OptionsInv, Checked, Prefix
  <2>4. ASSUME phase' = "failed", built' = built PROVE OptionsInv'
    BY <2>0, <2>2, <2>4 DEF OptionsInv, Checked, Prefix
  <2>5. ASSUME ~Panics(Parts[k]), built' = Append(built, Parts[k].part), phase' = phase
        PROVE  OptionsInv'
    <3>1. Parts[k].part \in {"sizes", "identity", "policy", "blob"}
      BY <2>1, PartsAreParts
    <3>2. built' \in Seq({"sizes", "identity", "policy", "blob"})
      BY <2>5, <3>1 DEF OptionsInv, Prefix
    <3>3. \A i \in DOMAIN built' :
              i \in DOMAIN Parts /\ built'[i] = Parts[i].part /\ ~Panics(Parts[i])
      BY <2>1, <2>5, <3>1 DEF OptionsInv, Prefix
    <3>4. Prefix'
      BY <2>0, <2>2, <2>5, <3>2, <3>3 DEF Prefix
    <3> QED
      BY <2>0, <2>5, <3>4 DEF OptionsInv, Checked
  <2> QED
    BY <1>2, <2>3, <2>4, <2>5 DEF Build
<1>3. CASE Ready
  BY <1>3 DEF Ready, OptionsInv, Checked, Prefix, Parts, Panics, Refused
<1>4. CASE OptionsDone \/ UNCHANGED optionVars
  BY <1>4 DEF OptionsDone, optionVars, OptionsInv, Checked, Prefix, Parts, Panics, Refused, Unbuildable
<1> QED
  BY <1>1, <1>2, <1>3, <1>4 DEF OptionsNext

LEMMA OptionsInvariant == OptionsSpec => []OptionsInv
BY OptionsInitInv, OptionsNextInv, PTL DEF OptionsSpec

\* compute_cache_sizes, whatever --cache-size admits: its subtractions do not
\* underflow, and the four parts are the whole.
THEOREM Partition == OptionsSpec => []SizesPartition
<1>1. OptionsInv => SizesPartition
  BY SharesFit DEF OptionsInv, Checked, SizesPartition, ComputeCacheSizes
<1> QED
  BY <1>1, OptionsInvariant, PTL

\* A server that starts has a cap that lets a byte through, memory for every cache,
\* and a policy client whenever an option asks for one.
THEOREM StartsSound == OptionsSpec => []ReadyIsSound
<1>1. OptionsInv => ReadyIsSound
  <2> SUFFICES ASSUME OptionsInv, phase = "ready"
               PROVE  /\ args.maxSize > 0
                      /\ \A part \in {"blob", "ownership", "policy", "identity"} :
                             ComputeCacheSizes(args.cacheSize)[part] >= LeastCacheSize \div 10
                      /\ ((args.failOpen \/ args.headers # <<>>) =>
                             \E i \in DOMAIN built : built[i] = "policy")
                      /\ \A i \in DOMAIN args.headers : args.headers[i].sensitive
    BY DEF ReadyIsSound
  <2>1. \A part \in {"blob", "ownership", "policy", "identity"} :
            ComputeCacheSizes(args.cacheSize)[part] >= LeastCacheSize \div 10
    BY SharesServe DEF OptionsInv, Checked, ComputeCacheSizes
  <2>2. ASSUME args.failOpen \/ args.headers # <<>>
        PROVE  \E i \in DOMAIN built : built[i] = "policy"
    <3>1. Len(Parts) = 4 /\ Parts[3].part = "policy"
      BY <2>2, PartsAreListed DEF OptionsInv, Checked
    <3>2. 3 \in DOMAIN built
      BY <3>1 DEF OptionsInv, Prefix
    <3> QED
      BY <3>1, <3>2 DEF OptionsInv, Prefix
  <2> QED
    BY <2>1, <2>2 DEF OptionsInv, Checked
<1> QED
  BY <1>1, OptionsInvariant, PTL

\* Whatever is admitted, main panics over nothing but the directory's URL and the
\* lifetimes of the caches it builds, and a server that starts was given neither.
THEOREM PanicsAreExplained == OptionsSpec => []PanicsOverOptions
<1>1. OptionsInv => PanicsOverOptions
  <2> SUFFICES ASSUME OptionsInv, phase = "ready" PROVE ~Unbuildable
    BY DEF OptionsInv, PanicsOverOptions
  <2>1. \A i \in DOMAIN Parts : ~Panics(Parts[i])
    BY PartsAreListed DEF OptionsInv, Prefix
  <2>2. FluentUri(args.plcUrl) # Unreadable
    BY <2>1, PartsHaveAll DEF Panics
  <2>3. ASSUME NEW c \in Caches, c = "policy" => args.policyUrl # NotGiven
        PROVE  ~(args.lifetimes[c] > LongestLife)
    BY <2>1, <2>3, PartsHaveAll DEF Panics, Refused
  <2> QED
    BY <2>2, <2>3 DEF Unbuildable
<1> QED
  BY <1>1, OptionsInvariant, PTL
=============================================================================
