------------------------------ MODULE SchemeCache ------------------------------
(***************************************************************************)
(* The cache that answers "is the server on this port speaking HTTPS?"     *)
(* (scan/scheme.go), for one port.  Scheme blocks on a probe when it has   *)
(* no fresh entry; CachedScheme, called on every repaint, never blocks and *)
(* leaves the probe to a goroutine.  The server may change what it speaks  *)
(* while probes are under way.                                             *)
(*                                                                         *)
(* What every module has, Init and Next, is named for the cache here, and  *)
(* for the table in TableSelection: TuiProofs extends both of them.        *)
(***************************************************************************)
EXTENDS Naturals, FiniteSets

CONSTANTS
    Callers,    \* goroutines that call Scheme
    Probers,    \* goroutines that CachedScheme may have running
    TTL,        \* ticks an entry is fresh
    MaxGen      \* bound: invalidations in a behaviour

\* schemeCacheTTL (30 s) is many times schemeProbeTimeout (350 ms), and a tick
\* is longer than the latter.
ASSUME SchemeAssumption ==
    /\ TTL \in Nat \ {0, 1} /\ MaxGen \in Nat
    /\ Callers \cap Probers = {}

VARIABLES
    speaks,     \* what the server on the port speaks
    entry,      \* schemeCache[port]
    schemeGen,
    pc,         \* where each goroutine is in refreshScheme
    gen,        \* the generation it has read
    found,      \* what its probe has found
    late,       \* its probe has lasted into the next tick
    spawnedIn,  \* the generation that a background goroutine was started in
    answer      \* the last answer of a call to Scheme, and what it rests on

cacheVars == <<speaks, entry, schemeGen, pc, gen, found, late, spawnedIn, answer>>

Threads == Callers \cup Probers
Schemes == {"http", "https"}

\* An entry rests on a probe, on a guess made for a missing entry, or on an
\* entry that had gone stale.  Age TTL means stale; inGen is the generation
\* of whoever wrote it.
Bases == {"probe", "guess", "stale"}
NoEntry == [known |-> FALSE, scheme |-> "http", age |-> TTL, rests |-> "guess", inGen |-> 0]
Entry(scheme, rests, g) ==
    [known |-> TRUE, scheme |-> scheme, age |-> 0, rests |-> rests, inGen |-> g]

\* A slip: an entry never expires.
SlipForever == entry.known

Fresh == entry.known /\ entry.age < TTL

CacheTypeOK ==
    /\ speaks \in Schemes
    /\ entry \in [known : BOOLEAN, scheme : Schemes, age : 0 .. TTL,
                  rests : Bases, inGen : 0 .. MaxGen]
    /\ schemeGen \in 0 .. MaxGen
    /\ pc \in [Threads -> {"idle", "begin", "probe", "commit"}]
    /\ gen \in [Threads -> 0 .. MaxGen]
    /\ found \in [Threads -> Schemes]
    /\ late \in [Threads -> BOOLEAN]
    /\ spawnedIn \in [Probers -> 0 .. MaxGen]
    /\ answer \in [scheme : Schemes, rests : Bases \cup {"none"}]

CacheInit ==
    /\ speaks \in Schemes
    /\ entry = NoEntry /\ schemeGen = 0
    /\ pc = [t \in Threads |-> "idle"]
    /\ gen = [t \in Threads |-> 0]
    /\ found = [t \in Threads |-> "http"]
    /\ late = [t \in Threads |-> FALSE]
    /\ spawnedIn = [t \in Probers |-> 0]
    /\ answer = [scheme |-> "http", rests |-> "none"]

-----------------------------------------------------------------------------
\* Scheme: a fresh entry is the answer, whatever put it there.
SchemeHit(c) ==
    /\ pc[c] = "idle" /\ Fresh
    /\ answer' = [scheme |-> entry.scheme, rests |-> entry.rests]
    /\ UNCHANGED <<speaks, entry, schemeGen, pc, gen, found, late, spawnedIn>>

SchemeMiss(c) ==
    /\ pc[c] = "idle" /\ ~Fresh
    /\ pc' = [pc EXCEPT ![c] = "begin"]
    /\ UNCHANGED <<speaks, entry, schemeGen, gen, found, late, spawnedIn, answer>>

\* CachedScheme without a fresh entry: the placeholder is stamped now, so that
\* other repaints do not probe too, and a goroutine is started.  (With a fresh
\* entry it changes nothing.)  Bound: a free goroutine in Probers.
CachedSchemeMiss(b) ==
    /\ pc[b] = "idle" /\ ~Fresh
    /\ entry' = IF entry.known THEN Entry(entry.scheme, "stale", schemeGen)
                ELSE Entry("http", "guess", schemeGen)
    /\ pc' = [pc EXCEPT ![b] = "begin"]
    /\ spawnedIn' = [spawnedIn EXCEPT ![b] = schemeGen]
    /\ UNCHANGED <<speaks, schemeGen, gen, found, late, answer>>

\* refreshScheme: read the generation, probe, commit unless it has changed.
RefreshBegin(t) ==
    /\ pc[t] = "begin"
    /\ gen' = [gen EXCEPT ![t] = schemeGen]
    /\ pc' = [pc EXCEPT ![t] = "probe"]
    /\ UNCHANGED <<speaks, entry, schemeGen, found, late, spawnedIn, answer>>

RefreshProbe(t) ==
    /\ pc[t] = "probe"
    /\ found' = [found EXCEPT ![t] = speaks]
    /\ pc' = [pc EXCEPT ![t] = "commit"]
    /\ UNCHANGED <<speaks, entry, schemeGen, gen, late, spawnedIn, answer>>

\* A slip: a probe commits whatever has happened since it began.
SlipCommitLate(t) ==
    /\ pc[t] = "commit"
    /\ entry' = Entry(found[t], "probe", gen[t])
    /\ answer' = IF t \in Callers THEN [scheme |-> found[t], rests |-> "probe"] ELSE answer
    /\ pc' = [pc EXCEPT ![t] = "idle"]
    /\ found' = [found EXCEPT ![t] = "http"]
    /\ gen' = [gen EXCEPT ![t] = 0]
    /\ late' = [late EXCEPT ![t] = FALSE]
    /\ UNCHANGED <<speaks, schemeGen, spawnedIn>>

RefreshCommit(t) ==
    /\ pc[t] = "commit"
    /\ entry' = IF gen[t] = schemeGen THEN Entry(found[t], "probe", gen[t]) ELSE entry
    /\ answer' = IF t \in Callers THEN [scheme |-> found[t], rests |-> "probe"] ELSE answer
    /\ pc' = [pc EXCEPT ![t] = "idle"]
    /\ found' = [found EXCEPT ![t] = "http"]
    /\ gen' = [gen EXCEPT ![t] = 0]
    /\ late' = [late EXCEPT ![t] = FALSE]
    /\ UNCHANGED <<speaks, schemeGen, spawnedIn>>

RefreshScheme(t) == RefreshBegin(t) \/ RefreshProbe(t) \/ RefreshCommit(t)

\* SetTLSProbeForTesting and its restore function: the cache is emptied and
\* the probes under way belong to the past.  Bound: MaxGen times.
SetTLSProbeForTesting ==
    /\ schemeGen < MaxGen
    /\ schemeGen' = schemeGen + 1
    /\ entry' = NoEntry
    /\ UNCHANGED <<speaks, pc, gen, found, late, spawnedIn, answer>>

-----------------------------------------------------------------------------
\* The dev server is restarted with or without TLS.
Restart ==
    /\ speaks' \in Schemes \ {speaks}
    /\ UNCHANGED <<entry, schemeGen, pc, gen, found, late, spawnedIn, answer>>

\* A tick is longer than schemeProbeTimeout: a refresh that has begun in one
\* tick is over before the end of the next.
CacheTick ==
    /\ \A t \in Threads : ~late[t]
    /\ late' = [t \in Threads |-> pc[t] # "idle"]
    /\ entry' = IF entry.known /\ entry.age < TTL
                THEN [entry EXCEPT !.age = @ + 1] ELSE entry
    /\ UNCHANGED <<speaks, schemeGen, pc, gen, found, spawnedIn, answer>>

CacheNext ==
    \/ \E c \in Callers : SchemeHit(c) \/ SchemeMiss(c)
    \/ \E b \in Probers : CachedSchemeMiss(b)
    \/ \E t \in Threads : RefreshScheme(t)
    \/ SetTLSProbeForTesting
    \/ Restart
    \/ CacheTick

CacheSpec == CacheInit /\ [][CacheNext]_cacheVars

\* Probes end (they have a timeout), time passes, and the TUI repaints.
CacheFairness ==
    /\ \A t \in Threads : WF_cacheVars(RefreshScheme(t))
    /\ WF_cacheVars(CacheTick)
    /\ WF_cacheVars(\E b \in Probers : CachedSchemeMiss(b))

FairCacheSpec == CacheSpec /\ CacheFairness

-----------------------------------------------------------------------------
(* What holds *)

\* schemeGen: nothing that was found out in one generation is ever in the
\* cache of a later one, however long its probe takes to come back.
NoObsoleteEntry == entry.known => entry.inGen = schemeGen

\* CachedScheme, "so concurrent renders don't stack duplicate probes": of one
\* generation no two background probes run at the same time.
ProbesDoNotStack ==
    \A a, b \in Probers :
        a # b /\ pc[a] # "idle" /\ pc[b] # "idle" => spawnedIn[a] # spawnedIn[b]

\* urlFor, "the next repaint corrects it once the background probe lands":
\* once the server stays what it is, the links end up right and stay right,
\* although older probes may still overwrite newer answers on the way.
LinksConverge ==
    \A s \in Schemes :
        <>[](speaks = s) => <>[](entry.known => entry.scheme = s)

\* Why they do not: while a probe of this generation runs, the placeholder that
\* was stamped for it, or what has replaced it, is too young to be stale.
PlaceholdersOutlastProbes ==
    \A b \in Probers : pc[b] # "idle" =>
        /\ spawnedIn[b] <= schemeGen
        /\ spawnedIn[b] = schemeGen =>
               entry.known /\ entry.age <= IF late[b] THEN 1 ELSE 0

\* What the cache and the goroutines that fill it never come to: an entry out of
\* its generation or two probes of one generation, and no value but of its type.
CacheInv == CacheTypeOK /\ NoObsoleteEntry /\ ProbesDoNotStack /\ PlaceholdersOutlastProbes

-----------------------------------------------------------------------------
(* What the comments say and the code does not do *)

\* blockingURLFor probes synchronously because the URL "must be right now";
\* but a call of Scheme is answered by the placeholder of a repaint.
BlockingAnswersAreProbed == answer.rests \in {"none", "probe"}

=============================================================================
