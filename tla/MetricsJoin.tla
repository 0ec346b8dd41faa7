------------------------------ MODULE MetricsJoin ------------------------------
(***************************************************************************)
(* How a metrics view joins its two Prometheus answers                     *)
(* (datacenter/metrics/fetch.go, assemble): one has the values, the other  *)
(* the time stamps of the raw series behind them.  A row is a host for the *)
(* fleet and a device for the GPU view; several sources may feed one row,  *)
(* and one source several rows.                                            *)
(*                                                                         *)
(* Pure definitions.  Values are left out: what is told apart is which     *)
(* fields a source reports, whether it is up, and whether a stamp is       *)
(* recent, old, or unusable (absent, not positive, or of the future).      *)
(***************************************************************************)
EXTENDS FiniteSets

CONSTANTS
    Sources,    \* job and instance, on one host
    Devices     \* GPUs of that host

Fields == {"plain", "ratio"}
UpValues == {"absent", "up", "down", "odd"}

\* A slip: only the numerator is looked at.
SlipOneSeries(field) == IF field = "ratio" THEN {"part"} ELSE {field}

\* ram and filesystem are ratios of two raw series.
RawFields(field) == IF field = "ratio" THEN {"part", "whole"} ELSE {field}

Units(gpu) == IF gpu THEN Devices ELSE {"host"}

\* The values that an answer may hold: what each source says of up, and the
\* fields it reports.
Samples(gpu) == [source : Sources, unit : Units(gpu), field : Fields]

\* rowKey: for the fleet, up alone makes a row.
RowSources(gpu, v, u) ==
    {x.source : x \in {y \in v.series : y.unit = u}}
        \cup {s \in Sources : ~gpu /\ v.up[s] # "absent"}

Rows(gpu, v) == {u \in Units(gpu) : RowSources(gpu, v, u) # {}}

\* Two sources report the same field of one row.
Ambiguous(v) == \E x, y \in v.series : x # y /\ x.unit = y.unit /\ x.field = y.field

UpKey(s) == [source |-> s, unit |-> "", raw |-> "up"]
RawKeys(x) == [source : {x.source}, unit : {x.unit}, raw : RawFields(x.field)]

\* The stamps that a row needs of one of its sources.
Required(v, s, u) ==
    {UpKey(s)} \cup UNION {RawKeys(x) : x \in {y \in v.series : y.source = s /\ y.unit = u}}

\* sourceFreshness: one unusable stamp makes the whole unknown.
Freshness(required, recent, old) ==
    IF ~(required \subseteq recent \cup old) THEN "unknown"
    ELSE IF required \subseteq recent THEN "fresh" ELSE "stale"

UpOf(v, s) == IF v.up[s] \in {"up", "down"} THEN v.up[s] ELSE "unknown"

\* summarize: the worst of the sources, where stale is worse than unknown.
WorstFreshness(all) ==
    IF "stale" \in all THEN "stale"
    ELSE IF "unknown" \in all THEN "unknown" ELSE "fresh"

WorstUp(all) ==
    IF "down" \in all THEN "down"
    ELSE IF "unknown" \in all THEN "unknown" ELSE "up"

\* rowHealth and summarize: what is published of a row.
RowHealth(gpu, v, recent, old, u) ==
    LET sources == RowSources(gpu, v, u) IN
    [up |-> WorstUp({UpOf(v, s) : s \in sources}),
     freshness |-> WorstFreshness({Freshness(Required(v, s, u), recent, old) : s \in sources})]

Assemble(gpu, v, recent, old) ==
    [u \in Rows(gpu, v) |-> RowHealth(gpu, v, recent, old, u)]

=============================================================================
