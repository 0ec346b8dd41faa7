------------------------------ MODULE Datacenter ------------------------------
(***************************************************************************)
(* le datacenter (cmd/datacenter.go): one view, or a summary of up to      *)
(* three, collected one after the other under one deadline.  Every view    *)
(* has a client of its own (internal/readapi) with a budget that all of    *)
(* its requests share.  fleet and gpu ask Prometheus twice and join the    *)
(* answers (datacenter/metrics); inventory reads the devices of NetBox     *)
(* page by page (datacenter/inventory) while others edit them.             *)
(*                                                                         *)
(* The servers are modelled from how the code uses them: honest, but       *)
(* unreachable, slow or garbled at any time.  One goroutine makes all      *)
(* requests of a client, so its gate is never contended and is left out.   *)
(* Sizes are counted in units: one for an answer and one for each record.  *)
(***************************************************************************)
EXTENDS Integers, Sequences, MetricsJoin

S == INSTANCE SequencesExt

CONSTANTS
    MaxDevices,     \* the same as in inventory: 512
    Page,           \* records of a page: 64
    Budget,         \* bodyBudget of readapi
    IDs,            \* identities of devices
    MaxChurn,       \* bound: edits of the inventory while it is read
    MaxSeries       \* bound: series in one answer

\* An answer names finitely many sources and devices.
ASSUME DatacenterAssumption ==
    /\ IsFiniteSet(Sources) /\ IsFiniteSet(Devices)
    /\ MaxDevices \in Nat /\ Page \in Nat \ {0} /\ Budget \in Nat
    /\ MaxChurn \in Nat /\ MaxSeries \in Nat

VARIABLES
    asked,      \* the views of the command, in order
    summary,    \* it is le datacenter summary
    late,       \* the deadline of the whole command has passed
    pc,
    view,       \* the view that is being collected
    left,       \* the views that are not yet
    section,    \* what became of each
    remaining,  \* the client's budget
    values,     \* the first answer of Prometheus
    stamps,     \* the second: keys with recent and with old stamps
    rows,       \* the rows that a metrics view publishes
    list,       \* the devices of NetBox, in its order
    moments,    \* sets of devices there have been since the view began
    churn,      \* edits since then
    total,
    records,
    exit,
    shown       \* views whose data was written to stdout

commandVars == <<asked, summary, view, left>>
metricsVars == <<values, stamps, rows>>
sourceVars == <<list, moments, churn>>
fetchVars == <<total, records>>
endVars == <<exit, shown>>
vars == <<commandVars, late, pc, section, remaining, metricsVars, sourceVars, fetchVars, endVars>>

Views == {"fleet", "gpu", "inventory"}
Errors == {"config", "deadline", "failed"}
NoValues == [up |-> [s \in Sources |-> "absent"], series |-> {}]
NoStamps == [recent |-> {}, old |-> {}]
NoChurn == [in |-> 0, out |-> 0, moved |-> 0]

Commands == {<<v>> : v \in Views} \cup {<<"fleet", "gpu">>, <<"fleet", "gpu", "inventory">>}

Init ==
    /\ asked \in Commands /\ summary \in BOOLEAN
    /\ summary => asked \notin {<<"fleet">>, <<"gpu">>}
    /\ ~summary => Len(asked) = 1
    /\ late = FALSE /\ pc = "next" /\ view = Head(asked) /\ left = asked
    /\ section = [v \in Views |-> "none"]
    /\ remaining = 0 /\ values = NoValues /\ stamps = NoStamps /\ rows = [u \in {} |-> 0]
    /\ list = <<>> /\ moments = {} /\ churn = NoChurn /\ total = -1 /\ records = <<>>
    /\ exit = "none" /\ shown = {}

Goto(p) == pc' = p
Settle(result) == section' = [section EXCEPT ![view] = result] /\ Goto("next")

\* The context of the command: at most 30 seconds for everything.
Deadline ==
    /\ pc # "done" /\ ~late
    /\ late' = TRUE
    /\ UNCHANGED <<commandVars, pc, section, remaining, metricsVars, sourceVars, fetchVars, endVars>>

\* What NetBox may hold when the fetch begins.
Cohorts == {[i \in 1 .. n |-> i] : n \in 0 .. MaxDevices + 1}

\* A view begins with a new client; New refuses a bad URL or token.
Begin ==
    /\ pc = "next" /\ left # <<>>
    /\ view' = Head(left) /\ left' = Tail(left)
    /\ remaining' = Budget
    /\ values' = NoValues /\ stamps' = NoStamps /\ rows' = [u \in {} |-> 0]
    /\ total' = -1 /\ records' = <<>> /\ churn' = NoChurn
    /\ list' \in IF Head(left) = "inventory" THEN Cohorts ELSE {list}
    /\ moments' = {S!ToSet(list')}
    /\ \/ Goto(IF Head(left) = "inventory" THEN "page" ELSE "values") /\ UNCHANGED section
       \/ Goto("next") /\ section' = [section EXCEPT ![Head(left)] = "config"]
    /\ UNCHANGED <<asked, summary, late, endVars>>

-----------------------------------------------------------------------------
(* GetJSON *)

\* What can become of a request: no connection, no answer within the five
\* seconds of one request, a body that breaks off, an answer that is refused
\* for its status, encoding or form, or one that can be used.
Replies == {"unreachable", "timeout", "cut", "bad", "ok"}

CanReply(r) == late => r \in {"unreachable", "cut"}

\* One unit more than the budget is read, so that passing it shows.
BudgetAfter(size) == IF size > remaining THEN -1 ELSE remaining - size

GetError(r) ==
    IF remaining > 0 /\ (r = "timeout" \/ (late /\ r \in {"unreachable", "cut"}))
    THEN "deadline" ELSE "failed"

Fails ==
    /\ pc \in {"values", "stamps", "page"}
    /\ \E r \in Replies : CanReply(r) /\ (r # "ok" \/ remaining <= 0) /\ Settle(GetError(r))
    /\ UNCHANGED <<commandVars, late, remaining, metricsVars, sourceVars, fetchVars, endVars>>

\* An answer that uses size of the budget.  Passing it is an error.
Answered(size) ==
    /\ CanReply("ok") /\ remaining > 0
    /\ remaining' = BudgetAfter(size)

-----------------------------------------------------------------------------
(* Metrics *)

IsGPU == view = "gpu"

QueryValues ==
    /\ pc = "values"
    /\ \E up \in [Sources -> UpValues], series \in SUBSET Samples(IsGPU) :
          /\ Cardinality(series) <= MaxSeries
          /\ Answered(1 + Cardinality(series))
          /\ values' = [up |-> up, series |-> series]
    /\ IF remaining' < 0 THEN Settle("failed") ELSE Goto("stamps") /\ UNCHANGED section
    /\ UNCHANGED <<commandVars, late, stamps, rows, sourceVars, fetchVars, endVars>>

\* Stamps of series that nothing needs are ignored; they are left out here.
Wanted(v) == UNION {Required(v, s, u) : s \in Sources, u \in Units(IsGPU)}

QueryStamps ==
    /\ pc = "stamps"
    /\ \E recent, old \in SUBSET Wanted(values) :
          /\ recent \cap old = {}
          /\ Answered(1 + Cardinality(recent \cup old))
          /\ stamps' = [recent |-> recent, old |-> old]
    /\ IF remaining' < 0 \/ Ambiguous(values)
       THEN Settle("failed") /\ UNCHANGED rows
       ELSE Settle("data")
            /\ rows' = Assemble(IsGPU, values, stamps'.recent, stamps'.old)
    /\ UNCHANGED <<commandVars, late, values, sourceVars, fetchVars, endVars>>

-----------------------------------------------------------------------------
(* Inventory *)

\* NetBox is edited while it is read.
Edit(kind, devices) ==
    /\ pc = "page" /\ churn.in + churn.out + churn.moved < MaxChurn
    /\ list' = devices
    /\ moments' = moments \cup {S!ToSet(devices)}
    /\ churn' = [churn EXCEPT ![kind] = @ + 1]
    /\ UNCHANGED <<commandVars, late, pc, section, remaining, metricsVars, fetchVars, endVars>>

AddDevice ==
    \E d \in IDs \ S!ToSet(list), i \in 1 .. Len(list) + 1 : Edit("in", S!InsertAt(list, i, d))
RemoveDevice == \E i \in 1 .. Len(list) : Edit("out", S!RemoveAt(list, i))
MoveDevice ==
    \E i, j \in 1 .. Len(list) :
        i # j /\ Edit("moved", S!InsertAt(S!RemoveAt(list, i), j, list[i]))

\* The server may give fewer than asked for.
Rest == SubSeq(list, Len(records) + 1, Len(list))
Pages == {SubSeq(Rest, 1, n) : n \in {k \in 0 .. Page : k <= Len(Rest)}}

\* A slip: nobody looks whether the count is still the same.
SlipFirstCount(count, page) ==
    count <= MaxDevices /\ Len(page) <= Page

\* The checks of a page, up to the records themselves.
Plausible(count, page) ==
    /\ count <= MaxDevices /\ total \in {-1, count}
    /\ Len(page) <= Page /\ Len(records) + Len(page) <= count
    /\ page = <<>> => Len(records) = count
    /\ S!ToSet(page) \cap S!ToSet(records) = {}

\* The next offset is a page further, and below the maximum.
HasNext(page) == Len(page) = Page /\ Len(records) + Page < MaxDevices

FetchPage ==
    /\ pc = "page"
    /\ \E page \in Pages :
          LET count == Len(list) IN
          /\ Answered(1 + Len(page))
          /\ IF remaining' < 0 \/ ~Plausible(count, page)
             THEN Settle("failed") /\ UNCHANGED fetchVars
             ELSE /\ total' = count
                  /\ records' = records \o page
                  /\ IF Len(records') = count THEN Settle("data")
                     ELSE IF HasNext(page) THEN Goto("page") /\ UNCHANGED section
                     ELSE Settle("failed")
    /\ UNCHANGED <<commandVars, late, metricsVars, sourceVars, endVars>>

-----------------------------------------------------------------------------
(* The report *)

WantedViews == S!ToSet(asked)
HasData == {v \in WantedViews : section[v] = "data"}

\* dataError and exitCodeFor.
ExitOf(error) ==
    IF error = "config" THEN "usage" ELSE IF error = "deadline" THEN "timeout" ELSE "failed"

Finish(e) == exit' = e /\ Goto("done")

\* writeData writes everything, refuses output above a limit, or fails.
Write(views, e) ==
    \/ shown' = views /\ Finish(e)
    \/ shown' = {} /\ Finish("failed")

\* A slip: the summary forgets a view that failed before the last.
SlipLastCounts == {v \in WantedViews : v = view /\ section[v] # "data"}

Failed == {v \in WantedViews : section[v] # "data"}

ReportView ==
    /\ pc = "next" /\ left = <<>> /\ ~summary
    /\ IF section[view] = "data" THEN Write({view}, "ok")
       ELSE Finish(ExitOf(section[view])) /\ UNCHANGED shown
    /\ UNCHANGED <<commandVars, late, section, remaining, metricsVars, sourceVars, fetchVars>>

\* The report of a summary names the views that failed.
ReportSummary ==
    /\ pc = "next" /\ left = <<>> /\ summary
    /\ IF Failed = {} THEN Write(HasData, "ok")
       ELSE Write(HasData, IF late THEN "timeout" ELSE "failed")
    /\ UNCHANGED <<commandVars, late, section, remaining, metricsVars, sourceVars, fetchVars>>

Next ==
    \/ Deadline \/ Begin \/ Fails
    \/ QueryValues \/ QueryStamps
    \/ AddDevice \/ RemoveDevice \/ MoveDevice \/ FetchPage
    \/ ReportView \/ ReportSummary

Spec == Init /\ [][Next]_vars

-----------------------------------------------------------------------------
(* What holds *)

\* inventory_test.go, TestMalformedChangingOrOversizeCohortFailsWhole, as far as
\* pages can tell: devices that are only added, or only removed, while others
\* move, make the fetch fail, or what it returns is the whole cohort as it was
\* at one moment.  Where some are added and others removed, nothing more is
\* promised than that every device was there at some moment, once.
CohortIsOneMoment ==
    view = "inventory" /\ section["inventory"] = "data" =>
        /\ S!IsInjective(records) /\ Len(records) = total
        /\ S!ToSet(records) \subseteq UNION moments
        /\ churn.in = 0 \/ churn.out = 0 => S!ToSet(records) \in moments

\* Why rows can be read back: no view is collected twice, and the rows that are
\* published are the join of the two answers that are still held.
QueueInv ==
    /\ view \in Views /\ left \in Seq(Views)
    /\ section \in [Views -> Errors \cup {"none", "data"}]
    /\ \A i \in 1 .. Len(left) : section[left[i]] = "none"
    /\ \A i, j \in 1 .. Len(left) : left[i] = left[j] => i = j
    /\ pc \in {"values", "stamps", "page"} =>
           section[view] = "none" /\ \A i \in 1 .. Len(left) : left[i] # view
    /\ pc = "page" => view = "inventory"
    /\ pc \in {"values", "stamps"} => view # "inventory"

JoinInv ==
    /\ \A x \in values.series : x.source \in Sources
    /\ view # "inventory" /\ section[view] = "data" =>
        rows = Assemble(IsGPU, values, stamps.recent, stamps.old)

\* The sources that feed a row: those with a series in it and, for the fleet,
\* those of which nothing but up is known.
Feeding(u) ==
    {s \in Sources : \/ \E x \in values.series : x.source = s /\ x.unit = u
                     \/ ~IsGPU /\ values.up[s] # "absent"}

\* The raw series behind what one source says in a row.
Behind(s, u) ==
    LET mine == {x \in values.series : x.source = s /\ x.unit = u}
        raws == UNION {IF x.field = "ratio" THEN {"part", "whole"} ELSE {x.field} : x \in mine}
    IN  {UpKey(s)} \cup {[source |-> s, unit |-> u, raw |-> r] : r \in raws}

\* README.md, "Missing/stale observations remain explicit": a row is called
\* fresh exactly when, of every source that feeds it, up and every raw series
\* behind every value have recent stamps, and stale exactly when one source is
\* known to be: all its stamps can be used and one is old.  It is called up
\* exactly when all of its sources are, and down exactly when one is.
EvidenceIsExplicit ==
    view # "inventory" /\ section[view] = "data" =>
        \A u \in DOMAIN rows :
            /\ rows[u].freshness = "fresh" <=>
                   \A s \in Feeding(u) : Behind(s, u) \subseteq stamps.recent
            /\ rows[u].freshness = "stale" <=>
                   \E s \in Feeding(u) :
                       /\ Behind(s, u) \subseteq stamps.recent \cup stamps.old
                       /\ ~(Behind(s, u) \subseteq stamps.recent)
            /\ rows[u].up = "up" <=> \A s \in Feeding(u) : values.up[s] = "up"
            /\ rows[u].up = "down" <=> \E s \in Feeding(u) : values.up[s] = "down"

\* What the answers behind the data of a view have at least taken of its budget.
Taken ==
    IF view = "inventory" THEN 1 + Len(records)
    ELSE 2 + Cardinality(values.series) + Cardinality(stamps.recent \cup stamps.old)

\* README.md, "Summary may return partial source status with exit 1; an
\* individual failed view emits no partial data": success means that every view
\* asked for is there, nothing is shown of a view that failed, and no data rest
\* on answers that together pass the budget of the client.
ReportIsTruthful ==
    /\ section[view] = "data" => Taken <= Budget
    /\ pc = "done" =>
        /\ exit = "ok" => shown = WantedViews /\ shown = HasData
        /\ shown \subseteq HasData
        /\ exit = "usage" => shown = {} /\ "config" \in {section[v] : v \in WantedViews}
        /\ summary /\ Failed # {} => exit \in {"failed", "timeout"}

=============================================================================
