---------------------------- MODULE DatabaseQuery ----------------------------
(* One `le db query|schema`: cmd/database.go over the adapters of            *)
(* datacenter/database (query.go, sql.go, mongo.go, redis.go, wire.go).      *)
(*                                                                           *)
(* An adapter opens its resources one after another under a five-second      *)
(* context of its own, copies the server's rows into a bounded builder, and  *)
(* unwinds its deferred closes; safeError and the command then turn whatever *)
(* happened into an exit code.  The drivers and the server are external:     *)
(* each call of theirs succeeds, fails, or hangs until a deadline.           *)
EXTENDS Naturals, Sequences, FiniteSets

CONSTANTS
    MaxRows,     \* query.go: maxRows
    MaxResult,   \* query.go: maxResult, in units of one small row
    None

Errors == {"config", "limit", "bytes", "server", "metadata", "timeout", "canceled",
           "deadline", "query", "close", "stdin", "output"}

ASSUME LimitsAssumption == MaxRows \in Nat \ {0} /\ MaxResult \in Nat \ {0}
ASSUME NoneAssumption   == None \notin Errors /\ None \notin {0, 1, 2, 124}

VARIABLES
    req,       \* engine, action, hash (redis HGETALL), short (--timeout <= 5s)
    pc,
    step,      \* the next call of the plan
    held,      \* resources whose deferred close is pending, latest last
    answer,    \* what the server holds for the request, once it is asked
    kept,      \* the rows of the result so far
    err,       \* the adapter's named result err
    raised,    \* what first went wrong, before a driver rewrote it
    unclean,   \* some resource's close failed
    dialed,    \* a connection was attempted
    clock,     \* 0: before, 1: past the adapter's deadline, 2: past --timeout
    innerErr,  \* Err() of the adapter's context
    outerErr,  \* Err() of the command's context, which Query also checks
    told,      \* the error the command is left with
    exit       \* le's exit code

control == <<pc, step, held, unclean, dialed>>
data    == <<answer, kept>>
errors  == <<err, raised>>
time    == <<clock, innerErr, outerErr>>
report  == <<told, exit>>
vars    == <<req, control, data, errors, time, report>>

Requests ==
    { r \in [engine : {"postgres", "mysql", "mongodb", "redis"},
             action : {"query", "schema"}, hash : BOOLEAN, short : BOOLEAN] :
        r.hash => r.engine = "redis" /\ r.action = "query" }

\* The calls an adapter makes before it reads rows, in order.
Plan(r) ==
    CASE r.engine = "postgres" -> <<"config", "conn", "tx", "prepare", "rows">>
      [] r.engine = "mysql"    -> <<"config", "db", "conn", "setting", "tx",
                                    "statement", "rows">>
      [] r.engine = "mongodb"  -> <<"config", "client", "rows">>
      [] r.engine = "redis"    ->
            IF r.action = "schema" THEN <<"config", "client", "dbsize", "rows">>
            ELSE IF r.hash         THEN <<"config", "client", "hlen", "rows">>
            ELSE                        <<"config", "client", "rows">>

Local     == {"config", "db", "client"}
Closeable == {"db", "conn", "tx", "statement", "client"}

\* Redis answers in one reply; every other engine hands out a cursor.
Acquires(c) == c \in Closeable \/ (c = "rows" /\ req.engine # "redis")

RowKinds == {"small", "large", "garbled"}

\* resultBuilder.size: the header and the rows, a large one counting twice.
Size(rows) == 1 + Len(rows) + Cardinality({ i \in DOMAIN rows : rows[i] = "large" })

\* More than 256 columns are wide, and their rows are never read; more is a
\* second result set.
Answers(r) ==
    { a \in [rows : UNION { [1..n -> RowKinds] : n \in 0..(MaxRows + 2) },
             wide : BOOLEAN, more : BOOLEAN] :
        /\ a.more => r.engine = "mysql"
        /\ a.wide => r.engine \in {"postgres", "mysql"} /\ a.rows = <<>> }

\* A slip: the cursor asks for exactly maxRows.
SlipRowLimit == MaxRows

\* Mongo's Find carries SetLimit(maxRows+1), the SQL schema statements LIMIT 1001.
RowLimit == MaxRows + 1
Limited(r) == IF r.engine = "mongodb" THEN r.action = "query"
              ELSE r.engine # "redis" /\ r.action = "schema"
Sent(r, a) == IF Limited(r) /\ Len(a.rows) > RowLimit
              THEN SubSeq(a.rows, 1, RowLimit) ELSE a.rows

NoAnswer == [rows |-> <<>>, wide |-> FALSE, more |-> FALSE]

-----------------------------------------------------------------------------
Init ==
    /\ req \in Requests
    /\ pc = "input" /\ step = 1 /\ held = <<>> /\ unclean = FALSE /\ dialed = FALSE
    /\ answer = NoAnswer /\ kept = <<>>
    /\ err = None /\ raised = None
    /\ clock = 0 /\ innerErr = None /\ outerErr = None
    /\ told = None /\ exit = None

\* A return with Result{} and an error: the deferred closes run next.
Fail(e, why) ==
    /\ err' = e
    /\ raised' = why
    /\ kept' = <<>>
    /\ pc' = "close"

ExitCode(t) ==
    CASE t = None       -> 0
      [] t = "config"   -> 2
      [] t = "deadline" -> 124
      [] OTHER          -> 1

Finish(t) ==
    /\ told' = t
    /\ exit' = ExitCode(t)
    /\ pc' = "done"

\* ValidateConfig: the target is refused before anything is read or dialled.
RefuseTarget ==
    /\ pc = "input"
    /\ Finish("config")
    /\ UNCHANGED <<req, step, held, unclean, dialed, data, errors, time>>

\* runDatabase reads a query from stdin and refuses one that is too long.
ReadStdin ==
    /\ pc = "input"
    /\ \/ pc' = "check" /\ UNCHANGED report
       \/ req.action = "query" /\ \E t \in {"config", "stdin"} : Finish(t)
    /\ UNCHANGED <<req, step, held, unclean, dialed, data, errors, time>>

\* The adapter accepts a query only in its read-only dialect: one SELECT, WITH
\* or EXPLAIN, a filter of known operators, or an allowed command.
CheckInput ==
    /\ pc = "check"
    /\ \/ pc' = "open" /\ UNCHANGED <<errors, kept>>
       \/ req.action = "query" /\ Fail("config", "config")
    /\ UNCHANGED <<req, step, held, unclean, dialed, answer, time, report>>

Call == Plan(req)[step]

\* The call returned what it was asked for.
Opened ==
    /\ held' = IF Acquires(Call) THEN Append(held, Call) ELSE held
    /\ step' = step + 1
    /\ pc'   = IF Call = "rows" THEN "columns" ELSE "open"

\* TLSConfig refuses a CA file that it cannot use or that is too long, and
\* mongo.Connect may refuse its options.
Refusals == CASE Call = "config" -> {"config", "limit"}
              [] Call = "client" /\ req.engine = "mongodb" -> {"query"}
              [] OTHER -> {}

OpenLocal ==
    /\ pc = "open" /\ Call \in Local
    /\ \/ Opened /\ UNCHANGED <<errors, kept>>
       \/ \E e \in Refusals : Fail(e, e) /\ UNCHANGED <<step, held>>
    /\ UNCHANGED <<req, unclean, dialed, answer, time, report>>

OpenRemote ==
    /\ pc = "open" /\ Call \notin Local
    /\ dialed' = TRUE
    /\ \/ /\ Call = "hlen"
          /\ Fail("limit", "limit")          \* the hash is larger than maxRows
          /\ UNCHANGED <<step, held, answer>>
       \/ /\ Opened
          /\ IF Call = "rows" THEN answer' \in Answers(req) ELSE UNCHANGED answer
          /\ UNCHANGED <<errors, kept>>
    /\ UNCHANGED <<req, unclean, time, report>>

\* A slip: deadlines cover the calls that open resources, not the reads of rows.
SlipWaiting == pc = "open" /\ Call \notin Local

\* Calls that wait for the server.
Waiting ==
    \/ pc = "open" /\ Call \notin Local
    \/ pc = "rows" /\ req.engine # "redis"

\* boundedDial's byte budget and the frame guards end a read with ErrLimit.
Returned(why) == IF why = "bytes" THEN "limit" ELSE why

\* On an open connection the MySQL driver returns ErrInvalidConn for every failed
\* read (third_party/mysql/packets.go, readPacket); dialling keeps the error.
Rewrites(why) ==
    IF req.engine # "mysql" \/ why \notin {"bytes", "timeout"} THEN {Returned(why)}
    ELSE IF pc = "open" /\ Call = "conn" THEN {Returned(why), "server"}
    ELSE {"server"}

WaitFails(why) ==
    /\ Waiting
    /\ \E e \in Rewrites(why) : Fail(e, why)
    /\ dialed' = TRUE
    /\ UNCHANGED <<req, step, held, unclean, answer, time, report>>

\* A name lookup has a timeout of its own, shorter perhaps than any of le's.
LookupTimesOut ==
    /\ Waiting /\ ~dialed
    /\ Fail("timeout", "timeout")
    /\ dialed' = TRUE
    /\ UNCHANGED <<req, step, held, unclean, answer, time, report>>

ServerFails ==
    \/ LookupTimesOut
    \/ \E why \in {"server", "bytes"} : WaitFails(why)
    \/ req.engine = "mysql" /\ pc = "open" /\ Call \in {"statement", "rows"}
       /\ WaitFails("metadata")

\* deadlineConn caps every socket deadline at the adapter's own, and each driver
\* watches the context; either may be noticed first.
Interrupted ==
    \/ clock > 0 /\ WaitFails("timeout")
    \/ innerErr # None /\ WaitFails(innerErr)

\* builder: column count and encoded header.
BuildColumns ==
    /\ pc = "columns"
    /\ IF answer.wide
       THEN Fail("limit", "limit")
       ELSE pc' = "rows" /\ UNCHANGED <<errors, kept>>
    /\ UNCHANGED <<req, step, held, unclean, dialed, answer, time, report>>

AllRead == Len(kept) = Len(Sent(req, answer))

\* resultBuilder.add of the next row.
Add(row) ==
    IF Len(kept) >= MaxRows     THEN Fail("limit", "limit")
    ELSE IF row = "garbled"     THEN Fail("query", "query")
    ELSE IF Size(Append(kept, row)) > MaxResult THEN Fail("limit", "limit")
    ELSE kept' = Append(kept, row) /\ UNCHANGED <<errors, pc>>

ReadRow ==
    /\ pc = "rows" /\ ~AllRead
    /\ Add(Sent(req, answer)[Len(kept) + 1])
    /\ UNCHANGED <<req, step, held, unclean, dialed, answer, time, report>>

\* Next returned false and Err returned nil; MySQL also refuses another result
\* set and closes the rows itself, so that its deferred close is a no-op.
LastRow ==
    /\ pc = "rows" /\ AllRead
    /\ IF req.engine # "mysql"
       THEN pc' = "close" /\ UNCHANGED <<held, unclean, errors, kept>>
       ELSE IF answer.more
       THEN Fail("query", "query") /\ UNCHANGED <<held, unclean>>
       ELSE /\ held' = SubSeq(held, 1, Len(held) - 1)
            /\ \/ pc' = "close" /\ UNCHANGED <<unclean, errors, kept>>
               \/ Fail("server", "server") /\ unclean' = TRUE
    /\ UNCHANGED <<req, step, dialed, answer, time, report>>

-----------------------------------------------------------------------------
(* Unwinding *)

\* A failed close turns success into ErrQuery and never replaces an error; the
\* Close of pgx rows reports nothing and a rolled-back MySQL transaction
\* (ErrTxDone) counts as closed.
Close ==
    /\ pc = "close" /\ held # <<>>
    /\ held' = SubSeq(held, 1, Len(held) - 1)
    /\ \/ UNCHANGED <<unclean, errors, kept, pc>>
       \/ /\ ~(req.engine = "postgres" /\ held[Len(held)] = "rows")
          /\ unclean' = TRUE
          /\ IF err = None THEN Fail("query", "close")
             ELSE UNCHANGED <<errors, kept, pc>>
    /\ UNCHANGED <<req, step, dialed, answer, time, report>>

\* A slip: the context is asked before the limit.
SlipContextFirst(e) ==
    IF outerErr # None THEN outerErr
    ELSE IF e \in {"config", "limit"} THEN e
    ELSE IF clock = 2 \/ e = "timeout" THEN "deadline"
    ELSE IF e \in {"canceled", "deadline"} THEN e
    ELSE "query"

\* safeError: validation and limits first, then the command's context, its
\* deadline even when unannounced, and last what the adapter itself returned.
SafeError(e) ==
    IF e \in {"config", "limit"} THEN e
    ELSE IF outerErr # None THEN outerErr
    ELSE IF clock = 2 \/ e = "timeout" THEN "deadline"
    ELSE IF e \in {"canceled", "deadline"} THEN e
    ELSE "query"

\* mysqlQuery names the metadata limit; Query and Schema check the command's
\* context once more, and finish the size, before they hand out a result.
Report ==
    /\ pc = "close" /\ held = <<>>
    /\ IF err # None THEN Finish(SafeError(IF err = "metadata" THEN "limit" ELSE err))
       ELSE IF outerErr # None THEN Finish(outerErr)
       ELSE IF Size(kept) > MaxResult THEN Finish("limit")
       ELSE pc' = "write" /\ UNCHANGED report
    /\ UNCHANGED <<req, step, held, unclean, dialed, data, errors, time>>

\* writeData: the text may be longer than the result and be refused, or stdout
\* may not take it.  Nothing looks at the context any more.
Write ==
    /\ pc = "write"
    /\ \E t \in {None, "output"} : Finish(t)
    /\ UNCHANGED <<req, step, held, unclean, dialed, data, errors, time>>

-----------------------------------------------------------------------------
(* Time: an instant passes before the timer that announces it has run.       *)
Tick ==
    /\ clock < 2 /\ pc \notin {"input", "done"}
    /\ clock' = IF req.short THEN 2 ELSE clock + 1
    /\ UNCHANGED <<req, control, data, errors, innerErr, outerErr, report>>

InnerDone ==
    /\ innerErr = None /\ pc # "done"
    /\ \/ outerErr # None /\ innerErr' = outerErr
       \/ clock > 0 /\ ~req.short /\ innerErr' = "deadline"
    /\ UNCHANGED <<req, control, data, errors, clock, outerErr, report>>

OuterDone ==
    /\ outerErr = None /\ clock = 2 /\ pc # "done"
    /\ outerErr' = "deadline"
    /\ UNCHANGED <<req, control, data, errors, clock, innerErr, report>>

\* SIGINT or SIGTERM; the handler is installed once stdin has been read.
Signal ==
    /\ outerErr = None /\ pc \notin {"input", "done"}
    /\ outerErr' = "canceled"
    /\ UNCHANGED <<req, control, data, errors, clock, innerErr, report>>

Work  == \/ CheckInput \/ OpenLocal \/ BuildColumns \/ Close \/ Report
Next  == \/ RefuseTarget \/ ReadStdin \/ Work \/ Write
         \/ OpenRemote \/ ReadRow \/ LastRow \/ ServerFails
         \/ Interrupted \/ Tick \/ InnerDone \/ OuterDone \/ Signal

Spec == Init /\ [][Next]_vars

\* The program's own steps are scheduled and time passes; a call that waits for
\* the server returns once its deadline has passed; the server need never answer.
\* Nobody owes the end of stdin, and nobody need take what is written to stdout.
FairSpec ==
    /\ Spec
    /\ WF_vars((RefuseTarget \/ ReadStdin) /\ req.action = "schema")
    /\ WF_vars(Work)
    /\ WF_vars((ReadRow \/ LastRow) /\ req.engine = "redis")
    /\ WF_vars(Interrupted)
    /\ WF_vars(Tick)

-----------------------------------------------------------------------------
StateOK ==
    /\ req \in Requests
    /\ pc \in {"input", "check", "open", "columns", "rows", "close", "write", "done"}
    /\ step \in 1..8
    /\ held \in Seq(Closeable \cup {"rows"})
    /\ kept \in Seq(RowKinds \ {"garbled"})
    /\ {err, raised, told} \subseteq Errors \cup {None}
    /\ clock \in 0..2
    /\ innerErr \in {None, "canceled", "deadline"}
    /\ outerErr \in {None, "canceled", "deadline"}
    /\ exit \in {None, 0, 1, 2, 124}

AnswerOK == answer \in Answers(req)
FlagsOK  == unclean \in BOOLEAN /\ dialed \in BOOLEAN

TypeOK == StateOK /\ AnswerOK /\ FlagsOK

\* However the run ends, the builder stayed inside its limits and every resource
\* the adapter opened has had its deferred close (sql.go, mongo.go, redis.go).
NothingStaysOpen ==
    /\ Len(kept) <= MaxRows /\ Size(kept) <= MaxResult
    /\ pc \in {"write", "done"} => held = <<>>
    /\ (exit = None) <=> (pc # "done")

\* What is known at each point of the adapter: nothing is open and nobody was
\* dialled before the target and the text are checked, the next call is one of
\* the plan, and no row is kept before the first one is read.
StageInv ==
    /\ pc \in {"input", "check"} => held = <<>> /\ step = 1
    /\ pc \in {"input", "check"} \/ (pc = "open" /\ step = 1) => ~dialed
    /\ pc = "open" => step \in DOMAIN Plan(req)
    /\ pc \notin {"rows", "close", "write", "done"} => kept = <<>>
    /\ pc \notin {"close", "done"} => err = None
    /\ err = None => raised = None /\ ~unclean

\* The rows kept are the first ones of what was sent, all of them once reading
\* has ended without an error.
RowsInv ==
    /\ pc = "rows" =>
        /\ ~answer.wide
        /\ Len(kept) <= Len(Sent(req, answer))
        /\ \A i \in 1..Len(kept) : kept[i] = Sent(req, answer)[i]
    /\ (pc = "close" /\ err = None) \/ pc = "write" \/ exit = 0 =>
        err = None /\ kept = Sent(req, answer) /\ ~answer.wide /\ ~answer.more

\* Where each error comes from.
ErrorInv ==
    /\ innerErr = "deadline" => clock > 0
    /\ outerErr = "deadline" => clock = 2
    /\ innerErr = "canceled" => outerErr = "canceled"
    /\ err = "config"   => ~dialed
    /\ err = "timeout"  => raised = "timeout"
    /\ err = "deadline" => raised = "deadline" /\ clock > 0
    /\ err = "canceled" => outerErr = "canceled"
    /\ raised \in {"limit", "metadata"} => err = raised
    /\ raised = "bytes" => err = "limit" \/ (err = "server" /\ req.engine = "mysql")
    /\ pc # "done" => told = None

QueryInv == TypeOK /\ NothingStaysOpen /\ StageInv /\ RowsInv /\ ErrorInv

\* query.go:51-52, "No result is returned when a row/byte limit, cancellation,
\* driver error, or cleanup failure occurs": what le prints is everything the
\* server holds, within both limits, from a session that closed cleanly.
AnswerIsWhole ==
    exit = 0 =>
        /\ kept = answer.rows
        /\ Len(answer.rows) <= MaxRows /\ Size(answer.rows) <= MaxResult
        /\ ~answer.wide /\ ~answer.more
        /\ raised = None /\ ~unclean

\* A usage exit touched no server.  Exit 124 follows --timeout, or a timeout that
\* ended the adapter before it: its own five seconds or the name lookup's.  A
\* limit that was reached is told as the limit, whatever has happened since; only
\* the byte budget of a MySQL connection may be told otherwise, and then not as
\* success or a usage error.  Only a signal is reported as a cancellation
\* (safeError, databaseError).
ErrorSaysWhy ==
    /\ exit = 2 => ~dialed
    /\ exit = 124 => clock = 2 \/ raised \in {"timeout", "deadline"}
    /\ exit # None /\ raised \in {"limit", "metadata"} => told = "limit"
    /\ exit # None /\ raised = "bytes" =>
           told = "limit" \/ (req.engine = "mysql" /\ exit \notin {0, 2})
    /\ told = "canceled" => outerErr = "canceled"

\* query.go:125-127, "Preserve timeout identity instead of turning this race
\* into a generic query failure (and the wrong script-facing exit code)": a
\* socket deadline that fired is exit 124, unless a signal came as well.
TimeoutKeepsIdentity ==
    exit # None /\ raised = "timeout" => exit = 124 \/ outerErr = "canceled"

\* Once stdin is read, a server that never answers, or stops in the middle of
\* its rows, cannot hold the command: every read ends at the adapter's deadline
\* and is unwound, and what is left is at most to write the result.
QueryReturns ==
    req.action = "schema" \/ pc # "input" ~> pc \in {"write", "done"} /\ held = <<>>

=============================================================================
