# Verification of le

`le` lists the processes that listen on this machine, says what they are, and stops or restarts them on request: from
the command line, from a terminal UI, and through a small HTTP server (`le companion`) that a desktop app talks to. It
also reads remote systems (Prometheus, NetBox, four kinds of databases) and makes database backups by running `pg_dump`
or `mysqldump`. It is one Go program without storage of its own. What is hard about it is that everything it looks at
moves while it looks: processes exit and give their PIDs away, scans come back late, clients hang up and ask again,
inventories are edited between two pages, subprocesses leave helpers behind, servers stop in the middle of their rows.

This directory holds TLA+ models of those parts, TLC configurations that check them on small instances, and proofs of
the main results for every value of the constants. `PROJECT.json` is the index: components, runs, the lines of source
that every definition stands for, known hazards, mutants, findings and theorems. All paths below are relative to the
repository.

    tlc -workers 2 -config MCStopGuard.cfg MCStopGuard     # one run
    tlapm CompanionServerProofs.tla                        # one module of proofs

## 1. Inventory

| Component | Code | State it keeps | Operations | Modelled in |
|---|---|---|---|---|
| companion engine | `companion/server.go`, `companion/run_unix.go` | work slot, closing flag, one retained snapshot and its timer, receipts | `POST /v1/snapshot`, `POST /v1/action`, timer callback, purge, `stopAndWait`, `serveSession`; `LocalEngine` | CompanionServer, ActionLedger, CompanionStop |
| companion session | `companion/run_unix.go` | connection file on disk | `writeDescriptor`, `serveSession`, `retire` | CompanionSession |
| companion gate | `companion/server.go` | none | `ServeHTTP`, `decodeBody` | as "a request arrives" only |
| stop guard | `kill/kill.go`, `kill/context.go`, `kill/term_unix.go` | none: a row and what `ps`, `brew` and `launchctl` say now | `Stop`, `Restart`, `StopContext`, `RestartContext` | StopGuard, CompanionStop |
| listener scan | `scan/scan.go`, `scan/scan_unix.go` | none: a row is put together from `lsof` and two `ps` calls | `Scan`, `ScanContext` | StopGuard (one row), ScanScheduler (when) |
| scheme cache | `scan/scheme.go` | a map of ports with time stamps, a generation | `Scheme`, `CachedScheme`, `refreshScheme` | SchemeCache |
| scan scheduling of the TUI | `ui/ui.go` | slot, active and pending request, pause, spinner | tick, `r`, pause, resume, stop result, scan result | ScanScheduler |
| table of the TUI | `ui/ui.go`, `ui/group.go`, `ui/panefocus.go`, `ui/favorites.go` | lines, numeric cursor, lost selection, folding, pins, pane focus, dialogs with the row they are for | keys, mouse, refresh | TableSelection |
| bounded subprocesses | `internal/boundedexec/*` | one command: pipe, writer, its own context | `Output`, `CombinedOutput`, `Stream` | BoundedCommand |
| database backup | `datacenter/database/backup.go` | the file | `Backup` | BoundedCommand (mode "stream") |
| read API client | `internal/readapi/client.go` | body budget | `GetJSON` | Datacenter |
| inventory, metrics, datacenter command | `datacenter/inventory`, `datacenter/metrics`, `cmd/datacenter.go` | pages, two answers, rows | `fleet`, `gpu`, `inventory`, `summary` | Datacenter, MetricsJoin |
| database queries | `datacenter/database/{query,sql,redis,mongo,wire}.go`, `cmd/database.go` | the resources that are open, a bounded result, two contexts | `query`, `schema` | DatabaseQuery |
| profiles | `intel/*` | none | `Make`, `Detect`, launchd and Homebrew lookups | Profiles, StopCommand, StopGuard |
| stopping from the command line | `cmd/cmd.go`, `cmd/exit.go`, `tools/exit_open.go` | the rows of one scan, what became of each | `stop`, `stop --dir`, `--dry-run`, `restart`, `watch` | StopCommand |
| port tools | `tools/tools.go`, `portrange.go`, `forward.go`, `keepawake.go`, `exit_open.go` | sockets, a child, a timer, a signal channel, the backoff | `hold`, `wait`, `ready`, `open`, `forward`, `keep-awake` | PortTools |
| other tools, other commands, configuration | `tools`, `cmd`, `config` | none that lasts | one function or command each | not modelled |
| parsing, rendering, Windows, vendored drivers | `scan/netstat.go`, `ui/theme.go`, `*_windows.go`, `third_party` | none | text in, text out | not modelled |

**How they interact.** The command line and the TUI call the scan and the legacy stop seam (`Stop`, `Restart`) directly;
profiles are made for every row of a scan, from lists that are read after it. The companion calls the scan and the
context seam (`StopContext`, `RestartContext`) with the context of its HTTP request, under its work slot. Its scans and
seams, and the backups, run their subprocesses through `internal/boundedexec`; the scans and stops of the TUI and of the
command line run theirs without a time limit. The TUI reads the scheme cache on every repaint. The datacenter command
and the database queries share nothing with the others but the exit codes.

**What is hard, and what makes each part correct.**

- *Companion.* Handlers run concurrently; the lock is released while the engine works; requests are retried; timers
  fire late; shutdown races all of it. Correct means: at most one action for a snapshot, one request in the engine,
  an outcome that is true and never contradicted on replay, and a shutdown after which nothing runs.
- *Companion session.* Signals come at any point, the user may touch the connection file, the process may be killed.
  Correct means: a cancelled session ends, nothing works any more when the file is retired, and only the session's own
  file is deleted.
- *Stopping from the command line.* One argument may address many rows, the stop of one may take others with it, launchd
  restarts what it keeps, and the lists the profiles come from are older than the attempt. Correct means: nobody else is
  hit, exit 0 is true of every row, what is stopped stays down, and a preview promises what a stop would do.
- *Port tools.* Invocations see each other's sockets; a look at a port takes it for a moment; signals, deadlines and
  children's exits are ready together. Correct means: everything taken is given back, an answer or a timeout is true,
  and a caught signal ends the command.
- *Stop guard.* Between the scan, the checks and the signal, the PID or the launchd label may change hands. Correct
  means: no process that was there at the check is hit unless it is the one that was checked, and "refused" means
  nothing was attempted.
- *Scheme cache.* Probes overlap, end in any order and outlive a reset. Correct means: nothing obsolete is stored,
  probes do not pile up, and links become right again after a server has changed.
- *Scan scheduling.* A pause leaves a scan running whose result must be dropped but whose slot is still taken. Correct
  means: one scan at a time, a frozen view stays frozen, a request is not lost.
- *Table.* Lines are rebuilt under a numeric cursor. Correct means: the highlight stays on its process or goes, and a
  dialog acts on the row it was opened for.
- *Bounded subprocesses.* Deadline, output limit, exit, leftover helper, full disk come in any order. Correct means:
  what is returned without an error is whole, nothing is left running, and the caller always gets control back.
- *Datacenter.* Pages of a list that is edited, two answers that do not match, a partial summary. Correct means: no
  mixed cohort, no row called fresh without evidence, no success with a view missing.
- *Database queries.* Two deadlines and a signal, limits on rows, bytes and frames, and up to five closes that may each
  fail, around drivers that rewrite errors. Correct means: what is printed is all that the server holds, every resource
  is closed, the exit code says why, and a silent server cannot hold the command.

## 2. Modules

| Module | What it is |
|---|---|
| `ActionLedger` | abstract: what the companion promises about actions, with no handlers, locks, timers or receipts |
| `CompanionServer` | detailed: implements the ledger (`ImplementsLedger`, through `INSTANCE ... WITH`) |
| `CompanionSession` | one run of `le companion`: extends `CompanionServer` by the two ends of its session |
| `CompanionStop` | composition: `CompanionServer` with one of its actions traced into `StopGuard` |
| `CompanionServerProofs` | the proofs of the server, of the session and of the composition |
| `StopGuard`, `StopGuardProofs` | one attempt, and the engine that the companion calls, against an operating system that goes on |
| `Profiles` | pure operators: the rules of `intel.Make` |
| `StopCommand`, `StopCommandProofs` | one invocation of stop, preview, restart or watch; extends `Profiles` |
| `PortTools`, `PortToolsProofs` | several invocations of the tools that hold a port, wait for one or look after a child |
| `SchemeCache` | one entry of the scheme cache, its callers and its background probes |
| `ScanScheduler` | the event loop's part of scanning |
| `TableSelection` | selection and dialogs of the table |
| `TuiProofs` | the proofs of what the TUI keeps: scheme cache, scanning, table |
| `BoundedCommand`, `BoundedCommandProofs` | a subprocess and the backup made from it |
| `MetricsJoin` | pure operators: the join of two Prometheus answers |
| `Datacenter`, `DatacenterProofs` | the datacenter command; extends `MetricsJoin` |
| `DatabaseQuery`, `DatabaseQueryProofs` | one database query through the adapter of any of the four engines |
| `MCCompanionServer`, `MCCompanionSession`, `MCCompanionStop`, `MCStopGuard`, `MCStopCommand`, `MCPortTools`, `MCTableSelection`, `MCDatacenter` | constants and symmetry for TLC |

Definitions called `Slip...` are not part of a specification: each is a plausible mistake in the operator that follows
it, and stands for one of the mutants of `PROJECT.json`, under which the property named there fails.

### 2.1 CompanionServer

The variables above the first rule are the fields of `Server`: `slot` is who has sent into the channel `work`
(`claimWork` never waits, `stopAndWait` does), `closing`, `snapshot` (ID 0 is nil), `armed` and `due` are the
`time.Timer`, `firing` are callbacks that have been started and wait for the mutex (`Stop` does not call them back),
`receipts`. Below it are the locals of each handler: where it is, its request (receipt ID, snapshot, row, operation:
what a replay is compared by), whether its context is done, its verdict, and the snapshot it has encoded but not yet
stored. `life` and `cancelled` are `serveSession`.

One action is what happens under the mutex in one go. `serveSnapshot` is claim, clear, collect, publish, release;
`serveAction` is replay or claim and consume under the lock, then the engine *outside* of it, then record, then release.
A client may hang up at any of these points, and an answer may be lost. The engine is seen through its contract: it may
take effect while it runs; "ok" means that it did, "refused" that it did not, anything else says nothing. `EngineReturn`
is that contract in front of `TakeResult`, which is all that the server does with an answer. `CompanionStop` (2.7) shows
that the engine which the server really has keeps the contract.

Observations that the code does not keep: `runs` (actions started on each snapshot), `touched` (snapshots whose
action took effect), `decided` and `told`.

`CompanionSession` puts that server between the two ends of `serveSession`. `phase` is where the command is: the
connection file is created exclusively and written (`writeDescriptor`, with its clean-up when a step fails), the server
serves and drains, and `retire` looks, opens, compares and unlinks. `entry` is what the file's name refers to (nothing,
the file that was written, another one), `edited` whether its modification time has changed, and the observation
`gaveUp` whether a call of the file system has failed: `retire` has no result and stops at the first such call, so that
the file stays and nobody is told. Until the server is drained
nothing looks at the file, so the user acts on it from then on; between any two steps of `retire` he may edit, remove or
replace it. `Exit` of the server happens only as the last of the deferred calls. `SessionRunsServer` proves that every
behaviour of the session is one of `CompanionServer`, so what is proved of the server holds in the session.

### 2.2 StopGuard

The operating system is a list of all processes ever born (`procs`: PID, start second, command line), which of them
live, and which ones launchd runs under a label. They are born, exit, reuse PIDs and move between labels between any
two steps of le. A row is captured by `lsof`, then `ps` for start time and then for command lines, each of which may
miss the process or see another one. An attempt then goes the way of `Stop`/`Restart` (seam "legacy") or
`StopContext`/`RestartContext` (seam "context"): refuse outright, identity check by one `ps`, route by kind, Homebrew
and launchd lookups, signal or manager. The context may end at every one of these points. `legacyToo` follows what
`Stop` would have decided on the same reads, so that the two seams can be compared.

The granularity of identities is that of the code: `lstart` is in whole seconds, and a row without a full command line
falls back to lsof's short name. Two processes of one second are the same to `stillSame`, and so they are to the
property.

`ContextSeamIsStrict` says where "the stricter companion action seam" (`kill/context.go:33`) never goes further than
`Stop`. It leaves out one case: for a launchd label that is listed more than once `Stop` refuses (`LaunchdLabelPID`),
while `StopContext` takes the first PID listed (`LaunchdLabelPIDContext`, `intel/context.go:60`).

### 2.2a Profiles, StopCommand

`Profiles` is the `switch` of `intel.Make` as a sequence of rules, of which the first that applies counts, and then the
override by launchd. A command line is seen through marks, one for each group of words that the rules search for, and a
directory through marks of its own, because some rules search the command only ("Database identity comes from the
BINARY, not the project folder"). Wording, risk, confidence, and which text carries which mark are left out.

`StopCommand` is one invocation: scan, `Detect`, `Make` for every row, the rows that the argument addresses
(`matchRows`, `matchDir`), and then `kill.Stop` or `kill.Restart` for one row after the other (`todo`, `row`, `stopped`,
`failed`), or the preview, or `WatchPID`. Processes exit and are born between any two steps; launchd starts what it
keeps under a label that is loaded and has no process; `bootout` and `brew services stop` unload a label, a plain TERM
does not. An attempt has the same steps as in `StopGuard`. What is abstracted from it: identities are the order of birth
(StopGuard treats missing and coarse start times), and labels have at most one process (StopGuard treats several).

Every way in which a command may fail is there (scan, `brew` or `launchctl` not run, `ps` not run, a manager that fails
after or before it has acted, `kill(2)`), because exit codes are about them. `detected` and `known` are observations:
whether `launchctl` answered when the profiles were made, and which processes had been born when the row was checked.

Not modelled: `watch-all` (it prints the difference of two scans and keeps nothing else), `list`, and Docker rows, which
`Make` no longer produces.

### 2.2b PortTools

Several invocations of le share the ports of 127.0.0.1 with servers. `bound` says who is bound to each port. An
invocation in `refused` gets no socket from the kernel for a reason of its own (a privileged port, no descriptor left),
which may begin or end at any time (`Refusal`); `Free` does not tell that from a port that is taken. `Free` is two
steps, since it binds the port and closes it again: another invocation may look in between, and a server that starts
then fails to bind. `hold` takes the ports of its range one after the other and catches signals only afterwards; `wait`,
`ready` and `open` look, look again, and then at every tick until the time has come, when they look once more; `forward`
runs one kubectl after another with a backoff; `keep-awake` runs caffeinate. `select` takes either of two channels that
are ready.

A signal that is not caught ends the invocation, and the kernel closes its sockets; a child dies with it only if the
signal came from the terminal, so both are possible. `wanted` is an observation: the backoff as `forward.go:34-36`
describes it, which `backoff` is compared with. `met` and `steady` are observations: whether what a waiter waits for has
been the case since it began, and since before its time had come.

Not modelled: listeners on `::1` only, which `Free` does not see; accepted connections of `hold`; a second signal.

### 2.3 SchemeCache, ScanScheduler, TableSelection

`SchemeCache` has one port. An entry carries, besides scheme and age, what it rests on (a probe, a guess for a missing
entry, an entry that had gone stale) and the generation of its writer. A tick is longer than `schemeProbeTimeout`, so a
refresh lasts over at most one tick.

`ScanScheduler` has the fields of the Bubble Tea model under their names. Scan `n` is the n-th one started; `view >= n`
reads "what is shown is not older than scan n". Commands run and deliver in their own time. Ticks, keys and stops are
events, counted by `MaxEvents`. A scan need not end: `running` may keep it for ever.

`TableSelection` has the lines (`items`: headers and rows), the numeric cursor and `selectionLost`, folding, pins, the
filter, the pane's focus, and the confirm dialog, action menu and copy picker with the row each was opened for.
`picked` is an observation: the row that was under the key or pointer that opened what is open. What is not there:
scrolling (any line may be clicked), the help overlay, quitting, flash messages, rows of the kind docker, and the row
that a closed dialog still remembers.

### 2.4 BoundedCommand

A command and one helper in its process group write units into a pipe; the copying goroutine moves them into the
buffer or the file up to the limit; the watcher kills the group when the context ends; the caller waits, takes the
watcher's verdict, gives the copier `WaitDelay`, retires the group, and decides. What `exec.Cmd` does is modelled from
how `exec.go` sets it up (`Cancel`, `WaitDelay`, process group). In mode "stream" the caller is `Backup`: create, sync,
close, each of which may fail.

Assumed of the outside: a command that exits with status 0 has written all that was its own to write; a helper ends
when it is done or killed; `SIGKILL` works; a process group number is not reused within the call.

### 2.5 MetricsJoin, Datacenter

`MetricsJoin` is `assemble`: rows from the sources that report a field, freshness from the stamps of every raw series
behind every field, worst of all sources. Values themselves do not matter and are left out.

`Datacenter` runs the views of one command in order under one deadline. A view begins with a new client (a budget of
units), asks, and ends as data, as a configuration error, as a deadline or as a failure. NetBox is honest but edited:
devices are added, removed and moved between pages (`churn` counts the additions, removals and moves that have been
made, at most `MaxChurn` in all; `moments` are the sets there have been). Prometheus answers anything that parses. Left
out: the client's gate and `Close` (one goroutine makes all requests), URL checks, label filters, counts by site and
rack, demo data.

### 2.6 DatabaseQuery

One `le db query` or `le db schema`. The four adapters have one shape: a list of calls (`Plan`) that open resources
under a context of five seconds, one row after another into a `resultBuilder` that refuses too many and too large, then
the deferred closes from the last to the first. `held` is what still has a deferred close. Which calls wait for the
server (`Waiting`), which close can fail and which errors a driver rewrites (`Rewrites`) is what differs. `answer` is
all that the server holds for the request; `Sent` is what it hands out when the adapter asks for one row more than the
limit. `Report` is `safeError`, the last look at the context in `Query`, and `finish`; `Write` is `writeData`,
which may find the text too long or standard output closed, and the exit code follows from either. Before all that the
command reads its query from stdin (`ReadStdin`), for as long as it takes.

Time has three instants: before, past the adapter's deadline, past `--timeout`; a request with `short` goes from the
first to the last. An instant passes before the timer that announces it has run (`InnerDone`, `OuterDone`), and a socket
deadline may be noticed before either; that is the race that `safeError` is about. `raised` is an observation: what
went wrong first, before a driver rewrote it; "bytes" there is the byte budget of a connection, which the MySQL driver
rewrites on an open connection like every failed read.

Drivers and servers are external: each call succeeds, fails, breaks a limit or hangs. Calls that do not wait may fail
too (`Refusals`): the CA file may be unusable or too long, and `mongo.Connect` may refuse its options. The budget of
bytes on the wire and the frame limits (`wire.go`) are one of the ways in which a call ends. Left out: demo data,
addresses and TLS, how values are turned into text, the shapes of Redis replies, the dialects that `CheckInput` accepts.

### 2.7 CompanionStop

`CompanionServer` and `StopGuard` side by side, with the machine of the second under the first. One row of one snapshot
(`TracedSnap`, `TracedRow`) is followed all the way: while a handler collects that snapshot, `StopGuard` puts the row
together from lsof and ps; while a handler is inside `LocalEngine.Action` for it, the context seam runs, and `kill(2)`,
brew or launchctl is one step of both modules. The answer is whatever `StopGuard` says (`Reported`), handed to
`TakeResult` without the contract: an error by which the seam broke it would show as a step that `CompanionServer` does
not have. Processes are born, exit and reuse PIDs all the time. The seam looks at its context some time after the
context of the request has ended (`EngineNotices`).

Which row is traced is a constant, so what is proved of it holds of every row of every snapshot. The other actions are
those of `CompanionServer` and keep its contract. Of the scans that may become the traced snapshot only one that
succeeds is followed; scans that fail leave nothing behind. `StopGuard` is instantiated through `StopGuardProofs`, which
adds theorems and no definition to the model.

## 3. Runs

Sizes are distinct states, up to the symmetry of interchangeable handlers, requests, PIDs or sources in the runs that
check safety only. Passing runs explore their bounds completely.

| Run | Question | Bounds | States |
|---|---|---|---|
| `companion_server` | Is an action run at most once, told truthfully, and is shutdown final, whatever clients, timers and purges do? Does the server implement the ledger? | 2 handlers, 2 request IDs, 1 row, 2 operations, 2 snapshots, 1 receipt, 1 tick | 653,172 |
| `companion_session` | Do shutdown, actions and expiry come to an end, wherever in the session the signal comes? Does retire delete only its own file? | 2 handlers, 1 request ID, 1 operation, 1 snapshot, 1 receipt, 1 tick | 124,517 |
| `stop_guard` | Can a stop hit a process it did not check? Is a refusal a refusal? Is the context seam at least as strict where it is meant to be? | 2 PIDs, 2 command lines, 1 label, 3 processes, 2 seconds | 1.83 M |
| `stop_command` | Does a stop, restart, preview or watch hit or promise or report anything that it should not, with several rows and a supervisor at work? | 2 PIDs, 2 ports, 2 processes at the start, 3 in all, 2 labels, a range, a number that is a port and a PID, a directory | 1.35 M |
| `scheme_cache` | Do overlapping probes leave something obsolete or wrong? | 1 caller, 2 probers, TTL 2, 1 reset | 61,158 |
| `scan_scheduler` | Can events in any order free the slot, thaw the view or lose a request? | 5 events | 27,104 |
| `table_selection` | Can the highlight, a dialog or the pane end up on another process? | 5 different scans, 1 pin | 323,880 |
| `bounded_command` | Can a prefix pass for the whole, or anything outlive the call, or the call not end? | up to 4 units written, limit 3, pipe 2 | 22,242 |
| `datacenter` | What can an edited inventory and half-matching answers make le publish? | pages of 2, at most 4 devices, 6 identities, 2 edits in all, 2 series, 2 sources, 2 GPUs | 4.36 M |
| `database_query` | Can a part of the rows pass for the answer, a close be skipped, an exit code lie, or a server hold the command? | at most 2 rows and 4 units of text, servers with up to 4 rows | 1.12 M |
| `port_tools` | Is anything left behind, an answer or a timeout untrue, a caught signal or a time limit without effect? | 2 invocations, one of any tool, 2 ports, backoff 1, 2, 3 | 95,824 |
| `table_grouping` | the finding of section 4 | as `table_selection` | stops at the counterexample |

Why the bounds are enough to be interesting:

- *Two* handlers give every pair of concurrent requests: scan against action, action against its own replay, either
  against shutdown. Two snapshots are needed for a timer that fires late for the first one while the second is kept.
  One receipt and two request IDs reach the limit while a receipt is pending or young, so that the second request is
  refused for want of room, and the purge of an old one; two operations let an ID be used again with other parameters.
  `SnapshotTTL` and `ReceiptTTL` of one tick let both expire. What happens with more is proved.
- Three processes and two PIDs allow the PID of a row to be handed on once, and a label to move, in the same behaviour.
  Two seconds distinguish "born in the same second" from "born later". Two command lines, of which one is the bare short
  name, exercise the fallback comparison.
- The session needs one snapshot and one operation less than the server, because it asks only whether things end. Both
  handlers may be at work when it is cancelled.
- Three processes let launchd start one anew after a stop, or a PID of the sweep go to a stranger, while the other row
  has still to be tried. One argument is a port of one program and the PID of another. The programs are a formula's
  service, the same binary run by hand, a supervised agent, a helper of Docker and a plain server.
- One invocation runs any of the six tools; the other one holds both ports or waits until the first is served. So each
  tool meets a holder, another look at its port, and the servers that take and give back both ports.
  The ladder has a rung that doubling does not meet exactly, so that the cap shows.
- Two background probes and one reset are the least for a late commit into a new generation; a third probe could only
  repeat what the second does.
- Five events are the least for "scan, pause during it, `r`, resume, stop" with all results still out. `SchedulerInv` is
  proved for any number.
- The five scans of `MCTableSelection` hold: a process that goes and comes back, a PID that changes hands, an unknown
  start time with a full and with a short command, and a group that starts folded.
- The command may write less than the limit, exactly the limit, and one unit more, and more than the pipe holds, so
  that both sides block. `CommandInv` is proved for any sizes.
- Two pages and four devices are the least for a device that moves over a page boundary; one identity more than the
  maximum fills the list beyond it.
- A server may hold one row more than what `LIMIT` asks for, so that a cut answer differs from a full one; four units
  let the row limit be reached before the size and the size before the row limit.

The composition of 2.7 is a matter of proof: its three properties are theorems (section 5), and `PROJECT.json` lists no
run for it. `MCCompanionStop.cfg` is kept for whoever changes one of the two modules: it checks `ToldOfTheProcess`,
`EngineKeepsContract` and `NoLateSignal` with 2 handlers, 1 request ID, 2 rows, 1 snapshot, 1 PID, 1 label and 2
processes (1,452,933 states, some five minutes), and they hold. The second handler is a rival request, a replay or the
next scan; the second row lets an untraced action use the slot first; the second process reuses the PID of the first at
any point. Clocks stand still: what time adds to either side is in the runs of the two parts, and in the proofs. The
context seam does not read command lines, so one is enough.

    tlc -workers 2 -config MCCompanionStop.cfg MCCompanionStop

`CHECK_DEADLOCK FALSE` is set where the program really stops: a server that has exited, an attempt that is over, a
command that is done, a table at its bound. `SchemeCache` never stops and is checked for deadlock.

**Fairness.** Liveness is checked under weak fairness of steps that the code or the runtime owes:

- *CompanionSession*: the command's own steps are taken, and of the server: a handler that has claimed the slot goes on
  to its release (the engine's own work is bounded by the timeouts in `boundedexec`), timers fire and their callbacks
  get the mutex, and `serveSession` goes on once cancelled. Nothing is assumed of clients: no request has to arrive, no
  answer has to be read.
- *PortTools*: le's own steps are taken, tickers and timers fire, and a killed child is gone. For the two `select`s that
  may find two channels ready (deadline against tick, signal against the child's exit) fairness is strong: Go picks
  among the ready ones with equal probability, so none is passed over for ever. Servers, users, kubectl and caffeinate
  owe nothing.
- *SchemeCache*: probes end (`schemeProbeTimeout`), time passes, and the TUI repaints. `Scheme` is never owed.
- *ScanScheduler*: messages of commands that have ended are delivered, and the program starts. That a scan ends is *not*
  assumed: the TUI runs `lsof` and `brew` without a time limit. Instead both liveness properties have the premise
  `NoScanHangs` (again and again no scan is running). Neither keys nor ticks are owed, so a refresh is not answered
  merely because another one comes later.
- *BoundedCommand*: the deadline comes, goroutines run, `WaitDelay` passes, and le's own reads and writes return. The
  command and its helper owe nothing: they may never write, never exit.
- *DatabaseQuery*: once stdin has been read le's own steps run, time passes, and a call that waits returns some time
  after its deadline, which is what the socket deadlines are set for. The server owes nothing: it may stop before the
  first row or between two. Nor do stdin, which is read up to its end however long that takes, and standard output,
  which may block: `QueryReturns` begins after the one and ends before the other.

**Properties.** Each is stated above its definition, with the sentence of the documentation or the piece of code it
comes from. The ones that took most steps to get right:

- `ReplayConsistent`, `OutcomeTruthful` (CompanionServer): all clients that ever hear a final outcome of one action
  hear the same, and it is what happened, also for answers read after the receipt has gone.
- `SnapshotLossJustified`: a late timer callback of an older snapshot never drops the newer one.
- `ImplementsLedger`: the refinement; it also forbids acting after an outcome has been settled.
- `OnlyVerifiedVictims` (StopGuard): of the processes alive at the identity check, only the one that passed can be hit.
  Between the check and `kill(2)` a *new* process may take the PID: that window cannot be closed by a program that
  signals by PID, and the property says exactly that it is the only one.
- `EngineKeepsContract` (CompanionStop, proved): the whole specification `CompanionServer!Spec` as a property. What that
  module assumes of its engine is what `actionContext` and everything below it does.
- `ToldOfTheProcess`, `NoLateSignal` (CompanionStop, proved): from the answer of an HTTP request down to a process.
  "refused" means that nobody was hit, "completed" that the operation went through; nobody else alive at the check was
  hit, save under an ambiguous label; and nothing is hit after any client was told an outcome or after the drain.
- `OnlyTheTargetIsHit`, `ZeroMeansDone`, `SupervisedStaysDown` (StopCommand): for a whole sweep; a KeepAlive agent is
  not merely signalled, though the label was looked up before its turn came.
- `PreviewKeepsItsWord` (StopCommand) compares the profile with the tests in `kill`, which is another package and asks
  other questions; the one exception is named in it (section 4).
- `SessionInv` (CompanionSession, proved): no file is left as it was written, unless a call of the file system failed.
- `RetiresItsOwn` (CompanionSession): what is deleted is the own file, unless the user acted in the window that
  `unlinkat` by name leaves.
- `AnswersAreWitnessed` (PortTools): an answer is true of some instant of the call in the sense that `Free` gives to
  "free", which is "can be bound now". A refused socket thus counts as a port in use, as it does in the code.
- `TimeoutsAreReal`, `NothingIsLeft`, `ToolsReturn` (PortTools), the first in the same sense. A wait without a limit
  ends if what it waits for stays true; two waiters for the same free port may see each other's look, and `ToolsReturn`
  says so.
- `CacheInv` (SchemeCache): no entry from before a reset is stored, and probes of one port do not pile up.
- `TableInv` (TableSelection): the lines are those of the data of the moment, keys have one owner, and folding hides
  idle rows only.
- `LinksConverge` (SchemeCache): stale probes may overwrite newer answers, but once the server stays as it is the links
  end up right and stay right.
- `PausedViewFrozen`, `ManualRefreshAnswered`, `StopIsSeen` (ScanScheduler), the last two unless a scan hangs for ever.
- `SelectionNeverJumps`, `PinnedRowIsPicked` (TableSelection).
- `SuccessIsWhole`, `NothingOutlives` (BoundedCommand).
- `CohortIsOneMoment` (Datacenter): if devices are only added, or only removed, while pages are read, the result is the
  cohort of one moment or an error. With additions *and* removals the count may stay the same and a mixture is
  returned; the model shows it and the property does not promise more than the code can keep.
- `ReportIsTruthful` (Datacenter): exit code, what is shown, which views have failed and how much of the budget their
  data took all agree.
- `EvidenceIsExplicit` (Datacenter): freshness and health of a published row, read backwards. It is fresh exactly if
  every source that feeds it has recent stamps for its health and for every series behind every value, stale exactly if
  one source is known to be; up exactly if all are, down exactly if one is. A source feeds a row through a series, or,
  in the fleet, through its health alone.
- `AnswerIsWhole` (DatabaseQuery): exit 0 means every row the server holds, from a session that closed cleanly, although
  the adapter never learns how many rows there are but by asking for one more than it will keep.
- `ErrorSaysWhy` (DatabaseQuery): usage errors have touched no server; 124 follows a timeout that happened, be it the
  command's, the adapter's own or the name lookup's; and a limit is reported as the limit though the deadline has passed
  since. It is asked of what went wrong first (`raised`), not of what a driver made of it. Only the byte budget of a
  MySQL connection is exempted, and even that is neither success nor a usage error.

## 4. Findings

Sentences of the documentation or of comments that the code does not keep. The first has a run that ends in the
counterexample; the next two have a property of their own in the module, which TLC refutes when a copy of the run's
configuration names it.

1. `table_grouping`. `CHANGELOG.md:91` says that the selection follows PID and start time through grouping; the `z` key
   (`ui/ui.go:710`) rebuilds the lines and keeps the line number.
2. `BlockingAnswersAreProbed` (SchemeCache). `blockingURLFor` probes because the copied scheme "must be right now"
   (`ui/ui.go:844`), but `CachedScheme` has stored `http` with a fresh stamp before its probe has run
   (`scan/scheme.go:62`), and `Scheme` returns that placeholder as a hit.
3. `TimeoutKeepsIdentity` (DatabaseQuery, with 1 row and 3 units). `safeError` means to "preserve timeout identity" so
   that a socket deadline that fires before its context is exit 124 (`datacenter/database/query.go:125-127`). It
   compares the clock with the deadline of the command (ten seconds by default), while the deadline that fires is the
   adapter's own (five). For most errors the type of the error helps out; the MySQL driver replaces it by
   `ErrInvalidConn` on an open connection (`third_party/mysql/packets.go:55-62`), so the command ends as a failed query
   with exit 1.

What else was met while modelling, and is named where a property has to allow for it:

- A binary of a formula that was started by hand is promised `brew services stop` by its profile
  (`intel/intel.go:403-405`, `479-481`), and so by a preview, but `kill` refuses it because the service does not own the
  PID (`kill/kill.go:74-76`); `docs/COMPATIBILITY.md:132-134` says that a preview never promises what a stop refuses.
- The rule for runtimes (`intel/intel.go:386`) comes before those for editors, system services and apps (`390`, `409`):
  a helper of an app whose command line has a word like `node` gets a TERM, although `README.md:37-38` says that such
  helpers are refused.
- `le watch` probes a number. If the PID is reused at once it goes on watching the stranger; its exit is never reported
  too early, but it may be reported too late or as a timeout (`cmd/cmd.go:446-447`).
- `kill.execCombined` has no time limit, so nothing is claimed about when a stop ends.
- Exit 124 also follows the adapter's own five seconds and, in the datacenter views, the timeout of one request,
  although `README.md:319` and `docs/COMPATIBILITY.md:21` say that a `--timeout` has elapsed, and `--timeout` may be ten
  seconds (`datacenter/database/query.go:131-140`, `cmd/database.go:140-142`, `cmd/datacenter.go:199-201`).
- The byte limit of a MySQL connection (`datacenter/database/wire.go`) is a failed read to the driver, which turns it
  into `ErrInvalidConn`: it is reported as a failed query, or as a timeout, and not as the limit.
- Scans of the TUI have no time limit (`scan/scan_unix.go:36-43`, `intel/intel.go:113-116`): an `lsof` or `brew` that
  hangs keeps the slot for ever, and every later refresh waits behind it.
- `Free` takes every error of `net.Listen` for a busy port (`tools/tools.go:49-52`). `validPort` keeps that from an
  argument that is no port (`tools/tools.go:33-37`), but not from a port that the user may not bind or from a process
  without descriptors: `le ready 80` says "already listening" and exits 0, and `le wait 80` without a limit waits for
  ever.
- `retire` passes over calls that fail (`companion/run_unix.go:168-184`): the connection file then stays and the command
  ends as if it were gone, although `docs/COMPANION.md:5-8` says that it is retired before the command exits.
- caffeinate is started before signals are caught (`tools/keepawake.go:27-32`); a SIGTERM to le in between leaves it.

## 5. Proofs

`tlapm` checks eight modules of proofs, for every value of the constants that satisfies the assumptions named in the
modules (`CompanionAssumption`, `StopGuardAssumption`, `StopCommandAssumption`,
`PortToolsAssumption`, `SchedulerAssumption`, `SchemeAssumption`, `SelectionAssumption`, `BoundedCommandAssumption`,
`DatacenterAssumption`, `LimitsAssumption` and `NoneAssumption`). Most say that bounds are natural numbers, limits and
page sizes positive, model values distinct, arguments and programs of the right shape. Those with more in them:

- `SchemeAssumption`: the time to live is at least two ticks. A probe lasts over at most one tick, and
  `schemeCacheTTL` is 30 s against 350 ms of `schemeProbeTimeout`. Callers are not probers.
- `SelectionAssumption`: one scan is finite and has one row for a PID, since `scan_unix.go:107` keys rows by it.
- `DatacenterAssumption`: sources and devices are finite sets, since answers are.
- `StopCommandAssumption`: `StartProcs <= MaxProcs`.
- `CompanionStopAssumption`, a hypothesis of the theorems about the composition: the traced snapshot and row are a
  snapshot and a row, `restartManaged` is one of the operations, and `StopGuardAssumption`.

The operating system, the engine, the drivers and the servers are assumed to be
what the actions marked external in `PROJECT.json` say.

Each inductive invariant was first checked by TLC. `CompanionInv`, `SchedulerInv`, `CacheInv` and `ToolsInv` are
invariants of runs. `GuardInv`, `CommandInv` twice, `QueryInv`, `SessionInv`, `LinkInv`, `QueueInv` and `JoinInv` can be
added to the configuration of their module and hold there; so can the parts of `FetchInv`, with the MC module of
`Datacenter` extending `DatacenterProofs`, and `IndInv`, once its definitions are copied into `TableSelection`. A run
states only what follows from them.

**CompanionServerProofs.** No safety property of the companion is inductive alone. `CompanionInv` adds why it holds:

- `SlotInv`: the handlers between claim and release are exactly the holder of the slot; `stopAndWait` takes it once,
  after `closing`, so after that nobody does.
- `RequestInv`, `LocalInv`: what a handler holds at each point. One that runs or records has used up the only run of
  its snapshot, and the verdict it is about to record agrees with the effect.
- `SnapshotInv`: a retained snapshot is the latest and has run nothing.
- `ReceiptInv`: a pending receipt belongs to the handler that runs its action, a final one carries a decided outcome.
- `DecidedInv`: a decided action is over, for good, and nothing told is undecided.
- `ExpiryInv`: a running timer is the retained snapshot's own, and not early for it.

From it follow at-most-once, exclusive engine work, the finality of the drain, truthful and consistent outcomes, the
bound on receipts, the two action properties, and `ServerImplementsLedger`: initial states map to initial states and
every step to a step of the ledger or a stutter.

Of the session, `SessionCorrect` proves `SessionInv`: the server serves after the file has been written and is drained
before it is retired (`PhaseInv`), a start that failed or a command that has returned leaves no file as it was written
unless a call of the file system has failed (`FileInv`), and what retire has found out is true or the user has acted
since (`WindowInv`). `DescriptorIsItsOwn` follows. The step from the server's invariant to the session's is
`SessionRunsServer`.

Of the composition, every behaviour is one of `StopGuard` (`StopRunsGuard`), so what `StopGuardProofs` shows holds of
the traced attempt: `Guard!GuardCorrect` is cited, not proved again. `LinkInv` says that the two modules tell the same
story: the seam has acted exactly if the traced snapshot is among the touched ones, and only the context seam was
entered. With it and `GuardInv` each answer of the seam is one that `EngineReturn` allows (`ServerStep`), which gives
`EngineIsAsAssumed`; then `CompanionCorrect` holds here too. `ToldOfProcesses` joins three results: an outcome is
truthful to the effect (`OutcomeTruthful`), the effect is that of the seam (`LinkInv`), and the seam hits only the
process that it has checked (`VictimsAreVerified`). `SignalsAreInTime` reads the moment of the signal off `SlotInv` and
`RequestInv`. That a traced action always finds the row it needs, and that the other steps leave the seam alone, is
`ElsewhereStep`.

**StopGuardProofs.** `OnlyVerifiedVictims` is about a process that passed a check some steps ago. `GuardInv` carries it
there: `IdentityInv` says that of the processes present at the check no other one has the row's PID, which stays true
because a process that is dead stays dead and a new one is not among them; `ManagerInv` says that what the label runs of
them was already found by the lookup, which means the row's own process unless the label had several; `RouteInv` ties
kind and label; `ProgressInv` says that nothing is done before the last step. `TypeOK` has the details of a row that is
put together from two reads (`PsReads`).

**StopCommandProofs.** `CommandInv` says, of the system, that a PID and a job have one process at a time (`SystemInv`);
of the sweep, that every addressed row is in exactly one of waiting, current, stopped, failed (`SweepOnce`); of the
plan, what `Make` can have said and that a label in it is the row's own job or nobody's (`PlanInv`); of an attempt, that
among the processes known at the check the row alone has its PID and its service (`AttemptInv`); and of those that are
over, that a stopped row was hit or is gone (`OutcomeInv`). `SupervisedStaysDown` needs the precedence in `Make`: a row
that gets a plain TERM has no label, hence no job if `launchctl` answered.

**PortToolsProofs.** `ToolsInv` says who may be bound to a port, from what an invocation is doing (`SocketInv`), which
points belong to which tool (`PointInv`), that a child is known to who must wait for it (`ChildInv`), and that the
backoff is the documented one (`LadderInv`). A probe's socket is only held where the kernel did not refuse it
(`HolderInv`), so that `wait` answers only what it could have bound. The two action-like properties need one observation
each (`Noted`).

**TuiProofs.** *Scanning.* `SchedulerInv` ties the slot to the command or the undelivered result it was taken for, and a
scan that may still show on a paused view to a start after the pause. Its last conjunct counts: every scan, stop and
pending request is paid for by an event, so numbers stay within the bound and `Complete` covers every scan.

*Table.* `IndInv` has three parts, by what an action can disturb. `DataInv`: the lines are those that filter, sorting,
pins, grouping and folding make of the last scan. `SelectionInv`: the cursor is on a line, and the pane has the keys
only where there is a row. `ModalInv`: of the dialogs, the menu, the picker and the filter at most one is open, and it
has the row that was under the key or the pointer. `PinsHold` is a part of it. The rest is about the lines. That they
are in order is a fact about counting: the place of a line is how many come before it, so with an order that is strict
and total (`RowOrder`, `GroupOrder`, `LineOrder`) every line of the view has a place of its own and every place a line
(`Ranks`, `Listed`, `LinesListed`). `Restored` then says that the search after a refresh ends on the same process or
group if it is still there, and nowhere else; `SelectionStays` follows.

*Cache.* `CacheInv` is inductive. That probes do not pile up rests on `PlaceholdersOutlastProbes`: the entry that a
probe leaves before it starts keeps others away until the probe is over.

**BoundedCommandProofs.** `CommandInv` is `TypeOK`, what the caller knows at each step (`CallerInv`), and conservation
(`FlowInv`): as long as nothing has gone wrong every unit is kept, in the pipe or still to be written, and the copier
ends only when both writers have. `SuccessIsWhole` and `NothingOutlives` follow.

**DatacenterProofs.** `QueueInv` says that no view is collected twice, `JoinInv` that published rows are the join of
the two answers still held; `EvidenceIsExplicit` follows by opening up the join for the sources that feed a row, with
lemmas about `Freshness` and the worst-of operators, in both directions of its equivalences.

`CohortIsOneMoment` needs to know where the pages come from. `PageInv`: no device is in the list or among the records
twice; and while nothing has been added there is a moment whose cohort is as large as the announced count, holds all
records, and contains the list (`HeldBy`); while nothing has been removed, one that the list contains. At the last page
as many different records as were announced have been read out of such a cohort, so they are all of it (`FS_Subset`,
`CountsOnce`). `Inserted` and `Removed` say what an edit does to a list without repetition.

`ReportIsTruthful` takes two invariants: `BudgetInv`, what the client has left at each point and what the data took,
with finite counts of samples and keys (`SamplesFinite`, `KeysFinite`); and `ReportInv`, that nothing is shown before
the end and the exit code fits the sections (`Told`).

**DatabaseQueryProofs.** `QueryInv` adds to the types what is known at each point of an adapter (`StageInv`: nothing is
dialled before the checks, the next call is one of the plan), that the rows kept are the first ones of what was sent
(`RowsInv`), and where each error comes from (`ErrorInv`). `AnswerIsWhole` follows with one more fact (`SentRows`): a
server that was asked for one row more than the limit and sent no more than the limit has sent everything. For
`ErrorSaysWhy` only the steps that end a command matter, and `ErrorInv` ties what they are handed to what was raised.

**Only model-checked:** everything under fairness (`ShutdownCompletes`, `ActionsSettle`, `SnapshotExpires`,
`LinksConverge`, `ManualRefreshAnswered`, `StopIsSeen`, `CommandReturns`, `QueryReturns`, `ToolsReturn`), since liveness
under fairness and `ENABLED` are out of the prover's reach. Every invariant and every action property of a passing run
is a theorem. No operator is recursive; what an operator computes over sequences of any length (`Within`,
`FirstThatApplies`) enters the proofs only by the facts they need of it.

## 6. Not modelled

- *Parsing and printing* (`scan/netstat.go`, `lsof` escapes, themes, tables, labels, `writeData`'s escapes): text in,
  text out, no state. Unit tests are the right tool.
- *Windows* (`*_windows.go`): the check before `taskkill` is the one `StopGuard` models; job objects are not.
- *Vendored drivers* (`third_party`): only what the adapters see of them, in `DatabaseQuery`.
- *Text tools, QR codes, `check`, `list`, configuration, argument parsing*: functions of their input, or one request.
- *`watch-all`*: prints the difference of two scans; it keeps nothing but the last one.
- *The gate of the companion* (`ServeHTTP`, `decodeBody`): a request either gets in, which is where the model begins,
  or is answered without touching any state.
- *Process group reuse* in `retire`: kernel counters would have to go round within one call.

## 7. Plan

Done: every component of the inventory that keeps state over more than one step; the companion and its engine composed;
and proofs of every safety property that a run checks and of the composition. What would add most next, in this order:

1. *Refinements*: an abstract specification of a stop ("hit the row's process or nobody, and say so") that `StopGuard`
   and `StopCommand` both implement, as `ActionLedger` is one for the companion.
2. *The table under the scheduler*: `ScanScheduler` delivers a scan, `TableSelection` shows it; today they meet in the
   name of one message. With both, a stop could be followed from the key to the next view.
3. *Two sessions* of the companion over one directory, which today differ by their instance in the file's name.
4. *Windows*: `taskkill` and job objects.
