# Verification of Tortie's main process

Tortie keeps coding agents alive in tmux while its window comes and goes. The
Electron main process (`src/src/main`) owns a SQLite manifest of sessions, talks
to a tmux server that outlives it, and serves a renderer, a phone and a set of
background schedules. Its hard part is one of agreement: the manifest, the tmux
servers (here and on other machines), the windows and the maps in memory are
written by different actors, each across awaits, and any of them can die alone.

This directory models that part in TLA+, checks it with TLC on small instances
and proves the most important facts for every instance with TLAPS. Paths below
are relative to the repository root.

- [Inventory](#inventory)
- [Modules](#modules)
- [Runs](#runs)
- [Proofs](#proofs)
- [What the code does that its text does not say](#what-the-code-does-that-its-text-does-not-say)
- [What is left out](#what-is-left-out)
- [Plan](#plan)
- [Running it](#running-it)

## Inventory

`PROJECT.json` lists every component with its sources and status. The ones with
a protocol of their own:

| component | state | operations | what is hard | correct when |
|---|---|---|---|---|
| **Session core** `main/sessions/core.ts`, `create-local.ts`, `lifecycle-gate.ts`, `main/manifest/reconciliation.ts`, `main/restart` | session rows, `liveIds`/`byTmuxId`, `createsInFlight`, `restoresInFlight`, the refresh timer | create, restore, End, Remove, restart, rename, reap, refresh/reconcile, boot | every verb awaits tmux; a refresh judges all rows from a list taken earlier; both processes die on their own; `$-id`s restart with the server | an End hangs up only its own session; the two maps are inverse; no live session is offered for Restore; a quiet refresh settles everything |
| **Core lifecycle and quit** `main/lifecycle`, `getGmuxCore`/`shutdownGmuxCore` (`core.ts`), `sessions/mutation-ledger.ts`, `main/index.ts` | quit state, core slot and promise, ledger, disposer | acquire, admit, join, tear down, quit | a boot resolves under a shutdown; verbs that never settle; callers on both sides of the IPC wrapper | one core open at a time; nothing admitted is cut off in time; the quit ends and saves the last facts |
| **Manifest ring and durable writer** `main/manifest/ring-schedule.ts`, `recovery.ts`, `main/durable` | generations on disk, the record that names them, in-flight flag, fingerprint | poll, launch and quit takes; capture, record, prune; resolve | crash between any two filesystem calls, failing and lying calls, damage at rest | a capture that returned stays readable until a newer one takes its place |
| **Activity monitor** `main/activity` | evidence and verdict per pane | tick, hook posts, reap | acts on panes read several awaits ago | never reaps or revives another session |
| **Manifest store** `main/manifest/store.ts`, `schema.ts`, `main/db` | SQLite, schema version, stopped flag | open, migrate, recover, repositories | recovery gate, partial migrations | a damaged file is replaced by a verified generation only |
| **tmux supervisor and control client** `main/tmux/supervisor.ts`, `control-client.ts`, `resolve.ts` | connection, origin of the server, backoff | start, greet, lose, retry, stop, exec | server replaced while a reconnect waits; a stop during a start | a lost connection comes back; a change notice is never lost for good |
| **Resume in place, id harvest** `sessions/resume-in-place.ts`, `sessions/id-harvest.ts`, `manifest/harvest` | claims, timers | claim, confirm, release | two sessions claim one conversation | at most one owner |
| **Attach host** `main/attach`, `sessions/far-attach.ts`, `renderer/terminal/TerminalPane.tsx` | one PTY client per session, its batch and its count of unacknowledged bytes, tickets of attaches that wait | attach, detach, data, ack, exit | two queues between window and main process; a late exit, list or acknowledgement of a client that was replaced; a preload that never acknowledges | no client is orphaned; flow control bounds and never deadlocks; a pane has its client |
| **Restore journal** `main/restore/journal.ts`, `main/manifest/restore-journal.ts` | one durable row per attempt, the record on the session row | begin, note, finish; resolve at the first list of a launch | a crash or a failed write between any two commits; a first list that comes late | what an earlier run left open is closed once, truly, and told once |
| **Execution ledger** `main/machines/execution-ledger.ts` | who owns each ssh child; a durable row per copy | admit, close, cancel, join; read at boot | a quit that removes the manifest before it cancels; a crash in the boot read | nothing runs unowned or unrecorded; a copy cut off is told of once |
| **Remote machines** `main/machines/remote-sessions.ts`, `control-plane.ts`, `context.ts` | rows, `gone`, timer, epochs of route and connection, the map of control clients | start a feed, list, apply, connect, lose, retire; End, Remove, scroll | lists applied late and in either order, a route retired under them, a tmux server replaced there | a scroll reaches its own session; a Remove stands; never no feed; rows and connection recover |
| **Pocket server, pairing, reply, push** `main/pocket`, `main/reply`, `main/push` | devices, write and route ledgers, questions waiting, badge | pair, revoke, answer, notify | an answer to a question that is gone | an answer reaches the question it was given for |
| **Updater, migration, credentials, watcher, specstory** | journeys, crash points, locks, queues | | restart in mid-journey, teardown | resumable, never half done |

Components interact by direct calls (IPC handlers to the core, the core to the
repositories and to tmux), by callbacks (tmux change notices, monitor ticks, the
ring timer) and by shared state: the session rows, which the verbs, the monitor
and the refresh all write, and the ring's directory, which outlives every
process. The terminal of a window and the main process talk through two ordered
queues; a machine across ssh is known only by lists that may come late. The rest
of the renderer, the iOS client, the settings, the git and search services
and the derived views hold little protocol of their own and are listed as not
modelled.

## Modules

| module | models | builds on |
|---|---|---|
| `SessionCore` | the session core, the tmux server, the monitor's tick, both crashes | |
| `CoreLifecycle` | acquisition, ledger, teardown, quit, the ring's schedule | |
| `BackupPromise` | what the ring promises a reader | |
| `BackupRing` | one capture, call by call, over the durable writer | implements `BackupPromise` |
| `TerminalStream` | a session's terminal: pane, queues, attach calls, attach client, flow control | |
| `RestoreJournal` | the write-ahead journal of restores and its resolver | |
| `ExecutionLedger` | remote work across quits and crashes | |
| `MachineFeed` | one other machine: its lists, its control clients, End and Remove of its rows | |
| `SessionCoreProofs`, `CoreLifecycleProofs`, `BackupRingProofs`, `TerminalStreamProofs`, `RestoreJournalProofs`, `ExecutionLedgerProofs`, `MachineFeedProofs` | theorems about the module each is named for | TLAPS |
| `MC*` | the instances TLC runs | |

The modules do not share variables. They meet where one component is another's
environment, and each states there what it takes from the other: `CoreLifecycle`
has a capture as one step, which `BackupRing` opens; `SessionCore` has a restore
as one call, whose commits `RestoreJournal` opens; `TerminalStream` has the wait
for a list of another machine as one step, which `MachineFeed` opens.

### SessionCore

The state is the manifest (`row`, `removed`), the tmux server (`minted`,
`alive`, `husk`, `nextId`), the core's memory (`bound` = `liveIds`, `boundBy` =
`byTmuxId`, `creating`, `restoring`, `refreshDue`, the tick's `sample`) and the
calls in flight. A call is a record that moves one step per await of the source:
`create` goes from declared (row written, nothing spawned) to spawned to done;
an End from the gate to its hang-up to the status it writes; a refresh from
`listing` to `listed` to applied. Everything between two awaits is one action,
as it is in a single-threaded JavaScript process.

| action | code |
|---|---|
| `CreateSession`, `Spawn`, `CreateDone`, `CreateFails` | `create-local.ts` and `createSession` |
| `RestoreSession`, `RestoreDone`, `RestoreFails` | `restoreSessionAdmitted` |
| `KillSession`, `HangUp`, `HangUpFails`, `FinishEnd` | `killSession`, `reapDeadSession` |
| `RestartSession`, `RestartEndsOld`, `DiscardOld` | `restart/restart.ts` |
| `RemoveSession` | `removeSession` and its gate |
| `TickReads`, `TickDetects`, `TickReaps` | `ActivityMonitor` and `applyDetectedStatus` |
| `RefreshBegins`, `RefreshLists`, `RefreshUnreachable`, `RefreshApplies` | `refresh`, `markMachineUnreachable`, `reconcile` |
| `PaneFails`, `SessionCloses`, `StrangerSpawns`, `ServerDies`, `AppDies`, `Boot` | the environment, and boot's awaited refresh |

Time is abstracted to the one comparison the code makes with it: whether a row's
`createdAt` or `lastSeen` was written after a refresh's `snapshotAt` (the set
`newer`). Two stamps in one millisecond are taken as ordered. `running` stands
for running, idle and needs_input, which no action of the core tells apart.
The awaits that only stamp tmux options after a spawn are part of the spawn.

### CoreLifecycle

`getGmuxCore` fills `slot` and moves `lifecycle` (empty, booting, ready,
shuttingDown); `shutdownGmuxCore` is the sequence of `teardown` steps: await the
boot, refuse and join the ledger with a deadline, drain, take the quit's
generation, dispose, join the hooks, clear the slot. A verb is admitted, declares
a fact, and lands or fails, or never settles. The ring's schedule appears with
its change test, its in-flight flag, its lock and its fingerprint; what the
newest generation holds is `kept`. Callers are windows (refused by the IPC
wrapper once the quit is marked) and insiders (main-process code that nothing
refuses). Shutdowns without a quit are what the harness of the repository does.

Timing (the poll's floor and gap) is left nondeterministic. The ordered
disposer's steps before and after the core, the snapshot pass and the capture
drain are one step each, since each is a bounded wait. Left out: the take on
suspend, the writes that the refresh and the monitor may do after the quit's
generation, and the application's next start.

### BackupRing and BackupPromise

`BackupRing` is `captureLocked` step by step: read the record and pick the
number off the directory (`Begin`), stage, prove and rename the body, flush the
directory, stage, prove and rename the record with the predecessors that still
verify, flush, prune one unlink at a time, return. A directory has its present
names (`body`, `record`) and, for each name, what a power cut may bring back
(`bodyCut`, `recordCut`), which a flush settles. Each step can fail; a write may
leave other bytes without an error; the process or the power can go at any step;
a body at rest can be damaged. A capsule's hash and length are the number of the
capture that wrote the body.

`BackupPromise` has three numbers: what a reader gets, the newest capture that
returned, the damage done. It lets what a reader gets fall back only to a
capture at least as new as the last that returned. `BackupRing` implements it
under `got <- Resolved`, where `Resolved` is `resolveVerifiedBackup`.

Damage happens while no capture runs (the bound is in `Rots`). `MayMisread` says
whether reads whose failure the code swallows may fail: off in `backup_ring`; with
it on, a body is written over (see below). Left out: a predecessor's body that cannot be read for a
moment, the sweep of staged files (they have names of their own), making the
directory, and the SQLite copy and its integrity check, which change nothing
here when they fail.

### TerminalStream

The page mounts, asks for the attach, unmounts, reloads or is closed; what it
sends and what it is sent are two queues (`toMain`, `toPage`). `MainReads` is the
handler of the head of the first, to its first await; a call that has to wait for
a list stays in `calls` with its ticket. `client` holds the PTYs, `current` is the
one in the host's map.

| action | code |
|---|---|
| `Mount`, `AsksForAttach`, `Unmount`, `Reload`, `PageReads` | the effect of `TerminalPane.tsx`, its clean-up, its stream |
| `MainReads` (`TakesTicket`, `DetachSession`, `Heard`), `WaitEnds` | `attachSession`, `detachSession` of `core.ts` and `term:ack` |
| `HostAttach`, `HostDetach`, `SpawnFails`, `Prints`, `FlushTimer`, `GraceEnds`, `Exits` | `attach-host.ts` |
| `KillSession`, `CloseWindow`, `BeginShutdown`, `Disposes` | an End, the window's close, the quit |

Bytes are units, so that the watermarks are small numbers. `bridge` says whether
the preload forwards acknowledgements at all, the case the grace timer is there
for; `far` whether the session is on another machine, which decides whether the
wait asks again for its ticket. Left out: input, resizes and reclaims of a size,
several sessions in one window, and what a terminal does with the bytes.

### RestoreJournal

Each commit to the manifest is an action, since a crash can fall between any two;
what the code does without an await excludes the other handlers (`Quiet`). A tmux
session carries the number of the attempt that made it.

| action | code |
|---|---|
| `RestoreSession`, `Spawn`, `NoteTmuxId`, `CreateFails`, `CloseFailed`, `SetRestoreResult`, `FinishRestore` | `restoreSessionAdmitted` and its `finally` |
| `ResolveJournal`, `ResolverSteps` | `resolveRestoreJournalOnce`, `resolveRestoreJournal` of `restore/journal.ts` |
| `RefreshBegins`, `RefreshLists`, `RefreshUnreachable`, `Reconcile`, `ScheduleRefresh` | the refresh the resolver is part of |
| `RemoveSession`, `DiscardSession` | Remove, and the end of a restart |
| `SessionCloses`, `AppDies`, `Boot` | the environment |

A write can fail at every commit (`MaxFaults`); what the code then does is in the
action. Left out: the pruning of old attempts, the stages a restore shows, the
plan it follows, restores of other machines.

### ExecutionLedger

| action | code |
|---|---|
| `Launch`, `CloseCutOff`, `TellCutOff` | `setRemoteManifest`: the boot read, row by row, then one notice |
| `Declare`, `RefuseUnrecorded`, `Start` | `admitRemoteExecution`: the gate, the durable row of a copy, the child |
| `ChildEnds`, `Settle` | the ssh child, and `closeEntry` |
| `CoreDisposes`, `CancelRemoteExecutions`, `JoinRemoteExecutions`, `Exits` | the quit, in the order of `index.ts` |
| `AppDies` | a crash |

`told` counts what a person is told of each piece of work. Left out: the signals
and the grace of a cancel, which end in `ChildEnds`, and the pruning of rows.

### MachineFeed

`far` is the other machine (its tmux server, the `$-id`s it hands out, who holds
which), `link` the route to it as it is, `context` and `routeEpoch` the route as
Tortie knows it. A list goes through `pass` in three steps: issued by whoever
polls (`Polls`, with the epoch of the connection and the instant), answered
(`ListTaken`) and applied (`PassApplied`), and two of them may be applied in
either order. `client` are the control clients, one for each start that opened
one; `inMap` is the one the map of the control plane holds.

| action | code |
|---|---|
| `Tick`, `ListTaken`, `PassFails`, `PassApplied`, `Wakes`, `SessionsChanged` | `pollRemoteMachine`, `writeBackCompletedPass`, the timers, `remoteMachinesWoke` |
| `RemoveRow`, `KillAsked`, `KillEnds` | `forgetRemoteRow` under a Remove; `remoteKill` |
| `PrepareMachine`, `CreateStartsFeed`, `KeystrokeReopens`, `PrecheckEnds` | `startMachineFeed`, `openControlPlane`, `routeKey` |
| `ClientStarts`, `RetryFires`, `Greets`, `Drops`, `SshEnds`, `GreetingTimesOut` | `control-client.ts` and the sink of `control-plane.ts` |
| `RetireRoute` | `retireMachineRoute`, on a confirm of changed details |
| `LinkCut`, `LinkBack`, `FarSpawns`, `FarEnds`, `FarServerDies` | the world |

A create or restore there shows as a session that appears (`FarSpawns`) and as
the start of the feed it ends in (`CreateStartsFeed`). Which rows are due for
their periodic write is a choice (`due`). Left out: the removal of a machine and
the disposal of the core, creates and rescues of sessions without a stamp,
renames, several machines at once, the matching of answers to commands on a
connection, failures of an exec other than the link's, and the sign-in retries.

## Runs

| run | shows | bounds |
|---|---|---|
| `session_crash` | types; `OneRestorer`: `restoresInFlight` is exact; `QuietRefreshSettles`: a refresh nobody disturbs brings rows, bindings and server to agreement, whatever came before; `RestorableOnlyIfGone`: a restored session that lives is not offered again, though lists be applied out of order | one session, two calls, two `$-id`s, two verbs, one death of each process |
| `session_restart` | `EndsOnlyItsOwn`, `CreateHasRow` | two sessions, one a restart's replacement with a create that outlasts its flight record |
| `session_live` | `UnknownLeaves`, `FlightsLand` | one session, two calls, with fairness |
| `quit` | types; `OneOpenCore`, `NoneCutOff`, `QuitLosesNothing`; `QuitEnds` though verbs never settle; `QuitDisposes` in a second cycle too | one window, one insider, one verb, two cores, one harness cycle, one timed take, with fairness |
| `backup_ring` | types; `KeepsPromise` (refinement), `ProofSurvives`, `NeverOverwrites` | ring of two, five captures, two failing calls, two cuts or deaths, one damaged body |
| `terminal` | types; `NoOrphan`, `Backpressure`, `FarPaneIsServed`, `StreamResumes` | watermarks of one and one unit, batches of at most two, two mounts, two windows, four units printed, one failed spawn, with fairness |
| `restore_journal` | types; `NoneLeftBehind`, `ToldOnce`, `ClosedIsRecorded`, `NotDenied`, `ToldTruly`, `AttemptsClose` | one session, two attempts, three launches, one failed write, with fairness |
| `execution_ledger` | types; `NoneOwned`, `CutOffTold`, `FinishedNotTold` | three pieces of work, two quits, one crash, one fault |
| `machine_feed` | types; `ScrollReachesItsOwn`, `AlwaysFed`, `RemoveStands`, `Converges`, `ConnectionHeals` | two sessions, two servers there with one `$-id` each, two starts, two lists in flight, one unasked event, with fairness |
| `session_unborn`, `session_end_remove`, `machine_kill` | the first three divergences below | the smallest instance that has the case |

Why the bounds are enough. The races of the session core are between a verb and
a refresh, or between two refreshes, on one row: two calls and two `$-id`s have
them (three calls in flight were run once for `RestorableOnlyIfGone`, with no
violation), and the second session is there for the verb that joins two rows
(restart) and for an id that changes hands. Two verbs give every ordered pair (restore after
End, Remove after End, and so on). The quit needs two cores because the question
is whether the second is opened too early. A ring of two is the smallest the
code allows (`Math.max(2, keep)`), prunes from its third capture on, and five
captures leave room for a failed one, its debris and two good ones after it. The
terminal needs two mounts for whatever belongs to a client that was replaced, two
windows for a call that outlives its window, and a watermark of one so that four
units are enough to pause, resume and pause again. Two attempts of a restore are the one that died and
the one that is new; three launches put a crash into the restore and another into
its resolution. Three pieces of remote work have one that ended, one cut off and
one newer than both. On the other machine the danger is a `$-id` that changes
hands, for which two servers with one id each and two sessions suffice, and a list
older than the state it is applied to, for which two are in flight; the events
that come unasked (a cut link, a Remove, an End, a wake, a retired route, a death)
share one bound, while connections are lost and sessions start within the others.
Larger instances were run once without the liveness properties and no violation
was found: two sessions in `SessionCore` with three verbs and a death (1 million
states), two verbs and two timed takes in `CoreLifecycle` (6.3 million), two sessions
in `RestoreJournal` (6.3 million), two `$-id`s and two events in `MachineFeed` (2.4
million), where a Remove meets an End in flight. For the safety properties the
theorems take the place of larger bounds.

Bounded counters are guards in the modules and are named there (`Max...`). The
safety runs of the session core use symmetry of the calls; no other run has any.

`CHECK_DEADLOCK FALSE` everywhere: a process nobody asks anything of, one that
has quit, and an exhausted bound are all legitimate ends.

### Fairness

`SessionCore!Fairness`: an exec of tmux answers or times out (`EXEC` timeouts in
`main/tmux`), so each call in flight moves on; a timer that is armed fires; and a
server that is asked again and again answers once in a while, without which
nothing could leave `unknown`. Nothing makes people act, sessions end, or a
refresh come that no event scheduled. `CoreLifecycle!Fairness`: boots and copies
end, the disposer goes on from one await to the next, and the join's deadline
timer fires. The verbs get no fairness at all.

`TerminalStream!Fairness`: both queues are read, the mount asks for its attach,
the wait for a list ends by its time limit, the flush and the grace timer fire.
Nobody has to print, acknowledge through a preload that does not, or quit.
`RestoreJournal!Fairness`: execs answer, the resolver goes on to its next commit,
a refresh that is due begins, and a server asked again and again is reached.
Nothing starts the application again after a crash. `MachineFeed!Fairness`: the
timers fire, a list is answered or runs into its limit, a client goes on. It is
strong for `PassApplied(p, Sessions)`, since lists come less often than
`REMOTE_LAST_SEEN_WRITE_MS` again and again, and for `ClientGoesOn`, where a step
waits for a free slot of `pass`, which is a bound of the model. The link need not
come back. `ExecutionLedger` has safety properties only.

## Proofs

TLC answers on an instance; the theorems hold for every value of the constants.
Every safety property and every action property of a passing run, the refinement
of `BackupPromise` included, is the statement of a theorem. What stays with TLC is
at the end of this section.

A theorem assumes only the assumptions of the module it is about: names are
distinct, bounds are natural numbers, watermarks are in the order the code has
them, a ring keeps two. The one hypothesis beyond that is `~MayMisread` in
`BackupRingProofs`. Each module has the same layout: the inductive invariant in
named parts, what lemmas about operators it needs, a lemma for each action or
group of actions (`Type...`, `Own...`, `Flow...`), a `...Step` that gathers them, and
theorems whose last step is temporal. TLC checked each inductive invariant on an
instance before it was proved.

### The session core

`SessionCoreProofs`, for any number of sessions, calls, `$-id`s, verbs, restarts and
deaths:

| theorem | says |
|---|---|
| `TypeCorrect` | `[]TypeOK` |
| `OwnInvariant` | `[]Own`, the inductive invariant |
| `EndsOnlyItsOwnAlways` | an End or a reap only hangs up a session created for its row, while one server lives |
| `MapsInverseAlways` | `byTmuxId` inverts `liveIds`, while one server lives |
| `FlowInvariant` | `[](DownIsIdle /\ Flow)`, inductive, through any deaths |
| `OneRestorerAlways` | `restoresInFlight` is exactly what is being restored |
| `CreateHasRowAlways` | a session being created has its row, unless something was restarted |
| `RestorableOnlyIfGoneAlways` | a restored session that lives is not offered again, however old the list |
| `QuietRefreshSettlesAlways` | a refresh that nothing disturbs leaves rows, bindings and server in agreement |

`EndsOnlyItsOwn` is not inductive: the target of an End is read
from `liveIds`, which a refresh rebuilds from its list, which was taken from the
server earlier. `Own` follows the `$-id` along that path: whoever holds one
(`MapsOwn` for the maps, `CallsOwn` for targets and lists in flight) holds it
with the session it was minted for, and holds one below `nextId`, so that a later
spawn, which mints `nextId`, cannot change what an id held means (`AliveMinted`
gives the same of the ids a list can bring in). A server's death resets `nextId`
and ends the argument, which is why it is stated for `deaths = 0`; see below for
what happens after. `MapsInverse` comes along because each map write goes
through `Bind`, `Unbind` or the rebuild, and no two sessions can hold one id.

`Flow` needs no server to live. Its parts: the guards of restores and creates
answer to the calls at work (`OneRestorer`, `CreatingBusy`), a create has a row to
itself as long as nothing was restarted (`RowsOfCreates`), and a list that misses a
session some restore brought back was taken before that restore was over, so that
the refresh which applies it knows the row to be newer (`RevivedSeen`). The last is
what `RestorableOnlyIfGone` rests on: two lists may be applied in either order, and
`lastSeen` against `snapshotAt` is the only defence. `DownIsIdle` says that no call
outlives its process. `QuietRefreshSettles` follows from the types and `DownIsIdle`
by looking at the one step that applies a list.

The attempt at `RestorableOnlyIfGone` found the model wrong: which sessions a
restore brought back was kept by `$-id` as of the restore's end, and with two
sessions and two deaths of the server an id can change hands within the restore. TLC
showed it on that instance, beyond the bounds of the run; an id now enters `revived`
only if it still is the row's.

### The core's lifecycle and the quit

`CoreLifecycleProofs`, for any callers, verbs, cores, shutdowns and takes:

| theorem | says |
|---|---|
| `SlotInvariant` | `[](TypeOK /\ SlotInv)`, inductive |
| `TypeCorrect` | `[]TypeOK` |
| `OneOpenCoreAlways` | no two cores are open at once |
| `SlotHonestAlways` | what `getGmuxCore` refuses by agrees with the slot and the teardown |
| `NoneCutOffAlways` | no admitted verb is in flight under a disposed core, unless the join was out of time |
| `QuitInvariant` | `[]QuitInv`, inductive: all of the above and what the ring's schedule knows |
| `QuitLosesNothingAlways` | a teardown in time leaves every fact of the manifest in the newest generation |

The types and the slot are proved together, because a step of the teardown is
well typed only while `tearing` is a core. That two cores are never open follows
from the stronger statement that an open core is the slot's: a boot needs an
empty slot, and the last step of a teardown may empty the slot because the core
torn down is failed or disposed by then. For that, `SlotInv` ties each step of
the teardown to the state of its core. `NoneCutOff` needs what the join knows
(`LedgerInv`): from the flag on, the verbs in flight under the core only grow
fewer, since the ledger refuses; during the join they are in the set it waits
for; after it there are none, or the deadline is on record.

`QuitLosesNothing` is about a take that is skipped because nothing had changed, on
the word of a fingerprint read before an earlier copy was. Between the two the
manifest may lose a row and the copy may hold more than the fingerprint says, and a
copy of a core disposed of long ago may still end and become the newest. `RingInv`
says what survives all that: a fact of a fingerprint that still is in the manifest
is in the newest generation, and in every copy that is about to become it. It holds
because a fact is written once (`WrittenInv`: what a failed body took back is never
written again) and one copy is read at a time (`TakesInv`). `LastInv` says that once
the quit's take was decided on, the manifest only shrinks: no verb of the core is in
flight (`LedgerInv`) and no other core is open (`SlotInv`, `HoldersInv`).

### The ring

`BackupRingProofs`, for any length of the ring and any number of captures, failing
calls, deaths, power cuts and damaged bodies:

| theorem | says |
|---|---|
| `TypeCorrect` | `[]TypeOK` |
| `RingInvariant` | `[]RingInv`, inductive |
| `NeverOverwritesAlways` | no body is published over another |
| `ProofSurvivesAlways` | no step but damage takes the last verified body beside the capture's own |
| `KeepsPromiseAlways` | `Spec` implements `BackupPromise` under `got <- Resolved` |

All but the first have the hypothesis `~MayMisread`, the setting of the run: with
it on, TLC finds a body written over (see below), so the theorems say exactly what
the code gives up with the reads whose failure it swallows.

`RingInv` speaks of what a power cut may bring back as much as of what is there:
bodies are in the order of their captures in every directory that may come back,
and none but the next number may come back above the newest (`OrderInv`), which is
why a new body never meets another under its name; what was there when a capture returned is settled, in
the directory and in every record that may come back (`SettledInv`); what the
capture in progress knows, place by place (`CaptureInv`); the prune leaves the
newest body beside the capture's own (`PruneInv`); and every record that may come
back names a body as new as the last that returned (`KeptInv`). The refinement is
proved step by step from it: damage is `Damage`, the return of a capture is
`Acknowledge`, and whatever else changes what a reader gets is a `Publish` or a
`TakeBack`, which never falls behind the last capture that returned.

### The terminal

`TerminalStreamProofs`, for any watermarks in the order `Low <= High <= FlushNow`,
any number of mounts, windows, units and failing spawns:

| theorem | says |
|---|---|
| `TypeCorrect` | `[]TypeOK` |
| `StreamInvariant` | `[]IInv`, inductive |
| `NoOrphanAlways` | a PTY nobody told to end is the one in the host's map |
| `BackpressureAlways` | what is on its way to the page stays within the watermark, a batch, and what a former client had on its way |
| `FarPaneIsServedAlways` | the pane of a session on another machine whose attach was answered has a client, or is about to hear that it has none |

`Backpressure` needs an account of the units in both queues (`CreditInv`: those on
their way are at most those the client counts and those that were on their way when
it took its place), since a remount sets the count to zero while old units and their
acknowledgements still travel; `FlowInv` bounds the count. `FarPaneIsServed` follows
a ticket from the page through the queue and the wait for a list: tickets are
distinct (`TicketInv`), a mount is asked for once (`MountInv`), and a page that waits
has said nothing since, so that what it waits for holds the ticket (`AskedInv`).

### The restore journal

`RestoreJournalProofs`, for any number of sessions, attempts, crashes and failing
writes:

| theorem | says |
|---|---|
| `TypeCorrect` | `[]TypeOK` |
| `JournalInvariant` | `[]IInv`, inductive |
| `NoneLeftBehindAlways` | after the boot's resolution only this launch's attempts, or those a write failed for, are open |
| `ToldOnceAlways` | an attempt is told of at most once, and closed by then |
| `ClosedIsRecordedAlways` | no crash leaves an attempt closed that its row has no record of |
| `NotDeniedAlways` | a restore of this run that heard of its session is not down as failed |
| `ToldTrulyAlways` | nobody is told that a session of an earlier run did not come back while it lives |

The resolver judges once, from one list, and then works through what it owes,
commit by commit, while restores, Removes and closings go on. `TodoInv` keeps each
debt true to the journal as it is by then, `SeenInv` the list to the sessions that
live (it lacks only what this launch has made since), `LeftInv` says that whatever
is open of an earlier launch is among the debts, and `WorkInv` and `JournalInv` tie
the restores in flight to their attempts.

### The ledger of remote work

`ExecutionLedgerProofs`, for any number of pieces of work, crashes, quits and faults:

| theorem | says |
|---|---|
| `TypeCorrect` | `[]TypeOK` |
| `LedgerInvariant` | `[]IInv`, the inductive invariant |
| `CopyRecordedAlways` | no copy runs without its durable row |
| `NoneOwnedAlways` | when the quit has joined, the ledger owns nothing |
| `CutOffToldAlways` | a copy an earlier run left open is told of exactly once, and nothing else is |
| `FinishedNotToldAlways` | what ended while the manifest was there is never said to be cut off |

`IInv` adds to the types what relates the durable rows to the memory of one
launch: `RowsInv` (copies have rows, and an owned copy has an open one), `QuitInv`
(a manifest means no quit; a join knows every entry that is owned), `ReadInv` (the
boot read misses no open row that nobody owns, because it is over before anything
is admitted), `ToldInv` (told of once is closed by a boot read that is over) and
`InTimeInv` (what ended in time has left no row open). `NoneOwned` needs `QuitInv`
because the entries the join waits for are those the cancel saw, and only the
closed gate keeps others from coming; `CutOffTold` needs `ReadInv` and `ToldInv`
because the rows outlive the launch that wrote them.

### Another machine

`MachineFeedProofs`, for any number of sessions, `$-id`s, servers, starts, lists and
events:

| theorem | says |
|---|---|
| `TypeCorrect` | `[]TypeOK` |
| `FeedInvariant` | `[]IInv`, the inductive invariant |
| `ScrollReachesItsOwnAlways` | a scroll, or a key over a scrolled pane, reaches the session it is meant for |
| `KillReachesListedAlways` | an End sent while the rows are of the connection in the map reaches its own |
| `RemoveStandsAlways` | no list issued before a Remove brings the row back |
| `AlwaysFedAlways` | a machine whose feed was started has the timer or a connection that will say when it is lost, never both |

A scroll is addressed by rows that an old list wrote, to a server that may be a new
one, so `ScrollReachesItsOwn` is far from inductive. `OwnInv` says of every list
answered and of the rows applied: if their epoch is that of the feed and the client in
the map is attached to the server that is there (`Linked`), then none of their `$-id`s
is held by another session, and none can be handed out again (`Known`). It rests on
three facts: a greeting starts a new epoch, so that nothing listed before it is of
this connection (`EpochInv`); the client in the map is one whose greeting is heard,
which is where a client that two overlapping opens left behind matters, and no client
is attached to a server to come (`ClientInv`); and one server hands out each `$-id`
once (`FarInv`). `KillReachesListedAlways` is what the same invariant says of an End,
which goes by an exec of its own: it hangs up the row's own session while the rows are
of the connection in the map and that one is to the server that is there. With the
check a scroll makes, what would be left of the third divergence below is the time
until the loss of a connection is noticed. `RemoveStands` is an action property: only
three actions touch the rows that are shown, and each is examined under the types.

`AlwaysFed` is about a start that finds the machine as it is after each of its
awaits. It needs two facts beside it: while a client in the map has greeted,
something feeds (`MapFed`), so that a start may take that connection for its feed;
and a start has made no client before its precheck is over, nor answers to a route
still to come (`StartInv`), so that a confirm of details leaves no start that
counts.

### What is not proved

`MapsInverse`, `SlotHonest` and `CopyRecorded` are stated by theorems alone; TLC
found no violation of them on the instances of `session_restart`, `quit` and
`execution_ledger` before they were proved.

Only model-checked: `UnknownLeaves`, `FlightsLand`, `QuitEnds`, `QuitDisposes`,
`StreamResumes`, `AttemptsClose`, `Converges` and `ConnectionHeals`. They are
liveness properties under fairness, which is stated with `ENABLED`, and neither is
within the prover's reach. The three runs that find a violation have nothing to
prove.

## What the code does that its text does not say

The first three are runs that TLC must find violated.

1. **A create declared before a list and over before it is applied**
   (`session_unborn`). `inFlightIds` is read when the list is applied
   (`core.ts:2420`), so the create is in neither; the row's `createdAt` is older
   than `snapshotAt`; the new session is marked restorable while it runs.
   `core.ts:2391` says reconcile can tell "gone" from "not born yet".
2. **An End undoes a Remove** (`session_end_remove`). The gate is asked before
   the awaits and the status is written after them, so a second End, or a reap,
   writes `exited` over the tombstone. `lifecycle-gate.ts:13` says the window is
   closed for every caller.
3. **An End on another machine can end another session** (`machine_kill`). Its
   target is the `$-id` of the last completed list, whichever connection or server
   that list came from (`remote-sessions.ts:2274`). After a restart of the tmux
   server there the id may name another session; `remote-copy.ts:197` says of the
   refusal that guards the verb that it "stops Tortie ending somebody else's
   work". A scroll asks for the connection of its rows, an End does not.

Met while modelling, each at its line, and not kept as runs.

Session core:

- After a tmux server's death `$-id`s begin again; until a refresh rebuilds
  `liveIds`, an End can hang up another session's id (`core.ts:3606`;
  `core.ts:2353` takes ids as never reused).
- A restart whose End of the old session fails logs it and deletes the row all the
  same (`restart.ts:204`); `restart.ts:185` says why that must not happen.
- A late verdict of the monitor writes a live status over a removed row, whose
  `removed_at` stays set (`core.ts:1485`).
- A session that closes while its create is in flight is skipped by the refresh
  its closing scheduled, and no other pass is scheduled (`reconciliation.ts:159`).
- A row an End has marked exited can be claimed as running again by a list taken
  before the hang-up (`reconciliation.ts:269`), until the next refresh.
- A `new-session` that succeeds after its caller gave up leaves a session with no
  row (`create-local.ts:723`).

Quit and ring:

- A main-process caller that asks for a core after the teardown, while the
  disposer still runs, boots a second one (`core.ts:4531`; an open entry of
  `docs/BACKLOG.md`, line 44716). `OneOpenCore` still holds.
- A timed take in flight turns the quit's away (`ring-schedule.ts:433`), and it may
  have read the manifest earlier than the quit's own writes; `core.ts:4589` says
  the generation holds them.
- A capture whose directory flush fails after the record got its name throws, yet
  the record names it; the header of `captureManifestBackup` says nothing was
  recorded. What a reader gets is right all the same (`KeepsPromise`).
- `listGenerations` answers a failed `readdir` with nothing (`generations.ts:72`),
  so the next body is renamed over generation 1, against `recovery.ts:615`; the
  reader then prefers an older, higher-numbered generation. `MayMisread` turns it
  on.

Terminal and restore journal:

- The attach of a session of this Mac does not ask for its ticket again after the
  wait for a list (`core.ts:3919`, against the comment at `core.ts:3886`), so a
  detach during the wait is followed by a client nobody shows. The next attach or
  detach ends it; `FarPaneIsServed` is stated for the half that asks.
- When the first list comes late the resolver may close an attempt of this very
  run (`core.ts:2572`, against the comment at `core.ts:874`). `NotDenied` shows
  that the restore's own close puts it right.
- When boot could not reach tmux, a restore may be asked for while its session
  still runs, and a second agent is started on one conversation.

Remote work and other machines:

- The quit removes the manifest before it cancels (`core.ts:4413`), so work that
  ends in between leaves its row open and is told of as cut off by the next
  launch; `execution-ledger.ts:482` says finished work is not. `FinishedNotTold`
  is stated for what ended while the manifest was there.
- Two openings of a control connection that overlap make two clients, of which the
  map keeps the second (`control-plane.ts:663`; `control-plane.ts:621` says one per
  machine). If the first misses its greeting, the good one is closed.
- An End in flight while the row is removed on another screen draws the row again
  as gone (`remote-sessions.ts:2281`); it is the second disjunct of `RemoveStands`.
- A list issued before another and applied after it moves a running session to
  gone, and its record to restorable, until the next list; `Converges` shows that
  the next one mends it.
- `unknown` has a second writer (`remote-sessions.ts:818`), against the comment at
  `remote-record.ts:485`.
- `stop()` of a control client during the awaits of `start()` does not keep the
  child from being spawned (`control-client.ts:313`).

## What is left out

Each module's own omissions are in its section above. In `SessionCore` besides:
rename, the far half of every verb (a machine's sessions are in `MachineFeed`),
identity probes that fail and the foreign ids they leave behind, the resume plan,
pins and order. The evidence behind a monitor's verdict is not modelled: a
verdict is any the tick may reach. In all modules: wording, logging, layout, and
data no property tells apart. The components without a module are in
`PROJECT.json` with the reason for each; the hazards without a property have a
note there.

## Plan

Built: the eight modules above, checked, and seven of them proved about; `BackupPromise`
is the abstract side of a theorem. Next, in order:

1. Proofs: what the code keeps in spite of the divergences, each under the
   condition that excludes it, as `KillReachesListedAlways` is for the third: an End
   undoes no Remove that came before it was admitted, a create that outlasts the
   list is not judged by it.
2. `ManifestRecovery`: the boot's integrity gate and `restoreFromBackup`, reading
   what `BackupRing` leaves, so that the two compose over `BackupPromise`.
3. `ControlClient`: the matching of answers to commands, and the generations of a
   supervisor on this Mac, which turns the `$-id` reuse above into a bounded window
   and refines `refreshDue` of `SessionCore`.
4. Creates, restores and the removal of a machine in `MachineFeed`; the sign-in
   retries.
5. Resume claims, the reply gate, the pocket ledgers, push, updater and data
   migration, each a small module of its own.

A new module gets one passing run whose bounds show its hazards, and takes the
place of an older run only where one instance can answer both questions.

## Running it

    tlc -workers 2 -config SessionCrash.cfg MCSessionCore.tla
    tlapm SessionCoreProofs.tla
    tlapm CoreLifecycleProofs.tla
    tlapm BackupRingProofs.tla
    tlapm TerminalStreamProofs.tla
    tlapm RestoreJournalProofs.tla
    tlapm ExecutionLedgerProofs.tla
    tlapm MachineFeedProofs.tla

`PROJECT.json` names the module and the configuration of each run. Every run
ends within four minutes on two cores, and so does each proof module. For each
property of a passing run the module has a definition marked `Mistake:`, the bug
a plausible edit would make, with which the property fails; `mutants` in
`PROJECT.json` pairs them.
