----------------------------- MODULE SessionCore -----------------------------
(***************************************************************************)
(* The session core of the main process (src/main/sessions/core.ts): the   *)
(* manifest rows, the tmux server that outlives the application, and the   *)
(* two in-memory maps that bind one to the other.                          *)
(*                                                                         *)
(* Every asynchronous verb of GmuxCore is one record in call, and it moves *)
(* one step for each await of the source: what the code does between two   *)
(* awaits is one action, and other calls run in between.  Only the session *)
(* rows of this Mac are modelled.  Time is abstracted: a refresh in flight *)
(* remembers in "newer" the rows whose createdAt or lastSeen was written   *)
(* after its snapshotAt, which is all the code compares its clock for.     *)
(***************************************************************************)
EXTENDS Naturals, FiniteSets

CONSTANTS
    Sessions,         \* gmux session ids; each is minted once
    NoSession,        \* "no id" in a call or in byTmuxId
    Stranger,         \* the owner of a tmux session a person made by hand
    Calls,            \* calls the core can have in flight at once
    SlowCreates,      \* creates that may outlast CREATE_IN_FLIGHT_MAX_MS
    MaxTmuxId,        \* bound: the $-ids one server life hands out
    MaxAsks,          \* bound: verbs people ask for
    MaxRestarts,      \* bound: of these, session restarts
    MaxServerDeaths,  \* bound: times the tmux server dies
    MaxCrashes        \* bound: times the application dies

ASSUME NamesAssumption ==
    /\ NoSession \notin Sessions
    /\ Stranger \notin Sessions
    /\ Stranger # NoSession
    /\ SlowCreates \subseteq Sessions

ASSUME BoundsAssumption ==
    /\ MaxTmuxId \in Nat
    /\ MaxAsks \in Nat
    /\ MaxRestarts \in Nat
    /\ MaxServerDeaths \in Nat
    /\ MaxCrashes \in Nat

TmuxIds == 1..MaxTmuxId
NoTmux == 0

\* "running" stands for running, idle and needs_input; "none" is no row.
Statuses == {"running", "exited", "restorable", "unknown", "discarded"}
Kinds == {"idle", "create", "swap", "restore", "end", "hungEnd",
          "reap", "hungReap", "listing", "listed"}

VARIABLES
    row,         \* manifest: the status of each session's row   (durable)
    removed,     \* manifest: rows whose removed_at is set       (durable)
    minted,      \* tmux: the last session created under each $-id
    revived,     \* history: of the $-ids minted, those a finished restore owns
    alive,       \* tmux: the $-ids that exist now
    husk,        \* tmux: of these, the ones whose pane has died
    nextId,      \* tmux: the next $-id this server hands out
    up,          \* the application: "down", "booting" or "up"
    bound,       \* GmuxCore.liveIds
    boundBy,     \* GmuxCore.byTmuxId
    creating,    \* GmuxCore.createsInFlight
    restoring,   \* GmuxCore.restoresInFlight
    refreshDue,  \* GmuxCore.refreshTimer is armed
    sample,      \* what the activity tick in progress read of each session
    call,        \* the calls in flight
    fresh,       \* session ids not yet minted
    asks, restarts, deaths, crashes

manifest == <<row, removed>>
tmux == <<minted, revived, alive, husk, nextId>>
maps == <<bound, boundBy>>
flights == <<creating, restoring>>
bounds == <<asks, restarts, deaths, crashes>>
vars == <<manifest, tmux, up, maps, flights, refreshDue, sample, call,
          fresh, bounds>>

Idle == [kind |-> "idle", row |-> NoSession, tmux |-> NoTmux, list |-> {},
         newer |-> {}, old |-> NoSession, oldLive |-> FALSE, boot |-> FALSE]

\* A call of kind k about row s holding the tmux id t.
Working(k, s, t) == [Idle EXCEPT !.kind = k, !.row = s, !.tmux = t]

\* Every call but a refresh is about one row, a swap about the old one too.
Rowless == {"idle", "listing", "listed"}
CallRecords ==
    {r \in [kind : Kinds, row : Sessions \cup {NoSession},
            tmux : TmuxIds \cup {NoTmux}, list : SUBSET (TmuxIds \X Sessions),
            newer : SUBSET Sessions, old : Sessions \cup {NoSession},
            oldLive : BOOLEAN, boot : BOOLEAN] :
        /\ r.kind \notin Rowless => r.row # NoSession
        /\ r.kind = "swap" => r.old # NoSession}

TypeOK ==
    /\ row \in [Sessions -> Statuses \cup {"none"}]
    /\ removed \subseteq Sessions
    /\ minted \in [TmuxIds -> Sessions \cup {Stranger, NoSession}]
    /\ revived \subseteq TmuxIds
    /\ alive \subseteq TmuxIds
    /\ husk \subseteq alive
    /\ nextId \in 1..(MaxTmuxId + 1)
    /\ up \in {"down", "booting", "up"}
    /\ bound \in [Sessions -> TmuxIds \cup {NoTmux}]
    /\ boundBy \in [TmuxIds -> Sessions \cup {NoSession}]
    /\ creating \subseteq Sessions
    /\ restoring \subseteq Sessions
    /\ refreshDue \in BOOLEAN
    /\ sample \in [Sessions -> {"none", "alive", "dead"}]
    /\ call \in [Calls -> CallRecords]
    /\ fresh \subseteq Sessions
    /\ asks \in 0..MaxAsks
    /\ restarts \in 0..MaxRestarts
    /\ deaths \in 0..MaxServerDeaths
    /\ crashes \in 0..MaxCrashes

Init ==
    /\ row = [s \in Sessions |-> "none"]
    /\ removed = {}
    /\ minted = [t \in TmuxIds |-> NoSession]
    /\ revived = {}
    /\ alive = {}
    /\ husk = {}
    /\ nextId = 1
    /\ up = "up"
    /\ bound = [s \in Sessions |-> NoTmux]
    /\ boundBy = [t \in TmuxIds |-> NoSession]
    /\ creating = {}
    /\ restoring = {}
    /\ refreshDue = FALSE
    /\ sample = [s \in Sessions |-> "none"]
    /\ call = [c \in Calls |-> Idle]
    /\ fresh = Sessions
    /\ asks = 0
    /\ restarts = 0
    /\ deaths = 0
    /\ crashes = 0

-----------------------------------------------------------------------------
(* Helpers shared by the handlers *)

Busy(kinds) == {c \in Calls : call[c].kind \in kinds}
Refreshing == {"listing", "listed"}

\* A person's verb is admitted while the application runs.
Asked == up = "up" /\ asks < MaxAsks /\ asks' = asks + 1

\* Writing lastSeen or createdAt of the rows W makes them newer than the
\* snapshot of every refresh in flight.
Stamp(calls, W) ==
    [c \in Calls |-> IF calls[c].kind \in Refreshing
                     THEN [calls[c] EXCEPT !.newer = @ \cup W]
                     ELSE calls[c]]

\* call after c becomes r, and the rows W were stamped on the way.
Becomes(c, r, W) == [Stamp(call, W) EXCEPT ![c] = r]

\* liveIds.set and byTmuxId.set
Bind(s, t) ==
    /\ bound' = [bound EXCEPT ![s] = t]
    /\ boundBy' = [boundBy EXCEPT ![t] = s]

\* Mistake: the session is set to a null target and not deleted.
UnbindToNull(s, t) ==
    /\ bound' = [bound EXCEPT ![s] = NoSession]
    /\ boundBy' = [u \in TmuxIds |-> IF u = t THEN NoSession ELSE boundBy[u]]

\* byTmuxId.delete of the id held, and liveIds.delete of the session
Unbind(s, t) ==
    /\ bound' = [bound EXCEPT ![s] = NoTmux]
    /\ boundBy' = [u \in TmuxIds |-> IF u = t THEN NoSession ELSE boundBy[u]]

\* releaseSessionResources
Release(s) == Unbind(s, bound[s])

\* setStatus and updateSession throw when there is no row: nothing is written.
WriteStatus(s, status) ==
    row' = [row EXCEPT ![s] = IF @ = "none" THEN @ ELSE status]

DeleteRow(s) ==
    /\ row' = [row EXCEPT ![s] = "none"]
    /\ removed' = removed \ {s}

-----------------------------------------------------------------------------
(* Create: the row is declared before the process exists *)

\* Mistake: the row is written after the spawn.
InsertRowLater(s) == UNCHANGED row

\* insertSession, with createdAt and lastSeen
InsertRow(s) == row' = [row EXCEPT ![s] = "running"]

Declare(c, s) ==
    /\ call[c].kind = "idle"
    /\ s \in fresh
    /\ fresh' = fresh \ {s}
    /\ creating' = creating \cup {s}
    /\ InsertRow(s)
    /\ UNCHANGED <<removed, tmux, up, maps, restoring, refreshDue, sample,
                   deaths, crashes>>

CreateSession(c, s) ==
    /\ Asked
    /\ Declare(c, s)
    /\ call' = Becomes(c, Working("create", s, NoTmux), {s})
    /\ UNCHANGED restarts

\* restartSession reads the old row, creates its replacement s, and only then
\* ends and deletes the old one.
RestartSession(c, old, s) ==
    /\ Asked
    /\ restarts < MaxRestarts
    /\ restarts' = restarts + 1
    /\ row[old] # "none"
    /\ Declare(c, s)
    /\ call' = Becomes(c, [Working("create", s, NoTmux) EXCEPT
                              !.old = old,
                              !.oldLive = row[old] \notin {"exited", "restorable"}],
                       {s})

\* The tmux server runs new-session for a create or a restore, stamping the
\* session's identity into its environment.
Spawn(c) ==
    /\ call[c].kind \in {"create", "restore"}
    /\ call[c].tmux = NoTmux
    /\ nextId \in TmuxIds
    /\ minted' = [minted EXCEPT ![nextId] = call[c].row]
    /\ revived' = revived \ {nextId}
    /\ alive' = alive \cup {nextId}
    /\ nextId' = nextId + 1
    /\ call' = [call EXCEPT ![c].tmux = nextId]
    /\ refreshDue' = TRUE
    /\ UNCHANGED <<manifest, husk, up, maps, flights, sample, fresh, bounds>>

CreateDone(c) ==
    LET s == call[c].row IN
    /\ call[c].kind = "create"
    /\ call[c].tmux # NoTmux
    /\ Bind(s, call[c].tmux)
    /\ creating' = creating \ {s}
    /\ call' = [call EXCEPT ![c] =
                  IF call[c].old = NoSession \/ row[s] = "none" THEN Idle
                  ELSE [call[c] EXCEPT !.kind = "swap", !.tmux = NoTmux]]
    /\ UNCHANGED <<manifest, tmux, up, restoring, refreshDue, sample, fresh,
                   bounds>>

\* new-session was refused, or its answer never came.
CreateFails(c) ==
    /\ call[c].kind = "create"
    /\ creating' = creating \ {call[c].row}
    /\ DeleteRow(call[c].row)
    /\ call' = [call EXCEPT ![c] = Idle]
    /\ UNCHANGED <<tmux, up, maps, restoring, refreshDue, sample, fresh, bounds>>

-----------------------------------------------------------------------------
(* Restore *)

Restorable(s) == row[s] \in {"restorable", "exited", "discarded"}

\* Mistake: a way out of the restore that leaves the guard standing.
KeepsGuard(s) == UNCHANGED restoring

\* The finally of restoreSessionAdmitted.
DropsGuard(s) == restoring' = restoring \ {s}

RestoreSession(c, s) ==
    /\ Asked
    /\ call[c].kind = "idle"
    /\ Restorable(s)
    /\ s \notin restoring
    /\ restoring' = restoring \cup {s}
    /\ call' = [call EXCEPT ![c] = Working("restore", s, NoTmux)]
    /\ UNCHANGED <<manifest, tmux, up, maps, creating, refreshDue, sample,
                   fresh, restarts, deaths, crashes>>

RestoreDone(c) ==
    LET s == call[c].row IN
    /\ call[c].kind = "restore"
    /\ call[c].tmux # NoTmux
    /\ Bind(s, call[c].tmux)
    /\ WriteStatus(s, "running")
    /\ removed' = removed \ {s}
    /\ DropsGuard(s)
    /\ revived' = revived \cup {t \in {call[c].tmux} : minted[t] = s}
    /\ call' = Becomes(c, Idle, {s})
    /\ UNCHANGED <<minted, alive, husk, nextId, up, creating, refreshDue, sample,
                   fresh, bounds>>

\* recordRestoreOutcome writes neither the status nor lastSeen.
RestoreFails(c) ==
    /\ call[c].kind = "restore"
    /\ DropsGuard(call[c].row)
    /\ call' = [call EXCEPT ![c] = Idle]
    /\ UNCHANGED <<manifest, tmux, up, maps, creating, refreshDue, sample,
                   fresh, bounds>>

-----------------------------------------------------------------------------
(* End, and the reap of a session whose pane died *)

EndRefused(s) == row[s] \in {"none", "discarded"}
ReapRefused(s) == row[s] \in {"none", "exited"}

\* setStatus 'exited' with lastSeen, after the maps forgot the session.
MarkExited(s, t) ==
    /\ Unbind(s, t)
    /\ WriteStatus(s, "exited")

\* Past the guard with target = liveIds.get: without a target there is nothing
\* to await, otherwise the capture is awaited first.
BeginEnd(c, kind, s, next) ==
    \/ /\ bound[s] = NoTmux
       /\ MarkExited(s, NoTmux)
       /\ call' = Becomes(c, next, {s})
    \/ /\ bound[s] # NoTmux
       /\ call' = [call EXCEPT ![c] = [next EXCEPT !.kind = kind, !.row = s,
                                                   !.tmux = bound[s]]]
       /\ UNCHANGED <<row, maps>>

KillSession(c, s) ==
    /\ Asked
    /\ call[c].kind = "idle"
    /\ ~EndRefused(s)
    /\ BeginEnd(c, "end", s, Idle)
    /\ UNCHANGED <<removed, tmux, up, flights, refreshDue, sample, fresh,
                   restarts, deaths, crashes>>

\* A restart, once its replacement runs, ends the old session if it was live
\* when the restart was asked for.
RestartEndsOld(c) ==
    /\ call[c].kind = "swap"
    /\ call[c].oldLive
    /\ LET waiting == [call[c] EXCEPT !.oldLive = FALSE] IN
       IF EndRefused(call[c].old)
       THEN call' = [call EXCEPT ![c] = waiting] /\ UNCHANGED <<row, maps>>
       ELSE BeginEnd(c, "end", call[c].old, waiting)
    /\ UNCHANGED <<removed, tmux, up, flights, refreshDue, sample, fresh, bounds>>

\* tmux kill-session reaches the server: whatever has that $-id goes.
HangUp(c) ==
    LET t == call[c].tmux IN
    /\ call[c].kind \in {"end", "reap"}
    /\ alive' = alive \ {t}
    /\ husk' = husk \ {t}
    /\ call' = [call EXCEPT ![c].kind = IF @ = "end" THEN "hungEnd" ELSE "hungReap"]
    /\ refreshDue' = (refreshDue \/ t \in alive)
    /\ UNCHANGED <<manifest, minted, revived, nextId, up, maps, flights, sample,
                   fresh, bounds>>

\* What a call does after its End: a restart goes on to delete the old row.
AfterEnd(c) ==
    IF call[c].old = NoSession THEN Idle
    ELSE [call[c] EXCEPT !.kind = "swap", !.tmux = NoTmux]

\* The exec itself failed: an End rejects and writes nothing, a reap goes on.
HangUpFails(c) ==
    /\ \/ /\ call[c].kind = "end"
          /\ call' = [call EXCEPT ![c] = AfterEnd(c)]
       \/ /\ call[c].kind = "reap"
          /\ call' = [call EXCEPT ![c].kind = "hungReap"]
    /\ UNCHANGED <<manifest, tmux, up, maps, flights, refreshDue, sample, fresh,
                   bounds>>

FinishEnd(c) ==
    LET s == call[c].row IN
    /\ call[c].kind \in {"hungEnd", "hungReap"}
    /\ MarkExited(s, call[c].tmux)
    /\ call' = Becomes(c, AfterEnd(c), IF row[s] = "none" THEN {} ELSE {s})
    /\ UNCHANGED <<removed, tmux, up, flights, refreshDue, sample, fresh, bounds>>

\* discardSession, the last step of a restart: it asks nothing of the row.
DiscardOld(c) ==
    /\ call[c].kind = "swap"
    /\ ~call[c].oldLive
    /\ DeleteRow(call[c].old)
    /\ Release(call[c].old)
    /\ call' = [call EXCEPT ![c] = Idle]
    /\ UNCHANGED <<tmux, up, flights, refreshDue, sample, fresh, bounds>>

-----------------------------------------------------------------------------
(* Remove: a tombstone, refused while the row says the session may live *)

RemoveRefused(s) == row[s] \in {"none", "running", "unknown"}

RemoveSession(s) ==
    /\ Asked
    /\ ~RemoveRefused(s)
    /\ row' = [row EXCEPT ![s] = "discarded"]
    /\ removed' = removed \cup {s}
    /\ Release(s)
    /\ UNCHANGED <<tmux, up, flights, refreshDue, sample, call, fresh,
                   restarts, deaths, crashes>>

-----------------------------------------------------------------------------
(* The activity monitor: one tick reads the panes, then acts on what it read *)

\* activitySessions: rows that may be live, and are bound.
Watched(s) ==
    /\ row[s] \notin {"none", "exited", "restorable", "unknown"}
    /\ bound[s] \in alive

TickReads ==
    /\ up = "up"
    /\ \A s \in Sessions : sample[s] = "none"
    /\ \E s \in Sessions : Watched(s)
    /\ sample' = [s \in Sessions |->
                    IF ~Watched(s) THEN "none"
                    ELSE IF bound[s] \in husk THEN "dead" ELSE "alive"]
    /\ UNCHANGED <<manifest, tmux, up, maps, flights, refreshDue, call, fresh,
                   bounds>>

\* applyDetectedStatus drops a verdict about these rows.
DetectionIgnored(s) == row[s] \in {"none", "exited", "restorable", "unknown"}

\* The tick has a verdict about a live pane, which may or may not be news.
TickDetects(s) ==
    /\ sample[s] = "alive"
    /\ sample' = [sample EXCEPT ![s] = "none"]
    /\ \/ UNCHANGED <<row, call>>
       \/ /\ ~DetectionIgnored(s)
          /\ row' = [row EXCEPT ![s] = "running"]
          /\ call' = Stamp(call, {s})
    /\ UNCHANGED <<removed, tmux, up, maps, flights, refreshDue, fresh, bounds>>

\* reapDeadSession, called without being awaited.
TickReaps(c, s) ==
    /\ sample[s] = "dead"
    /\ call[c].kind = "idle"
    /\ sample' = [sample EXCEPT ![s] = "none"]
    /\ \/ /\ ReapRefused(s)
          /\ UNCHANGED <<row, maps, call>>
       \/ /\ ~ReapRefused(s)
          /\ BeginEnd(c, "reap", s, Idle)
    /\ UNCHANGED <<removed, tmux, up, flights, refreshDue, fresh, bounds>>

-----------------------------------------------------------------------------
(* Refresh: the manifest judged against a list that may already be stale *)

\* The refresh timer fires; snapshotAt is read here.
RefreshBegins(c) ==
    /\ up \in {"booting", "up"}
    /\ refreshDue
    /\ call[c].kind = "idle"
    /\ refreshDue' = FALSE
    /\ call' = [call EXCEPT ![c] = Working("listing", NoSession, NoTmux)]
    /\ UNCHANGED <<manifest, tmux, up, maps, flights, sample, fresh, bounds>>

\* Mistake: a hand-made session that took the name of a row is taken for it.
LiveNames ==
    {p \in TmuxIds \X Sessions : p[1] \in alive /\ minted[p[1]] \in {p[2], Stranger}}

\* identify: every live session under the identity stamped at its creation.
LiveIdentities ==
    {p \in TmuxIds \X Sessions : p[1] \in alive /\ minted[p[1]] = p[2]}

\* tmux answers list-sessions, or confirms that no server owns the socket.
RefreshLists(c) ==
    /\ call[c].kind = "listing"
    /\ call' = [call EXCEPT ![c] =
                  [@ EXCEPT !.kind = "listed", !.list = LiveIdentities]]
    /\ UNCHANGED <<manifest, tmux, up, maps, flights, refreshDue, sample, fresh,
                   bounds>>

\* Verbs are let in once the refresh that boot awaits is over.
BootMoves(c) == up' = IF call[c].boot THEN "up" ELSE up

\* Mistake: nobody asks again.
NoRetry == UNCHANGED refreshDue

\* scheduleRefresh(UNREACHABLE_RETRY_MS)
ScheduleRetry == refreshDue' = TRUE

\* markMachineUnreachable: silence proves nothing, so live rows become unknown
\* and a retry is scheduled.
RefreshUnreachable(c) ==
    /\ call[c].kind = "listing"
    /\ row' = [s \in Sessions |->
                 IF row[s] = "running"
                    /\ s \notin creating \cup restoring \cup call[c].newer
                 THEN "unknown" ELSE row[s]]
    /\ ScheduleRetry
    /\ call' = [call EXCEPT ![c] = Idle]
    /\ BootMoves(c)
    /\ UNCHANGED <<removed, tmux, maps, flights, sample, fresh, bounds>>

Claimable(s) == row[s] \notin {"none", "discarded"}
Listed(c) == {p[2] : p \in call[c].list}
Claimed(c) == {s \in Listed(c) : Claimable(s)}

\* Mistake: lastSeen is not compared with the snapshot.
TooNewByFlight(c, inFlight) == inFlight

\* Rows the list is too old to judge, given the creates still in flight.
TooNew(c, inFlight) == inFlight \cup call[c].newer
Skipped(c, inFlight) ==
    {s \in TooNew(c, inFlight) \ Claimed(c) :
        row[s] \in {"running", "restorable", "unknown"}}

\* Mistake: a row nobody could see is left unknown for good.
JudgedButUnknown(c, inFlight) ==
    [s \in Sessions |->
        IF s \in Claimed(c) THEN "running"
        ELSE IF row[s] = "running" /\ s \notin Skipped(c, inFlight) THEN "restorable"
        ELSE row[s]]

Judged(c, inFlight) ==
    [s \in Sessions |->
        IF s \in Claimed(c) THEN "running"
        ELSE IF row[s] \in {"running", "unknown"} /\ s \notin Skipped(c, inFlight)
        THEN "restorable"
        ELSE row[s]]

\* liveIds is rebuilt from the rows claimed, and a skipped row keeps its
\* binding unless another row has that id now.
Rebound(c, pick, keep) ==
    [s \in Sessions |-> IF s \in Claimed(c) THEN pick[s]
                        ELSE IF s \in keep THEN bound[s] ELSE NoTmux]

RefreshApplies(c) ==
    /\ call[c].kind = "listed"
    /\ \E stale \in SUBSET (creating \cap SlowCreates),
          pick \in [Claimed(c) -> TmuxIds] :
         LET inFlight == (creating \ stale) \cup restoring
             taken == {pick[s] : s \in Claimed(c)}
             kept == {s \in Skipped(c, inFlight) : bound[s] \in TmuxIds \ taken}
         IN /\ \A s \in Claimed(c) : <<pick[s], s>> \in call[c].list
            /\ \E keep \in SUBSET kept :
                 /\ \A s \in kept : \E u \in keep : bound[u] = bound[s]
                 /\ \A s, u \in keep : bound[s] = bound[u] => s = u
                 /\ bound' = Rebound(c, pick, keep)
                 /\ boundBy' = [t \in TmuxIds |->
                      IF \E s \in Claimed(c) \cup keep : Rebound(c, pick, keep)[s] = t
                      THEN CHOOSE s \in Claimed(c) \cup keep :
                             Rebound(c, pick, keep)[s] = t
                      ELSE NoSession]
            /\ creating' = creating \ stale
            /\ row' = Judged(c, inFlight)
    /\ call' = Becomes(c, Idle, Claimed(c))
    /\ BootMoves(c)
    /\ UNCHANGED <<removed, tmux, restoring, refreshDue, sample, fresh, bounds>>

\* The window, a failed attach or a wake from sleep asks for a refresh.
ScheduleRefresh ==
    /\ up = "up"
    /\ ~refreshDue
    /\ refreshDue' = TRUE
    /\ UNCHANGED <<manifest, tmux, up, maps, flights, sample, call, fresh, bounds>>

-----------------------------------------------------------------------------
(* What the sessions, the server and the application do on their own *)

\* A pane fails; remain-on-exit keeps it readable.
PaneFails(t) ==
    /\ t \in alive \ husk
    /\ husk' = husk \cup {t}
    /\ UNCHANGED <<manifest, minted, revived, alive, nextId, up, maps, flights,
                   refreshDue, sample, call, fresh, bounds>>

\* A session's shell ends and tmux closes the session: %sessions-changed.
SessionCloses(t) ==
    /\ t \in alive
    /\ alive' = alive \ {t}
    /\ husk' = husk \ {t}
    /\ refreshDue' = (refreshDue \/ up # "down")
    /\ UNCHANGED <<manifest, minted, revived, nextId, up, maps, flights, sample, call,
                   fresh, bounds>>

\* Somebody makes a session by hand on the same socket.
StrangerSpawns ==
    /\ nextId \in TmuxIds
    /\ minted' = [minted EXCEPT ![nextId] = Stranger]
    /\ revived' = revived \ {nextId}
    /\ alive' = alive \cup {nextId}
    /\ nextId' = nextId + 1
    /\ refreshDue' = (refreshDue \/ up # "down")
    /\ UNCHANGED <<manifest, husk, up, maps, flights, sample, call, fresh, bounds>>

\* The server dies with every session; the next one counts $-ids from the
\* start.  'server-exit' and the reconnect schedule a refresh.
ServerDies ==
    /\ deaths < MaxServerDeaths
    /\ deaths' = deaths + 1
    /\ alive' = {}
    /\ husk' = {}
    /\ nextId' = 1
    /\ refreshDue' = (refreshDue \/ up # "down")
    /\ UNCHANGED <<manifest, minted, revived, up, maps, flights, sample, call, fresh,
                   asks, restarts, crashes>>

\* The process dies: the manifest and the tmux server are what is left.
AppDies ==
    /\ crashes < MaxCrashes
    /\ crashes' = crashes + 1
    /\ up # "down"
    /\ up' = "down"
    /\ bound' = [s \in Sessions |-> NoTmux]
    /\ boundBy' = [t \in TmuxIds |-> NoSession]
    /\ creating' = {}
    /\ restoring' = {}
    /\ refreshDue' = FALSE
    /\ sample' = [s \in Sessions |-> "none"]
    /\ call' = [c \in Calls |-> Idle]
    /\ UNCHANGED <<manifest, tmux, fresh, asks, restarts, deaths>>

\* boot: the control client's 'connected' schedules a refresh, and boot awaits
\* one of its own before any verb is let in.
Boot(c) ==
    /\ up = "down"
    /\ up' = "booting"
    /\ refreshDue' = TRUE
    /\ call' = [call EXCEPT ![c] = [Working("listing", NoSession, NoTmux)
                                     EXCEPT !.boot = TRUE]]
    /\ UNCHANGED <<manifest, tmux, maps, flights, sample, fresh, bounds>>

-----------------------------------------------------------------------------

Verb ==
    \/ \E c \in Calls, s \in Sessions :
         CreateSession(c, s) \/ RestoreSession(c, s) \/ KillSession(c, s)
    \/ \E c \in Calls, old, s \in Sessions : RestartSession(c, old, s)
    \/ \E s \in Sessions : RemoveSession(s)

Progress(c) ==
    \/ Spawn(c) \/ CreateDone(c) \/ RestoreDone(c)
    \/ RestartEndsOld(c) \/ DiscardOld(c)
    \/ HangUp(c) \/ FinishEnd(c)
    \/ RefreshBegins(c) \/ RefreshLists(c) \/ RefreshApplies(c)
    \/ Boot(c)

Failure(c) ==
    CreateFails(c) \/ RestoreFails(c) \/ HangUpFails(c) \/ RefreshUnreachable(c)

Tick ==
    \/ TickReads
    \/ \E s \in Sessions : TickDetects(s)
    \/ \E c \in Calls, s \in Sessions : TickReaps(c, s)

Environment ==
    \/ ScheduleRefresh
    \/ \E t \in TmuxIds : PaneFails(t) \/ SessionCloses(t)
    \/ StrangerSpawns \/ ServerDies \/ AppDies

Next ==
    \/ Verb
    \/ \E c \in Calls : Progress(c) \/ Failure(c)
    \/ Tick
    \/ Environment

Spec == Init /\ [][Next]_vars

(* Every exec of tmux answers or times out, timers fire, and a server that is
   asked again and again is reached in the end.  Nothing makes people act,
   sessions end, or a refresh come that no event scheduled. *)
Fairness ==
    /\ \A c \in Calls : WF_vars(Progress(c) \/ Failure(c))
    /\ \A c \in Calls : SF_vars(RefreshLists(c))
    /\ SF_vars(\E c \in Calls : RefreshBegins(c))
    /\ WF_vars(\E s \in Sessions : TickDetects(s))
    /\ SF_vars(\E c \in Calls, s \in Sessions : TickReaps(c, s))

FairSpec == Spec /\ Fairness

-----------------------------------------------------------------------------
(* Safety *)

\* A live tmux session that carries the identity of s.
Lives(s) == \E t \in alive : minted[t] = s

(* While the server that handed out the $-ids lives, an End or a reap is only
   ever about to hang up a session that was created for that very row: the
   target comes out of liveIds, which reconcile fills by identity. *)
EndsOnlyItsOwn ==
    deaths = 0 =>
        \A c \in Calls : call[c].kind \in {"end", "reap"} =>
            minted[call[c].tmux] = call[c].row

(* While one server lives, whatever liveIds binds is bound back by byTmuxId,
   so that a rename made in tmux reaches the row of the session renamed. *)
MapsInverse ==
    deaths = 0 =>
        \A s \in Sessions : bound[s] # NoTmux => boundBy[bound[s]] = s

(* Why the two above hold: as long as one server lives, whoever holds a $-id
   (liveIds, a call in flight, the list a refresh took) holds it together with
   the session it was minted for.  SessionCoreProofs shows it inductive. *)
OwnCall(r) ==
    /\ r.tmux # NoTmux => r.tmux < nextId /\ minted[r.tmux] = r.row
    /\ r.kind \in {"end", "reap"} => r.tmux # NoTmux
    /\ \A p \in r.list : p[1] < nextId /\ minted[p[1]] = p[2]
CallsOwn == \A c \in Calls : OwnCall(call[c])
MapsOwn ==
    \A s \in Sessions : bound[s] # NoTmux =>
        /\ bound[s] < nextId
        /\ minted[bound[s]] = s
        /\ boundBy[bound[s]] = s
AliveMinted == \A t \in alive : t < nextId
Own == deaths = 0 => MapsOwn /\ CallsOwn /\ AliveMinted

(* restoresInFlight is exact: a session is in it while one Restore, and only
   one, is at work on it, so that no two of them start the same session. *)
OneRestorer ==
    /\ restoring = {call[c].row : c \in Busy({"restore"})}
    /\ \A c, d \in Busy({"restore"}) : call[c].row = call[d].row => c = d

(* Reconcile offers Restore on a row whose session lives only when that
   session came out of a create that is over: a restore is covered by
   restoresInFlight and then by lastSeen, a create only while it is in
   createsInFlight. *)
RestorableOnlyIfGone ==
    [][\A s \in Sessions : (row[s] # "restorable" /\ row'[s] = "restorable") =>
          \A t \in alive : minted[t] = s =>
              t \notin revived /\ s \notin creating \ SlowCreates]_vars

(* The manifest row is there before the process is, and for as long as the
   create is in flight no End, Remove or stale refresh takes it away. *)
CreateHasRow ==
    restarts = 0 =>
        \A c \in Busy({"create"}) : row[call[c].row] # "none"

\* What the sidebar says of s is what tmux would answer about it.
Agrees(s) ==
    row[s] \notin {"none", "discarded"} =>
        IF Lives(s)
        THEN row[s] = "running" /\ bound[s] \in alive /\ minted[bound[s]] = s
        ELSE row[s] \in {"exited", "restorable"} /\ bound[s] = NoTmux

\* Nothing else is in flight and nothing moved since c took its list.
Undisturbed(c) ==
    /\ call[c].kind = "listed"
    /\ call[c].list = {p \in TmuxIds \X Sessions : p[1] \in alive /\ minted[p[1]] = p[2]}
    /\ call[c].newer = {}
    /\ \A d \in Calls \ {c} : call[d].kind = "idle"

(* A refresh that nothing disturbed leaves every row, every binding and the
   server in agreement, whatever mistakes or crashes came before it. *)
QuietRefreshSettles ==
    [][\A c \in Calls :
          (Undisturbed(c) /\ call'[c].kind = "idle" /\ up' # "down") =>
              \A s \in Sessions : Agrees(s)']_vars

-----------------------------------------------------------------------------
(* Liveness *)

(* A row that an unreachable server turned unknown does not stay unknown. *)
UnknownLeaves == \A s \in Sessions : row[s] = "unknown" ~> row[s] # "unknown"

(* The guards against a second Restore and against judging a create too early
   are always lifted again, on every way out of the call. *)
FlightsLand ==
    \A s \in Sessions :
        s \in creating \cup restoring ~> s \notin creating \cup restoring

-----------------------------------------------------------------------------
(* What the documentation promises and the code does not keep *)

(* reconcile() can tell a session that is gone from one that is not born yet:
   it never offers Restore on a row whose session lives. *)
GoneIsNotUnborn ==
    [][\A s \in Sessions :
          (row[s] # "restorable" /\ row'[s] = "restorable") => ~Lives(s)]_vars

(* An End that lands on a row just removed does not write exited over the
   tombstone, whichever verb or tick it comes from. *)
EndNeverUndoesRemove ==
    [][\A s \in Sessions : row[s] = "discarded" => row'[s] # "exited"]_vars

=============================================================================
