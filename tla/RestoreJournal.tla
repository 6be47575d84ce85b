--------------------------- MODULE RestoreJournal ---------------------------
(***************************************************************************)
(* The write-ahead journal of a restore (src/main/restore/journal.ts and   *)
(* manifest/restore-journal.ts): each restore commits its intent before it *)
(* touches tmux and closes it on every way out, and the first list a       *)
(* launch gets of tmux resolves what an earlier run left open.             *)
(*                                                                         *)
(* Every write here is a durable commit, so a crash falls between two of   *)
(* them.  What the code does without an await excludes the other calls of  *)
(* the process, and only a crash or tmux itself comes between its commits. *)
(* A tmux session carries the number of the attempt that made it.  Time is *)
(* the number of attempts begun, all that is compared with startedAt.      *)
(***************************************************************************)
EXTENDS Naturals, Sequences

CONSTANTS
    Sessions,      \* session rows, each restorable at first
    MaxAttempts,   \* bound: restores begun
    MaxCrashes,    \* bound: times the application dies
    MaxFaults      \* bound: writes of the manifest that fail

ASSUME BoundsAssumption ==
    /\ MaxAttempts \in Nat
    /\ MaxCrashes \in Nat
    /\ MaxFaults \in Nat

VARIABLES
    row,        \* manifest: what each session's row says       (durable)
    rec,        \* manifest: the restore record of each row     (durable)
    journal,    \* manifest: the table restore_attempts         (durable)
    alive,      \* tmux: the sessions that live
    app,        \* the application: "down", "booting" or "up"
    run,        \* which launch this is
    resolved,   \* GmuxCore.journalResolved
    todo,       \* the resolutions still to be carried out
    spoken,     \* the notice latch of this run
    work,       \* the restore in flight of each session
    due,        \* GmuxCore.refreshTimer is armed
    list,       \* the refresh in flight, and what tmux answered
    told,       \* history: how often each attempt was told of
    spoiled,    \* history: the attempts a write failed for
    crashes, faults

durable == <<row, rec, journal>>
resolver == <<resolved, todo, spoken>>
refresh == <<due, list>>
history == <<told, spoiled>>
vars == <<durable, alive, app, run, resolver, work, refresh, history, crashes, faults>>

Attempts == 1..MaxAttempts
Runs == 1..(MaxCrashes + 1)
Records == [kind : {"none", "restored", "failed", "interrupted"}, at : Attempts \cup {0},
            by : {"nobody", "restore", "resolver"}]
Entries == [row : Sessions, run : Runs, noted : BOOLEAN,
            outcome : {"open", "restored", "failed", "interrupted"}]
Verdicts == {"already", "cameBack", "notBack"}
Steps == {"record", "close", "tell"}
Resolutions == [attempt : Attempts, verdict : Verdicts, owes : SUBSET Steps]
Lists == [at : {"none", "asked", "taken", "judging"}, seen : SUBSET Attempts,
          newer : SUBSET Sessions]

TypeOK ==
    /\ row \in [Sessions -> {"gone", "restorable", "live", "removed"}]
    /\ rec \in [Sessions -> Records]
    /\ journal \in Seq(Entries)
    /\ Len(journal) <= MaxAttempts
    /\ alive \subseteq 1..Len(journal)
    /\ app \in {"down", "booting", "up"}
    /\ run \in Runs
    /\ resolved \in BOOLEAN
    /\ todo \subseteq Resolutions
    /\ spoken \in BOOLEAN
    /\ work \in [Sessions -> [at : {"idle", "asked", "spawned", "created", "mirroring",
                                    "failed"},
                              attempt : Attempts \cup {0}]]
    /\ due \in BOOLEAN
    /\ list \in Lists
    /\ told \in [Attempts -> Nat]
    /\ spoiled \subseteq Attempts
    /\ crashes \in 0..MaxCrashes
    /\ faults \in 0..MaxFaults

Idle == [at |-> "idle", attempt |-> 0]
NoRecord == [kind |-> "none", at |-> 0, by |-> "nobody"]
NoList == [at |-> "none", seen |-> {}, newer |-> {}]

Init ==
    /\ row = [s \in Sessions |-> "restorable"]
    /\ rec = [s \in Sessions |-> NoRecord]
    /\ journal = <<>>
    /\ alive = {}
    /\ app = "booting"
    /\ run = 1
    /\ resolved = FALSE
    /\ todo = {}
    /\ spoken = FALSE
    /\ work = [s \in Sessions |-> Idle]
    /\ due = TRUE
    /\ list = [NoList EXCEPT !.at = "asked"]
    /\ told = [a \in Attempts |-> 0]
    /\ spoiled = {}
    /\ crashes = 0
    /\ faults = 0

-----------------------------------------------------------------------------
(* What the handlers share *)

\* No handler is between two commits it makes without an await.
Quiet == list.at # "judging" /\ \A s \in Sessions : work[s].at # "failed"

Recorded(s, kind, by) ==
    rec' = [rec EXCEPT ![s] = [kind |-> kind, at |-> Len(journal), by |-> by]]

\* Mistake: an attempt that something closed already keeps the outcome it has.
ClosedIfOpen(a, outcome) ==
    [journal EXCEPT ![a].outcome = IF @ = "open" THEN outcome ELSE @]

\* finishRestoreAttempt
Closed(a, outcome) == [journal EXCEPT ![a].outcome = outcome]

\* A write of the attempt a fails, the n-th in this step.
Faulty(a, n) ==
    /\ faults + n <= MaxFaults
    /\ faults' = faults + n
    /\ spoiled' = spoiled \cup {a}

NoFault == UNCHANGED <<faults, spoiled>>

\* Mistake: the finally forgets the attempt.
LeavesOpen(s, n) ==
    /\ work' = [work EXCEPT ![s] = Idle]
    /\ IF n = 0 THEN NoFault ELSE Faulty(work[s].attempt, n)
    /\ UNCHANGED journal

\* The finally of restoreSessionAdmitted, when n writes failed or the row is gone:
\* the attempt still open is closed as interrupted, unless that fails as well.
Interrupted(s, n) ==
    LET a == work[s].attempt IN
    /\ work' = [work EXCEPT ![s] = Idle]
    /\ \/ /\ journal' = Closed(a, "interrupted")
          /\ IF n = 0 THEN NoFault ELSE Faulty(a, n)
       \/ /\ Faulty(a, n + 1)
          /\ UNCHANGED journal

-----------------------------------------------------------------------------
(* A restore *)

\* The gates of restoreSessionAdmitted, and the intent in a commit of its own.
RestoreSession(s) ==
    /\ app = "up"
    /\ Quiet
    /\ row[s] \in {"restorable", "removed"}
    /\ work[s].at = "idle"
    /\ Len(journal) < MaxAttempts
    /\ journal' = Append(journal, [row |-> s, run |-> run, noted |-> FALSE,
                                   outcome |-> "open"])
    /\ work' = [work EXCEPT ![s] = [at |-> "asked", attempt |-> Len(journal) + 1]]
    /\ UNCHANGED <<row, rec, alive, app, run, resolver, refresh, history, crashes,
                   faults>>

\* tmux creates the session, under the identity of its row.
Spawn(s) ==
    /\ work[s].at = "asked"
    /\ alive' = alive \cup {work[s].attempt}
    /\ work' = [work EXCEPT ![s].at = "spawned"]
    /\ UNCHANGED <<durable, app, run, resolver, refresh, history, crashes, faults>>

\* onCreated, whose failure is swallowed.
NoteTmuxId(s) ==
    LET a == work[s].attempt IN
    /\ Quiet
    /\ work[s].at = "spawned"
    /\ work' = [work EXCEPT ![s].at = "created"]
    /\ \/ journal' = [journal EXCEPT ![a].noted = TRUE] /\ NoFault
       \/ Faulty(a, 1) /\ UNCHANGED journal
    /\ UNCHANGED <<row, rec, alive, app, run, resolver, refresh, told, crashes>>

\* A refusal before the spawn, a failed one, or one whose answer was not waited for.
CreateFails(s) ==
    /\ Quiet
    /\ work[s].at \in {"asked", "spawned"}
    /\ \/ /\ row[s] # "gone"
          /\ Recorded(s, "failed", "restore")
          /\ work' = [work EXCEPT ![s].at = "failed"]
          /\ NoFault
          /\ UNCHANGED journal
       \/ /\ Interrupted(s, IF row[s] = "gone" THEN 0 ELSE 1)
          /\ UNCHANGED rec
    /\ UNCHANGED <<row, alive, app, run, resolver, refresh, told, crashes>>

\* The close that follows the record of a failed restore.
CloseFailed(s) ==
    /\ work[s].at = "failed"
    /\ \/ /\ journal' = Closed(work[s].attempt, "failed")
          /\ work' = [work EXCEPT ![s] = Idle]
          /\ NoFault
       \/ Interrupted(s, 1)
    /\ UNCHANGED <<row, rec, alive, app, run, resolver, refresh, told, crashes>>

\* The replay and the arming are over: setRestoreResult, one commit for the record,
\* the status and lastSeen.
SetRestoreResult(s) ==
    /\ Quiet
    /\ work[s].at = "created"
    /\ \/ /\ row[s] # "gone"
          /\ row' = [row EXCEPT ![s] = "live"]
          /\ Recorded(s, "restored", "restore")
          /\ list' = IF list.at = "none" THEN list
                     ELSE [list EXCEPT !.newer = @ \cup {s}]
          /\ work' = [work EXCEPT ![s].at = "mirroring"]
          /\ NoFault
          /\ UNCHANGED journal
       \/ /\ Interrupted(s, IF row[s] = "gone" THEN 0 ELSE 1)
          /\ UNCHANGED <<row, rec, list>>
    /\ UNCHANGED <<alive, app, run, resolver, due, told, crashes>>

\* The options are mirrored into tmux, and the attempt is closed.
FinishRestore(s) ==
    /\ Quiet
    /\ work[s].at = "mirroring"
    /\ \/ /\ journal' = Closed(work[s].attempt, "restored")
          /\ work' = [work EXCEPT ![s] = Idle]
          /\ NoFault
       \/ Interrupted(s, 1)
    /\ UNCHANGED <<row, rec, alive, app, run, resolver, refresh, told, crashes>>

-----------------------------------------------------------------------------
(* The rows, under the hands of other verbs *)

RemoveSession(s) ==
    /\ app = "up"
    /\ Quiet
    /\ row[s] = "restorable"
    /\ row' = [row EXCEPT ![s] = "removed"]
    /\ UNCHANGED <<rec, journal, alive, app, run, resolver, work, refresh, history,
                   crashes, faults>>

\* discardSession, at the end of a restart, deletes the row and its record.
DiscardSession(s) ==
    /\ app = "up"
    /\ Quiet
    /\ row[s] # "gone"
    /\ row' = [row EXCEPT ![s] = "gone"]
    /\ rec' = [rec EXCEPT ![s] = NoRecord]
    /\ UNCHANGED <<journal, alive, app, run, resolver, work, refresh, history, crashes,
                   faults>>

-----------------------------------------------------------------------------
(* The resolver *)

Open(a) == journal[a].outcome = "open"

\* The row carries a record from this attempt or from a later one.
AlreadyRecorded(a) ==
    rec[journal[a].row].kind # "none" /\ rec[journal[a].row].at >= a

\* Mistake: the journal is believed where tmux says otherwise.
NotedLives(a) == journal[a].noted /\ a \in list.seen

\* A listed session carries the identity of the attempt's row, noted or not.
IdentityLives(a) == \E t \in list.seen : journal[t].row = journal[a].row

Verdict(a) ==
    CASE AlreadyRecorded(a) -> "already"
      [] ~AlreadyRecorded(a) /\ IdentityLives(a) -> "cameBack"
      [] OTHER -> "notBack"

\* Mistake: the attempt is closed first.
ClosesFirst == [record |-> 2, close |-> 1, tell |-> 3]

\* Mistake: the person is told first.
TellsFirst == [record |-> 1, close |-> 3, tell |-> 2]

\* The order of one resolution: a crash in the middle is found by the next launch.
Order == [record |-> 1, close |-> 2, tell |-> 3]

\* A resolution leaves out the record of a row that has its own or is gone, and the
\* notice where there is nothing to do for a person.
Resolution(a) ==
    LET there == row[journal[a].row] # "gone"
        records == IF there /\ Verdict(a) # "already" THEN {"record"} ELSE {}
        tells == IF there /\ Verdict(a) = "notBack" THEN {"tell"} ELSE {}
    IN [attempt |-> a, verdict |-> Verdict(a), owes |-> {"close"} \cup records \cup tells]

\* Mistake: an attempt whose row is gone is passed over.
OpenWithRow == {a \in 1..Len(journal) : Open(a) /\ row[journal[a].row] # "gone"}

\* listUnfinishedRestoreAttempts, whichever run they are of.
OpenAttempts == {a \in 1..Len(journal) : Open(a)}

\* resolveRestoreJournalOnce, up to its loop.
ResolveJournal ==
    /\ list.at = "taken"
    /\ Quiet
    /\ ~resolved
    /\ resolved' = TRUE
    /\ todo' = {Resolution(a) : a \in OpenAttempts}
    /\ list' = [list EXCEPT !.at = "judging"]
    /\ UNCHANGED <<durable, alive, app, run, spoken, work, due, history, crashes, faults>>

\* What a resolution stores, on the row and in the journal.
RecordKind(r) ==
    CASE r.verdict = "already" -> rec[journal[r.attempt].row].kind
      [] r.verdict = "cameBack" -> "interrupted"
      [] r.verdict = "notBack" -> "failed"

\* Mistake: the journal is closed with the verdict.
ClosesWithVerdict(r) == r.verdict

ClosesWith(r) == RecordKind(r)

\* The oldest attempt is resolved first, and each of its steps in its turn.
AtHand(r) == \A other \in todo : r.attempt <= other.attempt
Due(r, step) == step \in r.owes /\ \A other \in r.owes : Order[step] <= Order[other]

\* A step of a resolution is done; with the last one so is the resolution.
Stepped(r, step) ==
    (todo \ {r}) \cup (IF r.owes = {step} THEN {} ELSE {[r EXCEPT !.owes = @ \ {step}]})

\* One step of the resolution at hand.  A write that fails gives this one up.
ResolverSteps ==
    /\ \E r \in todo :
        /\ AtHand(r)
        /\ \/ /\ Due(r, "record")
              /\ Recorded(journal[r.attempt].row, RecordKind(r), "resolver")
              /\ todo' = Stepped(r, "record")
              /\ NoFault
              /\ UNCHANGED <<journal, spoken, told>>
           \/ /\ Due(r, "close")
              /\ journal' = Closed(r.attempt, ClosesWith(r))
              /\ todo' = Stepped(r, "close")
              /\ NoFault
              /\ UNCHANGED <<rec, spoken, told>>
           \/ /\ Due(r, "tell")
              /\ spoken' = TRUE
              /\ told' = IF spoken THEN told ELSE [told EXCEPT ![r.attempt] = @ + 1]
              /\ todo' = Stepped(r, "tell")
              /\ NoFault
              /\ UNCHANGED <<rec, journal>>
           \/ /\ Due(r, "record") \/ Due(r, "close")
              /\ Faulty(r.attempt, 1)
              /\ todo' = todo \ {r}
              /\ UNCHANGED <<rec, journal, spoken, told>>
    /\ UNCHANGED <<row, alive, app, run, resolved, work, refresh, crashes>>

-----------------------------------------------------------------------------
(* The refresh around it *)

RefreshBegins ==
    /\ app # "down"
    /\ Quiet
    /\ due
    /\ list.at = "none"
    /\ due' = FALSE
    /\ list' = [NoList EXCEPT !.at = "asked"]
    /\ UNCHANGED <<durable, alive, app, run, resolver, work, history, crashes, faults>>

\* tmux answers, with the identity of each live session, or no server is there.
RefreshLists ==
    /\ list.at = "asked"
    /\ list' = [list EXCEPT !.at = "taken", !.seen = alive]
    /\ UNCHANGED <<durable, alive, app, run, resolver, work, due, history, crashes,
                   faults>>

\* The server cannot be reached: nothing is judged, a retry is scheduled, and a
\* boot goes on all the same.
RefreshUnreachable ==
    /\ Quiet
    /\ list.at = "asked"
    /\ list' = NoList
    /\ due' = TRUE
    /\ app' = "up"
    /\ UNCHANGED <<durable, alive, run, resolver, work, history, crashes, faults>>

\* reconcile: rows are claimed by identity, and those nobody saw can be restored,
\* unless a restore is in flight or was over after the list was asked for.
Judged ==
    [s \in Sessions |->
        IF row[s] \notin {"restorable", "live"} THEN row[s]
        ELSE IF \E t \in list.seen : journal[t].row = s THEN "live"
        ELSE IF work[s].at = "idle" /\ s \notin list.newer THEN "restorable"
        ELSE row[s]]

Reconcile ==
    /\ \/ list.at = "judging" /\ todo = {}
       \/ list.at = "taken" /\ resolved /\ Quiet
    /\ row' = Judged
    /\ list' = NoList
    /\ app' = "up"
    /\ UNCHANGED <<rec, journal, alive, run, resolver, work, due, history, crashes,
                   faults>>

\* The window, a wake from sleep or an event of tmux asks for a refresh.
ScheduleRefresh ==
    /\ app = "up"
    /\ ~due
    /\ due' = TRUE
    /\ UNCHANGED <<durable, alive, app, run, resolver, work, list, history, crashes,
                   faults>>

-----------------------------------------------------------------------------
(* tmux and the application *)

\* A session ends; a server or a machine that dies takes them all, one by one.
SessionCloses(t) ==
    /\ t \in alive
    /\ alive' = alive \ {t}
    /\ UNCHANGED <<durable, app, run, resolver, work, refresh, history, crashes, faults>>

AppDies ==
    /\ app # "down"
    /\ crashes < MaxCrashes
    /\ crashes' = crashes + 1
    /\ app' = "down"
    /\ resolved' = FALSE
    /\ todo' = {}
    /\ spoken' = FALSE
    /\ work' = [s \in Sessions |-> Idle]
    /\ due' = FALSE
    /\ list' = NoList
    /\ UNCHANGED <<durable, alive, run, history, faults>>

\* boot awaits a refresh of its own, beside the one that 'connected' schedules.
Boot ==
    /\ app = "down"
    /\ app' = "booting"
    /\ run' = run + 1
    /\ due' = TRUE
    /\ list' = [NoList EXCEPT !.at = "asked"]
    /\ UNCHANGED <<durable, alive, resolver, work, history, crashes, faults>>

-----------------------------------------------------------------------------

Restoring(s) ==
    \/ Spawn(s) \/ NoteTmuxId(s) \/ CreateFails(s) \/ CloseFailed(s)
    \/ SetRestoreResult(s) \/ FinishRestore(s)

Verb(s) == RestoreSession(s) \/ RemoveSession(s) \/ DiscardSession(s)

Resolving == ResolveJournal \/ ResolverSteps \/ Reconcile

Next ==
    \/ \E s \in Sessions : Verb(s) \/ Restoring(s)
    \/ Resolving
    \/ RefreshBegins \/ RefreshLists \/ RefreshUnreachable \/ ScheduleRefresh
    \/ \E t \in alive : SessionCloses(t)
    \/ AppDies \/ Boot

Spec == Init /\ [][Next]_vars

(* Execs of tmux answer or time out, timers fire, and a server that is asked again
   and again is reached in the end.  Nobody has to start the application again. *)
Fairness ==
    /\ \A s \in Sessions : WF_vars(Restoring(s))
    /\ WF_vars(Resolving)
    /\ WF_vars(RefreshBegins)
    /\ SF_vars(RefreshLists)

FairSpec == Spec /\ Fairness

-----------------------------------------------------------------------------
(* Safety *)

(* Once a launch has resolved the journal, what is open in it is the work of this
   launch, or of an attempt one of whose writes failed: none is left to be taken for
   a fresh crash by the launch after. *)
NoneLeftBehind ==
    (resolved /\ todo = {}) =>
        \A a \in 1..Len(journal) :
            Open(a) => journal[a].run = run \/ a \in spoiled

(* Wherever a crash falls, a person is told of an attempt at most once, and only
   when it can no longer come up again. *)
ToldOnce ==
    \A a \in 1..Len(journal) :
        /\ told[a] <= 1
        /\ told[a] = 1 => ~Open(a)

(* A closed attempt has been accounted for on its row: a crash or a loss of power
   never leaves the journal closed and the row silent. *)
ClosedIsRecorded ==
    \A a \in 1..Len(journal) :
        (~Open(a) /\ a \notin spoiled /\ row[journal[a].row] # "gone")
            => rec[journal[a].row].at >= a

(* A restore of this run that heard of its session, and is over, is not down in the
   journal as failed, even if the first list came so late that the resolver took the
   attempt for one of an earlier run. *)
NotDenied ==
    \A a \in 1..Len(journal) :
        (journal[a].run = run /\ app = "up" /\ journal[a].noted /\ a \notin spoiled
             /\ work[journal[a].row].attempt # a)
            => journal[a].outcome # "failed"

(* Nobody is told that a session of an earlier run did not come back while it runs:
   who restores it then starts a second agent on one conversation. *)
ToldTruly ==
    [][\A a \in 1..Len(journal) :
          told'[a] > told[a] =>
              \A t \in alive : journal[t].row = journal[a].row => journal[t].run = run]_vars

-----------------------------------------------------------------------------
(* Liveness *)

Unfinished(a) == a \in 1..Len(journal) /\ Open(a)

(* While the application stays up the journal comes to rest again and again: every
   attempt is closed, its own by the way out of the restore and one of an earlier run
   by the first list.  Attempts are bounded, so new ones do not stand in its way. *)
AttemptsClose ==
    []<>(app = "down" \/ \A a \in Attempts : Unfinished(a) => a \in spoiled)

=============================================================================
