---------------------------- MODULE CoreLifecycle ----------------------------
(***************************************************************************)
(* How the application quits: the one-way quit state (src/main/lifecycle), *)
(* the singleton core and its teardown (getGmuxCore and shutdownGmuxCore   *)
(* of src/main/sessions/core.ts), the ledger that admits mutations, and    *)
(* the ring of manifest generations whose last take is the quit's.         *)
(*                                                                         *)
(* A verb is one call of an admitted mutator.  It runs across awaits:      *)
(* admitted, then its row is declared, then it lands or fails.  The        *)
(* manifest is the set of <<verb, stage>> facts written so far, which is   *)
(* also its fingerprint.  The steps of the ordered disposer before and     *)
(* after the core's teardown are bounded waits and are one step each.      *)
(***************************************************************************)
EXTENDS Naturals, FiniteSets

CONSTANTS
    Windows,        \* renderers asking over the typed IPC wrapper
    Insiders,       \* main-process code asking: tray, power, diagnostics
    Verbs,          \* the mutations asked for, each once
    LongVerbs,      \* of these, the creates and restores: busy() sees them
    MaxBoots,       \* bound: cores booted in this process
    MaxCycles,      \* bound: shutdowns a harness asks for, without a quit
    MaxTakes        \* bound: generations the poll starts

ASSUME CallersAssumption == Windows \cap Insiders = {}
ASSUME VerbsAssumption == LongVerbs \subseteq Verbs
ASSUME CyclesAssumption ==
    /\ MaxBoots \in Nat \ {0}
    /\ MaxCycles \in Nat
    /\ MaxTakes \in Nat

Callers == Windows \cup Insiders
Cores == 1..MaxBoots
NoCore == 0
Facts == Verbs \X {"declared", "landed"}
Steps == {"none", "boot", "join", "drain", "generation", "hooks"}

\* takenAtFingerprint before any take: null, which no fingerprint equals.
NotTaken == {<<NoCore, "null">>}
NoCopy == [on |-> FALSE, quit |-> FALSE, read |-> FALSE, mark |-> {}, got |-> {}]

VARIABLES
    app,        \* AppLifecycleState, and "gone" once the process ended
    disposer,   \* the ordered disposer: "idle", "before", "waiting", "after"
    lifecycle,  \* CoreLifecycleState
    slot,       \* corePromise, as the core it will answer
    core,       \* what became of each core booted
    teardown,   \* shutdownPromise, as the step its body is at
    tearing,    \* the core that body captured
    joinSet,    \* the verbs its join waits for
    flag,       \* cores whose ledger refuses
    caller,     \* what each caller is doing with getGmuxCore
    verb,       \* what became of each verb
    on,         \* the core each verb was admitted by
    manifest,   \* the facts written
    kept,       \* the facts the newest generation of the ring holds
    polling,    \* cores whose ring schedule has its timer armed
    copy,       \* the take in flight of each schedule: inFlight
    takenAt,    \* takenAtFingerprint of each schedule
    excuses,    \* history: what kept a core's teardown from saving everything
    cycles, takes

ring == <<kept, polling, copy, takenAt>>
slotVars == <<lifecycle, slot, core>>
teardownVars == <<teardown, tearing, joinSet, flag, excuses>>
verbs == <<verb, on, manifest>>
vars == <<app, disposer, slotVars, teardownVars, caller, verbs, ring, cycles, takes>>

CopyRecords == [on : BOOLEAN, quit : BOOLEAN, read : BOOLEAN,
                mark : SUBSET Facts, got : SUBSET Facts]

TypeOK ==
    /\ app \in {"running", "quitting", "gone"}
    /\ disposer \in {"idle", "before", "waiting", "after"}
    /\ lifecycle \in {"empty", "booting", "ready", "shuttingDown"}
    /\ slot \in Cores \cup {NoCore}
    /\ core \in [Cores -> {"unborn", "booting", "live", "failed", "disposed"}]
    /\ teardown \in Steps
    /\ tearing \in Cores \cup {NoCore}
    /\ joinSet \subseteq Verbs
    /\ flag \subseteq Cores
    /\ caller \in [Callers -> [at : {"out", "waiting", "holding"},
                               core : Cores \cup {NoCore}]]
    /\ verb \in [Verbs -> {"todo", "refused", "running", "declared", "landed", "failed"}]
    /\ on \in [Verbs -> Cores \cup {NoCore}]
    /\ manifest \subseteq Facts
    /\ kept \subseteq Facts
    /\ polling \subseteq Cores
    /\ copy \in [Cores -> CopyRecords]
    /\ takenAt \in [Cores -> (SUBSET Facts) \cup {NotTaken}]
    /\ excuses \subseteq Cores \X {"late", "failed", "inFlight"}
    /\ cycles \in 0..MaxCycles
    /\ takes \in 0..MaxTakes

Out == [at |-> "out", core |-> NoCore]

Init ==
    /\ app = "running"
    /\ disposer = "idle"
    /\ lifecycle = "empty"
    /\ slot = NoCore
    /\ core = [k \in Cores |-> "unborn"]
    /\ teardown = "none"
    /\ tearing = NoCore
    /\ joinSet = {}
    /\ flag = {}
    /\ caller = [p \in Callers |-> Out]
    /\ verb = [v \in Verbs |-> "todo"]
    /\ on = [v \in Verbs |-> NoCore]
    /\ manifest = {}
    /\ kept = {}
    /\ polling = {}
    /\ copy = [k \in Cores |-> NoCopy]
    /\ takenAt = [k \in Cores |-> NotTaken]
    /\ excuses = {}
    /\ cycles = 0
    /\ takes = 0

-----------------------------------------------------------------------------
(* Getting a core *)

\* The typed IPC wrapper refuses a window from the moment the quit is marked;
\* nothing of the kind stands in front of the main process itself.
MayAsk(p) == app = "running" \/ (app = "quitting" /\ p \in Insiders)

Unborn(k) == core[k] = "unborn" /\ \A j \in Cores : core[j] = "unborn" => k <= j

\* getGmuxCore: a refusal while shutting down, the core in the slot, or a boot.
AskForCore(p) ==
    /\ MayAsk(p)
    /\ lifecycle # "shuttingDown"
    /\ caller[p].at = "out"
    /\ \/ /\ slot # NoCore
          /\ caller' = [caller EXCEPT ![p] = [at |-> "waiting", core |-> slot]]
          /\ UNCHANGED slotVars
       \/ /\ slot = NoCore
          /\ \E k \in Cores :
               /\ Unborn(k)
               /\ slot' = k
               /\ core' = [core EXCEPT ![k] = "booting"]
               /\ caller' = [caller EXCEPT ![p] = [at |-> "waiting", core |-> k]]
          /\ lifecycle' = "booting"
    /\ UNCHANGED <<app, disposer, teardownVars, verbs, ring, cycles, takes>>

\* Mistake: written in the words of the core's own states.
ReadyAsLive == "live"

\* The boot callback leaves a shutdown that started meanwhile alone.
ReadyUnlessShutting == IF lifecycle = "booting" THEN "ready" ELSE lifecycle

\* withRingLock: one capture at a time, whichever core asked for it.
RingFree == \A k \in Cores : ~copy[k].read

\* boot resolves; it starts the ring schedule and awaits its launch take, which
\* may fail, before it does.  Nothing can write this core's manifest until then.
BootSucceeds(k) ==
    /\ core[k] = "booting"
    /\ RingFree
    /\ core' = [core EXCEPT ![k] = "live"]
    /\ polling' = polling \cup {k}
    /\ \/ /\ kept' = manifest
          /\ takenAt' = [takenAt EXCEPT ![k] = manifest]
       \/ UNCHANGED <<kept, takenAt>>
    /\ lifecycle' = ReadyUnlessShutting
    /\ UNCHANGED <<app, disposer, slot, teardownVars, caller, verbs, copy, cycles,
                   takes>>

BootFails(k) ==
    /\ core[k] = "booting"
    /\ core' = [core EXCEPT ![k] = "failed"]
    /\ slot' = NoCore
    /\ lifecycle' = IF lifecycle = "booting" THEN "empty" ELSE lifecycle
    /\ UNCHANGED <<app, disposer, teardownVars, caller, verbs, ring, cycles, takes>>

\* await getGmuxCore() answers its caller, or rejects.
CoreArrives(p) ==
    /\ caller[p].at = "waiting"
    /\ core[caller[p].core] # "booting"
    /\ caller' = [caller EXCEPT ![p] =
                    IF core[@.core] = "failed" THEN Out ELSE [@ EXCEPT !.at = "holding"]]
    /\ UNCHANGED <<app, disposer, slotVars, teardownVars, verbs, ring, cycles, takes>>

LetsGo(p) ==
    /\ caller[p].at = "holding"
    /\ caller' = [caller EXCEPT ![p] = Out]
    /\ UNCHANGED <<app, disposer, slotVars, teardownVars, verbs, ring, cycles, takes>>

-----------------------------------------------------------------------------
(* The ledger and the bodies it admitted *)

\* Mistake: the ledger looks at the disposed flag only.
RefusesDisposed(k) == core[k] = "disposed"

Refuses(k) == k \in flag \/ core[k] = "disposed"

Call(p, v) ==
    LET k == caller[p].core IN
    /\ app # "gone"
    /\ caller[p].at = "holding"
    /\ verb[v] = "todo"
    /\ verb' = [verb EXCEPT ![v] = IF Refuses(k) THEN "refused" ELSE "running"]
    /\ on' = [on EXCEPT ![v] = k]
    /\ UNCHANGED <<app, disposer, slotVars, teardownVars, caller, manifest, ring,
                   cycles, takes>>

InFlight(v) == verb[v] \in {"running", "declared"}
ClosedFor(v) == core[on[v]] = "disposed"

\* The body writes its row, which a closed manifest answers with a throw.
Declares(v) ==
    /\ app # "gone"
    /\ verb[v] = "running"
    /\ ~ClosedFor(v)
    /\ verb' = [verb EXCEPT ![v] = "declared"]
    /\ manifest' = manifest \cup {<<v, "declared">>}
    /\ UNCHANGED <<app, disposer, slotVars, teardownVars, caller, on, ring, cycles,
                   takes>>

Lands(v) ==
    /\ app # "gone"
    /\ verb[v] = "declared"
    /\ ~ClosedFor(v)
    /\ verb' = [verb EXCEPT ![v] = "landed"]
    /\ manifest' = manifest \cup {<<v, "landed">>}
    /\ UNCHANGED <<app, disposer, slotVars, teardownVars, caller, on, ring, cycles,
                   takes>>

\* A body that fails takes its row back, if the manifest still takes writes.
Fails(v) ==
    /\ app # "gone"
    /\ InFlight(v)
    /\ verb' = [verb EXCEPT ![v] = "failed"]
    /\ manifest' = IF ClosedFor(v) THEN manifest ELSE manifest \ {<<v, "declared">>}
    /\ UNCHANGED <<app, disposer, slotVars, teardownVars, caller, on, ring, cycles,
                   takes>>

-----------------------------------------------------------------------------
(* The ring schedule of each core *)

\* run: the fingerprint read before the take is the one it will be known by.
Take(k, forQuit) ==
    copy' = [copy EXCEPT ![k] = [NoCopy EXCEPT !.on = TRUE, !.quit = forQuit,
                                               !.mark = manifest]]

Busy(k) == \E v \in LongVerbs : on[v] = k /\ InFlight(v)

\* maybeTake from the timer: deferred while busy, nothing when nothing changed.
PollTakes(k) ==
    /\ app # "gone"
    /\ k \in polling
    /\ takes < MaxTakes
    /\ takes' = takes + 1
    /\ ~Busy(k)
    /\ manifest # takenAt[k]
    /\ ~copy[k].on
    /\ Take(k, FALSE)
    /\ UNCHANGED <<app, disposer, slotVars, teardownVars, caller, verbs, kept, polling,
                   takenAt, cycles>>

\* snapshotDatabase reads the manifest as it is by then.
CopyReads(k) ==
    /\ app # "gone"
    /\ copy[k].on
    /\ RingFree
    /\ copy' = [copy EXCEPT ![k] = [@ EXCEPT !.read = TRUE, !.got = manifest]]
    /\ UNCHANGED <<app, disposer, slotVars, teardownVars, caller, verbs, kept, polling,
                   takenAt, cycles, takes>>

\* Mistake: the fingerprint is read when the take is over.
MarkAfter(k) == manifest

MarkBefore(k) == copy[k].mark

\* recordSuccess
CopyEnds(k) ==
    /\ app # "gone"
    /\ copy[k].read
    /\ kept' = copy[k].got
    /\ takenAt' = [takenAt EXCEPT ![k] = MarkBefore(k)]
    /\ copy' = [copy EXCEPT ![k] = NoCopy]
    /\ UNCHANGED <<app, disposer, slotVars, teardownVars, caller, verbs, polling,
                   cycles, takes>>

\* recordFailure: a full disk, a damaged copy.
CopyFails(k) ==
    /\ app # "gone"
    /\ copy[k].on
    /\ copy' = [copy EXCEPT ![k] = NoCopy]
    /\ excuses' = IF teardown = "generation" /\ tearing = k
                  THEN excuses \cup {<<k, "failed">>} ELSE excuses
    /\ UNCHANGED <<app, disposer, slotVars, teardown, tearing, joinSet, flag, caller,
                   verbs, kept, polling, takenAt, cycles, takes>>

-----------------------------------------------------------------------------
(* The quit, and shutdownGmuxCore *)

\* before-quit, first pass: the state flips before anything is awaited.
BeforeQuit ==
    /\ app = "running"
    /\ app' = "quitting"
    /\ disposer' = "before"
    /\ UNCHANGED <<slotVars, teardownVars, caller, verbs, ring, cycles, takes>>

\* shutdownGmuxCore with nothing in flight and a core in the slot.
BeginTeardown ==
    /\ lifecycle' = "shuttingDown"
    /\ tearing' = slot
    /\ teardown' = "boot"
    /\ UNCHANGED <<slot, core, joinSet, flag, excuses>>

\* The disposer reaches the core: it joins a teardown in flight, finds nothing
\* to tear down, or starts.
DisposerShutsDown ==
    /\ disposer = "before"
    /\ \/ /\ teardown # "none"
          /\ disposer' = "waiting"
          /\ UNCHANGED <<slotVars, teardownVars>>
       \/ /\ teardown = "none"
          /\ slot = NoCore
          /\ disposer' = "after"
          /\ UNCHANGED <<slotVars, teardownVars>>
       \/ /\ teardown = "none"
          /\ slot # NoCore
          /\ disposer' = "waiting"
          /\ BeginTeardown
    /\ UNCHANGED <<app, caller, verbs, ring, cycles, takes>>

\* A harness shuts the core down and goes on in the same process.
HarnessShutsDown ==
    /\ app = "running"
    /\ cycles < MaxCycles
    /\ cycles' = cycles + 1
    /\ teardown = "none"
    /\ slot # NoCore
    /\ BeginTeardown
    /\ UNCHANGED <<app, disposer, caller, verbs, ring, takes>>

\* Mistake: shutdownPromise is never reset.
KeepsPromise == UNCHANGED <<teardown, tearing>>

DropsPromise == teardown' = "none" /\ tearing' = NoCore

\* The finally of the teardown: the slot is cleared last of all.
EndTeardown ==
    /\ slot' = NoCore
    /\ lifecycle' = "empty"
    /\ DropsPromise
    /\ disposer' = IF disposer = "waiting" THEN "after" ELSE disposer

\* The boot was awaited: refusals on from here, and the join set is final.
TeardownBegins ==
    /\ app # "gone"
    /\ teardown = "boot"
    /\ core[tearing] = "live"
    /\ flag' = flag \cup {tearing}
    /\ joinSet' = {v \in Verbs : on[v] = tearing /\ InFlight(v)}
    /\ teardown' = "join"
    /\ UNCHANGED <<app, disposer, slotVars, tearing, excuses, caller, verbs, ring,
                   cycles, takes>>

\* Mistake: the teardown gives up on a boot that takes long.
BootGivenUp(k) == core[k] \in {"failed", "booting"}

BootRejected(k) == core[k] = "failed"

BootNeverFinished ==
    /\ app # "gone"
    /\ teardown = "boot"
    /\ BootRejected(tearing)
    /\ EndTeardown
    /\ UNCHANGED <<app, core, joinSet, flag, excuses, caller, verbs, ring, cycles,
                   takes>>

Joined ==
    /\ app # "gone"
    /\ teardown = "join"
    /\ \A v \in joinSet : ~InFlight(v)
    /\ teardown' = "drain"
    /\ UNCHANGED <<app, disposer, slotVars, tearing, joinSet, flag, excuses, caller,
                   verbs, ring, cycles, takes>>

\* Mistake: the join has no deadline.
NoDeadline == FALSE

Deadline == TRUE

\* MUTATION_JOIN_DEADLINE_MS
JoinExpires ==
    /\ app # "gone"
    /\ Deadline
    /\ teardown = "join"
    /\ \E v \in joinSet : InFlight(v)
    /\ teardown' = "drain"
    /\ excuses' = excuses \cup {<<tearing, "late">>}
    /\ UNCHANGED <<app, disposer, slotVars, tearing, joinSet, flag, caller, verbs,
                   ring, cycles, takes>>

\* The snapshot pass and the capture drain are over or out of time; then
\* onQuit: the timer stops, and a take starts unless nothing changed or one is
\* in flight already.
QuitGeneration ==
    LET k == tearing IN
    /\ app # "gone"
    /\ teardown = "drain"
    /\ polling' = polling \ {k}
    /\ teardown' = "generation"
    /\ \/ /\ manifest = takenAt[k]
          /\ UNCHANGED <<copy, excuses>>
       \/ /\ manifest # takenAt[k]
          /\ copy[k].on
          /\ excuses' = excuses \cup {<<k, "inFlight">>}
          /\ UNCHANGED copy
       \/ /\ manifest # takenAt[k]
          /\ ~copy[k].on
          /\ Take(k, TRUE)
          /\ UNCHANGED excuses
    /\ UNCHANGED <<app, disposer, slotVars, tearing, joinSet, flag, caller, verbs,
                   kept, takenAt, cycles, takes>>

Disposes ==
    /\ app # "gone"
    /\ teardown = "generation"
    /\ ~copy[tearing].quit
    /\ core' = [core EXCEPT ![tearing] = "disposed"]
    /\ polling' = polling \ {tearing}
    /\ teardown' = "hooks"
    /\ UNCHANGED <<app, disposer, lifecycle, slot, tearing, joinSet, flag, excuses,
                   caller, verbs, kept, copy, takenAt, cycles, takes>>

HooksJoined ==
    /\ app # "gone"
    /\ teardown = "hooks"
    /\ EndTeardown
    /\ UNCHANGED <<app, core, joinSet, flag, excuses, caller, verbs, ring, cycles,
                   takes>>

\* What is left of the disposer, the second pass of before-quit, and the end.
AppEnds ==
    /\ disposer = "after"
    /\ app = "quitting"
    /\ app' = "gone"
    /\ UNCHANGED <<disposer, slotVars, teardownVars, caller, verbs, ring, cycles,
                   takes>>

-----------------------------------------------------------------------------

Teardown ==
    \/ TeardownBegins \/ BootNeverFinished \/ Joined \/ JoinExpires
    \/ QuitGeneration \/ Disposes \/ HooksJoined

Booting(k) == BootSucceeds(k) \/ BootFails(k)
Copying(k) == CopyReads(k) \/ CopyEnds(k) \/ CopyFails(k)

Next ==
    \/ \E p \in Callers :
         \/ AskForCore(p) \/ CoreArrives(p) \/ LetsGo(p)
         \/ \E v \in Verbs : Call(p, v)
    \/ \E v \in Verbs : Declares(v) \/ Lands(v) \/ Fails(v)
    \/ \E k \in Cores : Booting(k) \/ PollTakes(k) \/ Copying(k)
    \/ BeforeQuit \/ DisposerShutsDown \/ HarnessShutsDown \/ AppEnds
    \/ Teardown

Spec == Init /\ [][Next]_vars

(* Boots and copies end, timers fire, and the disposer goes from one await to
   the next.  Nothing is assumed of the verbs: a body may never settle. *)
Fairness ==
    /\ \A k \in Cores : WF_vars(Booting(k)) /\ WF_vars(Copying(k))
    /\ WF_vars(Teardown)
    /\ WF_vars(DisposerShutsDown)
    /\ WF_vars(AppEnds)

FairSpec == Spec /\ Fairness

-----------------------------------------------------------------------------
(* Safety *)

Open(k) == core[k] \in {"booting", "live"}

(* No two cores are open at once, whatever asks for one while another is being
   torn down: two would hold the same manifest. *)
OneOpenCore == \A j, k \in Cores : Open(j) /\ Open(k) => j = k

(* The lifecycle the refusals read agrees with the slot: ready means the slot
   answers with a live core, empty that there is none, and shuttingDown that a
   teardown is in flight. *)
SlotHonest ==
    /\ lifecycle = "ready" => slot # NoCore /\ core[slot] = "live"
    /\ lifecycle = "empty" => slot = NoCore
    /\ (lifecycle = "shuttingDown") <=> (teardown # "none")

(* Disposing a core cuts no verb off that its ledger admitted, unless the join
   ran out of time: whatever the caller asked before or in the quit either
   settled or was refused before it wrote anything. *)
NoneCutOff ==
    \A v \in Verbs : (InFlight(v) /\ ClosedFor(v)) => <<on[v], "late">> \in excuses

(* A teardown that had time, and whose own take was neither lost nor turned
   away, leaves every fact of the manifest in the newest generation of the ring,
   the takes it skipped because nothing had changed included.  (That generation
   may hold more: a row whose create failed after the copy read it.) *)
QuitLosesNothing ==
    [][\A k \in Cores :
          (core[k] = "live" /\ core'[k] = "disposed"
             /\ \A why \in {"late", "failed", "inFlight"} : <<k, why>> \notin excuses)
          => manifest \subseteq kept]_vars

-----------------------------------------------------------------------------
(* Liveness *)

(* A quit always ends the process, however many verbs never settle. *)
QuitEnds == app = "quitting" ~> app = "gone"

(* The core that is in the slot when the quit reaches it is disposed of, in a
   second cycle of the same process as in the first. *)
QuitDisposes ==
    \A k \in Cores :
        (disposer = "before" /\ slot = k) ~> core[k] \in {"disposed", "failed"}

=============================================================================
