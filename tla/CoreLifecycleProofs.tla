------------------------- MODULE CoreLifecycleProofs -------------------------
(***************************************************************************)
(* Theorems about CoreLifecycle, for any callers, verbs, cores, shutdowns  *)
(* and takes: its types, one core open at a time, a lifecycle that agrees  *)
(* with the slot, no admitted verb cut off by a teardown in time, and a    *)
(* newest generation that holds all of the manifest when it is over.       *)
(***************************************************************************)
EXTENDS CoreLifecycle, TLAPS

-----------------------------------------------------------------------------
(* Types *)

LEMMA CoreIsNotNone == NoCore \notin Cores
BY DEF NoCore, Cores

LEMMA TypeInit == Init => TypeOK
BY CyclesAssumption
DEF Init, TypeOK, NoCopy, CopyRecords, Out, Steps

\* A verb of the window or of the main process about getting a core.
LEMMA TypeAsk ==
    ASSUME TypeOK, NEW p \in Callers,
           AskForCore(p) \/ CoreArrives(p) \/ LetsGo(p)
    PROVE  TypeOK'
<1>1. CASE AskForCore(p)
    BY <1>1 DEF AskForCore, TypeOK, slotVars, teardownVars, verbs, ring
<1>2. CASE CoreArrives(p)
    <2> DEFINE r == caller[p]
    <2>1. r \in [at : {"out", "waiting", "holding"}, core : Cores \cup {NoCore}]
        BY DEF TypeOK
    <2>2. [r EXCEPT !.at = "holding"]
            \in [at : {"out", "waiting", "holding"}, core : Cores \cup {NoCore}]
        BY <2>1
    <2>3. Out \in [at : {"out", "waiting", "holding"}, core : Cores \cup {NoCore}]
        BY DEF Out
    <2> QED
        BY <1>2, <2>2, <2>3
        DEF CoreArrives, TypeOK, slotVars, teardownVars, verbs, ring
<1>3. CASE LetsGo(p)
    BY <1>3 DEF LetsGo, Out, TypeOK, slotVars, teardownVars, verbs, ring
<1> QED BY <1>1, <1>2, <1>3

LEMMA TypeCall ==
    ASSUME TypeOK, NEW p \in Callers, NEW v \in Verbs, Call(p, v)
    PROVE  TypeOK'
BY DEF Call, TypeOK, slotVars, teardownVars, ring

LEMMA TypeBody ==
    ASSUME TypeOK, NEW v \in Verbs, Declares(v) \/ Lands(v) \/ Fails(v)
    PROVE  TypeOK'
<1>1. CASE Declares(v)
    BY <1>1 DEF Declares, TypeOK, Facts, slotVars, teardownVars, ring
<1>2. CASE Lands(v)
    BY <1>2 DEF Lands, TypeOK, Facts, slotVars, teardownVars, ring
<1>3. CASE Fails(v)
    BY <1>3 DEF Fails, TypeOK, slotVars, teardownVars, ring
<1> QED BY <1>1, <1>2, <1>3

LEMMA TypeBoot ==
    ASSUME TypeOK, NEW k \in Cores, Booting(k)
    PROVE  TypeOK'
<1>1. CASE BootSucceeds(k)
    BY <1>1 DEF BootSucceeds, ReadyUnlessShutting, TypeOK, teardownVars, verbs
<1>2. CASE BootFails(k)
    BY <1>2 DEF BootFails, TypeOK, teardownVars, verbs, ring
<1> QED BY <1>1, <1>2 DEF Booting

LEMMA NoCopyType == NoCopy \in CopyRecords
BY DEF NoCopy, CopyRecords

LEMMA TakeType ==
    ASSUME TypeOK, NEW k \in Cores, NEW forQuit \in BOOLEAN, Take(k, forQuit)
    PROVE  copy' \in [Cores -> CopyRecords]
<1>1. [NoCopy EXCEPT !.on = TRUE, !.quit = forQuit, !.mark = manifest] \in CopyRecords
    BY DEF NoCopy, CopyRecords, TypeOK
<1> QED BY <1>1 DEF Take, TypeOK

LEMMA TypeSchedule ==
    ASSUME TypeOK, NEW k \in Cores, PollTakes(k) \/ Copying(k)
    PROVE  TypeOK'
<1>1. CASE PollTakes(k)
    <2>1. copy' \in [Cores -> CopyRecords]
        BY <1>1, TakeType DEF PollTakes
    <2>2. takes' \in 0..MaxTakes
        BY <1>1, CyclesAssumption DEF PollTakes, TypeOK
    <2> QED
        BY <1>1, <2>1, <2>2
        DEF PollTakes, TypeOK, slotVars, teardownVars, verbs
<1>2. CASE CopyReads(k)
    <2>1. [copy[k] EXCEPT !.read = TRUE, !.got = manifest] \in CopyRecords
        <3>1. copy[k] \in CopyRecords /\ manifest \in SUBSET Facts
            BY DEF TypeOK
        <3> QED
            BY <3>1 DEF CopyRecords
    <2> QED
        BY <1>2, <2>1 DEF CopyReads, TypeOK, slotVars, teardownVars, verbs
<1>3. CASE CopyEnds(k)
    <2>1. copy[k].got \in SUBSET Facts /\ copy[k].mark \in SUBSET Facts
        BY DEF TypeOK, CopyRecords
    <2> QED
        BY <1>3, <2>1, NoCopyType
        DEF CopyEnds, MarkBefore, TypeOK, slotVars, teardownVars, verbs
<1>4. CASE CopyFails(k)
    BY <1>4, NoCopyType DEF CopyFails, TypeOK, slotVars, verbs
<1> QED BY <1>1, <1>2, <1>3, <1>4 DEF Copying

LEMMA TypeQuit ==
    ASSUME TypeOK, BeforeQuit \/ DisposerShutsDown \/ HarnessShutsDown \/ AppEnds
    PROVE  TypeOK'
<1>1. CASE BeforeQuit
    BY <1>1 DEF BeforeQuit, TypeOK, slotVars, teardownVars, verbs, ring
<1>2. CASE DisposerShutsDown
    BY <1>2
    DEF DisposerShutsDown, BeginTeardown, TypeOK, Steps, slotVars, teardownVars, verbs,
        ring
<1>3. CASE HarnessShutsDown
    <2>1. cycles' \in 0..MaxCycles
        BY <1>3, CyclesAssumption DEF HarnessShutsDown, TypeOK
    <2> QED
        BY <1>3, <2>1
        DEF HarnessShutsDown, BeginTeardown, TypeOK, Steps, verbs, ring
<1>4. CASE AppEnds
    BY <1>4 DEF AppEnds, TypeOK, slotVars, teardownVars, verbs, ring
<1> QED BY <1>1, <1>2, <1>3, <1>4

LEMMA EndType ==
    ASSUME TypeOK, EndTeardown
    PROVE  /\ slot' \in Cores \cup {NoCore}
           /\ lifecycle' \in {"empty", "booting", "ready", "shuttingDown"}
           /\ teardown' \in Steps
           /\ tearing' \in Cores \cup {NoCore}
           /\ disposer' \in {"idle", "before", "waiting", "after"}
BY DEF EndTeardown, DropsPromise, TypeOK, Steps

\* What the slot says of the cores and of the teardown; see SlotInvariant.
Tearing == teardown # "none"
AfterBoot == {"join", "drain", "generation"}
SlotInv ==
    /\ \A k \in Cores : Open(k) => slot = k
    /\ lifecycle = "booting" => slot # NoCore /\ core[slot] = "booting"
    /\ SlotHonest
    /\ Tearing => tearing \in Cores /\ slot \in {tearing, NoCore}
    /\ teardown \in AfterBoot => core[tearing] = "live"
    /\ teardown = "hooks" => core[tearing] = "disposed"

LEMMA TypeTeardown ==
    ASSUME TypeOK, SlotInv, Teardown
    PROVE  TypeOK'
<1>t. Tearing => tearing \in Cores
    BY DEF SlotInv
<1>1. CASE TeardownBegins
    BY <1>1, <1>t
    DEF TeardownBegins, Tearing, TypeOK, Steps, slotVars, verbs, ring
<1>2. CASE BootNeverFinished
    BY <1>2, EndType DEF BootNeverFinished, TypeOK, verbs, ring
<1>3. CASE Joined
    BY <1>3 DEF Joined, TypeOK, Steps, slotVars, verbs, ring
<1>4. CASE JoinExpires
    BY <1>4, <1>t
    DEF JoinExpires, Tearing, TypeOK, Steps, slotVars, verbs, ring
<1>5. CASE QuitGeneration
    <2>1. tearing \in Cores
        BY <1>5, <1>t DEF QuitGeneration, Tearing
    <2>2. copy' \in [Cores -> CopyRecords]
        BY <1>5, <2>1, TakeType DEF QuitGeneration, TypeOK
    <2>3. excuses' \subseteq Cores \X {"late", "failed", "inFlight"}
        <3>1. excuses' \subseteq excuses \cup {<<tearing, "inFlight">>}
            BY <1>5 DEF QuitGeneration
        <3> QED
            BY <2>1, <3>1 DEF TypeOK
    <2> QED
        BY <1>5, <2>2, <2>3 DEF QuitGeneration, TypeOK, Steps, slotVars, verbs
<1>6. CASE Disposes
    BY <1>6 DEF Disposes, TypeOK, Steps, verbs
<1>7. CASE HooksJoined
    BY <1>7, EndType DEF HooksJoined, TypeOK, verbs, ring
<1> QED BY <1>1, <1>2, <1>3, <1>4, <1>5, <1>6, <1>7 DEF Teardown

LEMMA TypeStep == TypeOK /\ SlotInv /\ [Next]_vars => TypeOK'
<1> SUFFICES ASSUME TypeOK, SlotInv, [Next]_vars PROVE TypeOK'
    OBVIOUS
<1>1. CASE \E p \in Callers : \/ AskForCore(p) \/ CoreArrives(p) \/ LetsGo(p)
                              \/ \E v \in Verbs : Call(p, v)
    BY <1>1, TypeAsk, TypeCall
<1>2. CASE \E v \in Verbs : Declares(v) \/ Lands(v) \/ Fails(v)
    BY <1>2, TypeBody
<1>3. CASE \E k \in Cores : Booting(k) \/ PollTakes(k) \/ Copying(k)
    BY <1>3, TypeBoot, TypeSchedule
<1>4. CASE BeforeQuit \/ DisposerShutsDown \/ HarnessShutsDown \/ AppEnds
    BY <1>4, TypeQuit
<1>5. CASE Teardown
    BY <1>5, TypeTeardown
<1>6. CASE UNCHANGED vars
    BY <1>6 DEF vars, slotVars, teardownVars, verbs, ring, TypeOK
<1> QED BY <1>1, <1>2, <1>3, <1>4, <1>5, <1>6 DEF Next
-----------------------------------------------------------------------------
(* The slot, the cores and the teardown *)

LEMMA SlotInit == Init => SlotInv
BY DEF Init, SlotInv, SlotHonest, Tearing, Open, AfterBoot

\* The steps that touch neither the slot nor the teardown keep what is said.
LEMMA SlotKept ==
    ASSUME SlotInv, UNCHANGED <<slotVars, teardown, tearing>>
    PROVE  SlotInv'
BY DEF SlotInv, SlotHonest, Tearing, Open, AfterBoot, slotVars

LEMMA SlotAsk ==
    ASSUME TypeOK, SlotInv, NEW p \in Callers, AskForCore(p)
    PROVE  SlotInv'
<1>1. CASE UNCHANGED slotVars
    BY <1>1, SlotKept DEF AskForCore, teardownVars
<1>2. CASE slot = NoCore /\ lifecycle' = "booting"
    <2>1. PICK k \in Cores : slot' = k /\ core' = [core EXCEPT ![k] = "booting"]
        BY <1>2 DEF AskForCore, slotVars, SlotInv, SlotHonest
    <2>2. ~Tearing /\ ~Tearing'
        BY DEF AskForCore, SlotInv, SlotHonest, Tearing, teardownVars
    <2>3. \A j \in Cores : ~Open(j)
        BY <1>2, CoreIsNotNone DEF SlotInv
    <2>4. core'[k] = "booting" /\ \A j \in Cores : Open(j)' => j = k
        BY <2>1, <2>3 DEF TypeOK, Open
    <2> QED
        BY <1>2, <2>1, <2>2, <2>4, CoreIsNotNone
        DEF SlotInv, SlotHonest, Tearing, AfterBoot
<1> QED BY <1>1, <1>2 DEF AskForCore

LEMMA SlotBoot ==
    ASSUME TypeOK, SlotInv, NEW k \in Cores, Booting(k)
    PROVE  SlotInv'
<1>1. slot = k /\ core[k] = "booting"
    BY DEF Booting, BootSucceeds, BootFails, SlotInv, Open
<1>2. lifecycle # "ready" /\ lifecycle # "empty"
    BY <1>1, CoreIsNotNone DEF SlotInv, SlotHonest
<1>3. Tearing => tearing = k /\ teardown = "boot"
    BY <1>1, CoreIsNotNone DEF SlotInv, Tearing, TypeOK, Steps, AfterBoot
<1>4. UNCHANGED <<teardown, tearing>>
    BY DEF Booting, BootSucceeds, BootFails, teardownVars
<1>5. CASE BootSucceeds(k)
    <2>1. slot' = k /\ core'[k] = "live"
        BY <1>1, <1>5 DEF BootSucceeds, TypeOK
    <2>2. \A j \in Cores : Open(j)' => j = k
        BY <1>1, <1>5 DEF BootSucceeds, TypeOK, SlotInv, Open
    <2>3. lifecycle' = (IF lifecycle = "booting" THEN "ready" ELSE lifecycle)
        BY <1>5 DEF BootSucceeds, ReadyUnlessShutting
    <2> QED
        BY <1>2, <1>3, <1>4, <2>1, <2>2, <2>3, CoreIsNotNone
        DEF SlotInv, SlotHonest, Tearing, AfterBoot, TypeOK
<1>6. CASE BootFails(k)
    <2>1. \A j \in Cores : ~Open(j)'
        BY <1>1, <1>6 DEF BootFails, TypeOK, SlotInv, Open
    <2>2. slot' = NoCore
        BY <1>6 DEF BootFails
    <2>3. lifecycle' = (IF lifecycle = "booting" THEN "empty" ELSE lifecycle)
        BY <1>6 DEF BootFails
    <2> QED
        BY <1>2, <1>3, <1>4, <2>1, <2>2, <2>3
        DEF SlotInv, SlotHonest, Tearing, AfterBoot, TypeOK
<1> QED BY <1>5, <1>6 DEF Booting

LEMMA SlotBegins ==
    ASSUME TypeOK, SlotInv, BeginTeardown, ~Tearing, slot # NoCore
    PROVE  SlotInv'
BY DEF BeginTeardown, TypeOK, SlotInv, SlotHonest, Tearing, Open, AfterBoot

LEMMA SlotQuit ==
    ASSUME TypeOK, SlotInv,
           BeforeQuit \/ DisposerShutsDown \/ HarnessShutsDown \/ AppEnds
    PROVE  SlotInv'
<1>1. CASE BeforeQuit \/ AppEnds
    BY <1>1, SlotKept DEF BeforeQuit, AppEnds, teardownVars
<1>2. CASE DisposerShutsDown
    BY <1>2, SlotKept, SlotBegins DEF DisposerShutsDown, Tearing, teardownVars
<1>3. CASE HarnessShutsDown
    BY <1>3, SlotBegins DEF HarnessShutsDown, Tearing
<1> QED BY <1>1, <1>2, <1>3

\* The slot is cleared when no core is open any more.
LEMMA SlotEnds ==
    ASSUME TypeOK, SlotInv, Tearing, ~Open(tearing), EndTeardown, UNCHANGED core
    PROVE  SlotInv'
<1>1. \A j \in Cores : ~Open(j)
    BY CoreIsNotNone DEF SlotInv
<1> QED
    BY <1>1
    DEF EndTeardown, DropsPromise, SlotInv, SlotHonest, Tearing, Open, AfterBoot

LEMMA SlotTeardown ==
    ASSUME TypeOK, SlotInv, Teardown
    PROVE  SlotInv'
<1>1. CASE TeardownBegins \/ Joined \/ JoinExpires \/ QuitGeneration
    <2>1. UNCHANGED <<slotVars, tearing>>
        BY <1>1 DEF TeardownBegins, Joined, JoinExpires, QuitGeneration
    <2>2. Tearing /\ teardown' \in AfterBoot /\ core[tearing] = "live"
        BY <1>1
        DEF TeardownBegins, Joined, JoinExpires, QuitGeneration, Tearing, AfterBoot,
            SlotInv
    <2> QED
        BY <2>1, <2>2 DEF SlotInv, SlotHonest, Tearing, Open, AfterBoot, slotVars
<1>2. CASE BootNeverFinished
    BY <1>2, SlotEnds DEF BootNeverFinished, BootRejected, Tearing, Open
<1>3. CASE Disposes
    <2>1. Tearing /\ tearing \in Cores
        BY <1>3 DEF Disposes, Tearing, SlotInv
    <2>2. core'[tearing] = "disposed" /\ \A j \in Cores : Open(j)' => Open(j)
        BY <1>3, <2>1 DEF Disposes, TypeOK, Open
    <2>3. teardown' = "hooks" /\ UNCHANGED <<lifecycle, slot, tearing>>
        BY <1>3 DEF Disposes
    <2> QED
        BY <2>1, <2>2, <2>3 DEF SlotInv, SlotHonest, Tearing, AfterBoot
<1>4. CASE HooksJoined
    BY <1>4, SlotEnds DEF HooksJoined, SlotInv, Tearing, Open
<1> QED BY <1>1, <1>2, <1>3, <1>4 DEF Teardown

LEMMA SlotStep == TypeOK /\ SlotInv /\ [Next]_vars => SlotInv'
<1> SUFFICES ASSUME TypeOK, SlotInv, [Next]_vars PROVE SlotInv'
    OBVIOUS
<1>1. CASE \E p \in Callers : AskForCore(p)
    BY <1>1, SlotAsk
<1>2. CASE \E p \in Callers : \/ CoreArrives(p) \/ LetsGo(p)
                              \/ \E v \in Verbs : Call(p, v)
    BY <1>2, SlotKept DEF CoreArrives, LetsGo, Call, teardownVars
<1>3. CASE \E v \in Verbs : Declares(v) \/ Lands(v) \/ Fails(v)
    BY <1>3, SlotKept DEF Declares, Lands, Fails, teardownVars
<1>4. CASE \E k \in Cores : Booting(k)
    BY <1>4, SlotBoot
<1>5. CASE \E k \in Cores : PollTakes(k) \/ Copying(k)
    BY <1>5, SlotKept
    DEF PollTakes, Copying, CopyReads, CopyEnds, CopyFails, teardownVars
<1>6. CASE BeforeQuit \/ DisposerShutsDown \/ HarnessShutsDown \/ AppEnds
    BY <1>6, SlotQuit
<1>7. CASE Teardown
    BY <1>7, SlotTeardown
<1>8. CASE UNCHANGED vars
    BY <1>8, SlotKept DEF vars, teardownVars
<1> QED BY <1>1, <1>2, <1>3, <1>4, <1>5, <1>6, <1>7, <1>8 DEF Next

(* Every reachable state is well typed, and the slot, the cores and the step of
   the teardown agree: a core that is open is the slot's, the core being torn
   down is live from the join to its disposal, and while it is torn down the slot
   holds it or nothing. *)
THEOREM SlotInvariant == Spec => [](TypeOK /\ SlotInv)
<1>1. Init => TypeOK /\ SlotInv
    BY TypeInit, SlotInit
<1>2. TypeOK /\ SlotInv /\ [Next]_vars => (TypeOK /\ SlotInv)'
    BY TypeStep, SlotStep
<1> QED BY <1>1, <1>2, PTL DEF Spec

(* The variables of the core's lifecycle keep their types. *)
THEOREM TypeCorrect == Spec => []TypeOK
BY SlotInvariant, PTL

(* No two cores hold the manifest at once, whatever asks for a core while
   another is booting, failing or being torn down. *)
THEOREM OneOpenCoreAlways == Spec => []OneOpenCore
<1>1. SlotInv => OneOpenCore
    BY DEF SlotInv, OneOpenCore
<1> QED BY <1>1, SlotInvariant, PTL

(* The state that getGmuxCore refuses by agrees with the slot and the teardown. *)
THEOREM SlotHonestAlways == Spec => []SlotHonest
<1>1. SlotInv => SlotHonest
    BY DEF SlotInv
<1> QED BY <1>1, SlotInvariant, PTL

-----------------------------------------------------------------------------
(* The ledger *)

\* What the join knows of the verbs in flight; see NoneCutOffAlways.
HoldCores == \A p \in Callers : caller[p].at # "out" => caller[p].core \in Cores
AdmittedBy(k) == {v \in Verbs : InFlight(v) /\ on[v] = k}
LedgerInv ==
    /\ HoldCores
    /\ \A v \in Verbs : InFlight(v) => on[v] \in Cores
    /\ teardown \in AfterBoot => tearing \in flag
    /\ teardown = "join" => AdmittedBy(tearing) \subseteq joinSet
    /\ (teardown \in {"drain", "generation"} /\ AdmittedBy(tearing) # {})
          => <<tearing, "late">> \in excuses
    /\ NoneCutOff

LEMMA LedgerInit == Init => LedgerInv
BY DEF Init, LedgerInv, HoldCores, AdmittedBy, InFlight, NoneCutOff, AfterBoot, Out

\* Nothing is admitted, nothing disposed of, and the teardown stands still.
LEMMA LedgerKept ==
    ASSUME LedgerInv, HoldCores',
           UNCHANGED <<teardown, tearing, joinSet, flag, on>>,
           excuses \subseteq excuses',
           \A v \in Verbs : InFlight(v)' => InFlight(v),
           \A k \in Cores : core'[k] = "disposed" => core[k] = "disposed"
    PROVE  LedgerInv'
<1>1. \A v \in Verbs : InFlight(v)' => on'[v] \in Cores
    BY DEF LedgerInv
<1>2. NoneCutOff'
    BY <1>1 DEF LedgerInv, NoneCutOff, ClosedFor
<1>3. AdmittedBy(tearing)' \subseteq AdmittedBy(tearing)
    BY DEF AdmittedBy
<1> QED BY <1>1, <1>2, <1>3 DEF LedgerInv, AfterBoot

LEMMA LedgerAsk ==
    ASSUME TypeOK, LedgerInv, NEW p \in Callers,
           AskForCore(p) \/ CoreArrives(p) \/ LetsGo(p)
    PROVE  LedgerInv'
<1>1. HoldCores'
    <2>1. CASE AskForCore(p)
        <3>1. PICK k \in Cores :
                caller' = [caller EXCEPT ![p] = [at |-> "waiting", core |-> k]]
            BY <2>1 DEF AskForCore, TypeOK
        <3> QED
            BY <3>1 DEF TypeOK, LedgerInv, HoldCores
    <2>2. CASE CoreArrives(p)
        <3>1. caller[p].core \in Cores
            BY <2>2 DEF CoreArrives, LedgerInv, HoldCores
        <3>2. caller'[p] = Out \/ caller'[p] = [caller[p] EXCEPT !.at = "holding"]
            BY <2>2 DEF CoreArrives, TypeOK
        <3>3. caller'[p].at # "out" => caller'[p].core \in Cores
            <4>1. caller[p] \in [at : {"out", "waiting", "holding"},
                                 core : Cores \cup {NoCore}]
                BY DEF TypeOK
            <4>2. [caller[p] EXCEPT !.at = "holding"].core = caller[p].core
                BY <4>1
            <4>3. CASE caller'[p] = Out
                BY <4>3 DEF Out
            <4>4. CASE caller'[p] = [caller[p] EXCEPT !.at = "holding"]
                BY <3>1, <4>2, <4>4
            <4> QED
                BY <3>2, <4>3, <4>4
        <3>4. \A q \in Callers \ {p} : caller'[q] = caller[q]
            BY <2>2 DEF CoreArrives, TypeOK
        <3> QED
            BY <3>3, <3>4 DEF LedgerInv, HoldCores
    <2>3. CASE LetsGo(p)
        BY <2>3 DEF LetsGo, Out, TypeOK, LedgerInv, HoldCores
    <2> QED
        BY <2>1, <2>2, <2>3
<1>2. UNCHANGED <<verbs, teardownVars>>
    BY DEF AskForCore, CoreArrives, LetsGo
<1>3. \A k \in Cores : core'[k] = "disposed" => core[k] = "disposed"
    BY DEF AskForCore, CoreArrives, LetsGo, TypeOK, slotVars
<1> QED
    BY <1>1, <1>2, <1>3, LedgerKept DEF verbs, teardownVars, InFlight

\* The ledger admits no verb for a core that is being joined or is disposed of.
LEMMA LedgerCall ==
    ASSUME TypeOK, LedgerInv, NEW p \in Callers, NEW v \in Verbs, Call(p, v)
    PROVE  LedgerInv'
<1> DEFINE k == caller[p].core
<1>1. k \in Cores
    BY DEF Call, LedgerInv, HoldCores
<1>2. InFlight(v)' => k \notin flag /\ core[k] # "disposed"
    BY DEF Call, InFlight, Refuses, TypeOK
<1>3. /\ on'[v] = k
      /\ \A u \in Verbs \ {v} : on'[u] = on[u] /\ (InFlight(u)' <=> InFlight(u))
    BY DEF Call, InFlight, TypeOK
<1>4. UNCHANGED <<caller, core, teardown, tearing, joinSet, flag, excuses>>
    BY DEF Call, slotVars, teardownVars
<1>5. HoldCores'
    BY <1>4 DEF HoldCores, LedgerInv
<1>6. \A u \in Verbs : InFlight(u)' => on'[u] \in Cores
    BY <1>1, <1>3 DEF LedgerInv
<1>7. NoneCutOff'
    BY <1>2, <1>3, <1>4 DEF LedgerInv, NoneCutOff, ClosedFor
<1>8. teardown \in AfterBoot => AdmittedBy(tearing)' \subseteq AdmittedBy(tearing)
    BY <1>2, <1>3, <1>4 DEF LedgerInv, AdmittedBy
<1> QED
    BY <1>4, <1>5, <1>6, <1>7, <1>8 DEF LedgerInv, AfterBoot

LEMMA LedgerBody ==
    ASSUME TypeOK, LedgerInv, NEW v \in Verbs, Declares(v) \/ Lands(v) \/ Fails(v)
    PROVE  LedgerInv'
<1>1. \A u \in Verbs : InFlight(u)' => InFlight(u)
    BY DEF Declares, Lands, Fails, InFlight, TypeOK
<1>2. UNCHANGED <<slotVars, teardownVars, caller, on>>
    BY DEF Declares, Lands, Fails
<1>3. HoldCores'
    BY <1>2 DEF LedgerInv, HoldCores
<1> QED
    BY <1>1, <1>2, <1>3, LedgerKept DEF slotVars, teardownVars

LEMMA LedgerSchedule ==
    ASSUME TypeOK, LedgerInv, NEW k \in Cores,
           Booting(k) \/ PollTakes(k) \/ Copying(k)
    PROVE  LedgerInv'
<1>1. UNCHANGED <<teardown, tearing, joinSet, flag, caller, verb, on>>
    BY DEF Booting, BootSucceeds, BootFails, PollTakes, Copying, CopyReads, CopyEnds,
           CopyFails, teardownVars, verbs
<1>2. excuses \subseteq excuses'
    BY DEF Booting, BootSucceeds, BootFails, PollTakes, Copying, CopyReads, CopyEnds,
           CopyFails, teardownVars
<1>3. \A j \in Cores : core'[j] = "disposed" => core[j] = "disposed"
    BY DEF Booting, BootSucceeds, BootFails, PollTakes, Copying, CopyReads, CopyEnds,
           CopyFails, slotVars, TypeOK
<1>4. HoldCores' /\ \A v \in Verbs : InFlight(v)' => InFlight(v)
    BY <1>1 DEF LedgerInv, HoldCores, InFlight
<1> QED
    BY <1>1, <1>2, <1>3, <1>4, LedgerKept

\* The teardown and the quit touch no caller and no verb; what is left to show
\* is what the step of the teardown says.
LEMMA LedgerMoves ==
    ASSUME LedgerInv, UNCHANGED <<caller, verb, on, core>>,
           excuses \subseteq excuses',
           teardown' \in AfterBoot => tearing' \in flag',
           teardown' = "join" => AdmittedBy(tearing)' \subseteq joinSet',
           (teardown' \in {"drain", "generation"} /\ AdmittedBy(tearing)' # {})
              => <<tearing', "late">> \in excuses'
    PROVE  LedgerInv'
<1>1. HoldCores' /\ \A v \in Verbs : InFlight(v)' => on'[v] \in Cores
    BY DEF LedgerInv, HoldCores, InFlight
<1>2. NoneCutOff'
    BY DEF LedgerInv, NoneCutOff, InFlight, ClosedFor
<1> QED BY <1>1, <1>2 DEF LedgerInv

LEMMA LedgerQuit ==
    ASSUME TypeOK, LedgerInv,
           BeforeQuit \/ DisposerShutsDown \/ HarnessShutsDown \/ AppEnds
    PROVE  LedgerInv'
<1>1. UNCHANGED <<caller, verb, on, core, joinSet, flag, excuses>>
    BY DEF BeforeQuit, DisposerShutsDown, HarnessShutsDown, AppEnds, BeginTeardown,
           slotVars, teardownVars, verbs
<1>2. CASE UNCHANGED <<teardown, tearing>>
    <2>1. HoldCores' /\ \A v \in Verbs : InFlight(v)' => InFlight(v)
        BY <1>1 DEF LedgerInv, HoldCores, InFlight
    <2> QED
        BY <1>1, <1>2, <2>1, LedgerKept
<1>3. CASE teardown' = "boot"
    BY <1>1, <1>3, LedgerMoves DEF AfterBoot
<1> QED
    BY <1>2, <1>3
    DEF BeforeQuit, DisposerShutsDown, HarnessShutsDown, AppEnds, BeginTeardown,
        teardownVars

LEMMA LedgerTeardown ==
    ASSUME TypeOK, SlotInv, LedgerInv, Teardown
    PROVE  LedgerInv'
<1>1. CASE TeardownBegins
    <2>1. AdmittedBy(tearing)' \subseteq joinSet'
        BY <1>1 DEF TeardownBegins, AdmittedBy, InFlight, verbs
    <2> QED
        BY <1>1, <2>1, LedgerMoves
        DEF TeardownBegins, slotVars, verbs
<1>2. CASE BootNeverFinished \/ HooksJoined
    BY <1>2, LedgerMoves
    DEF BootNeverFinished, HooksJoined, EndTeardown, DropsPromise, AfterBoot, verbs
<1>3. CASE Joined
    <2>1. AdmittedBy(tearing)' = {}
        BY <1>3 DEF Joined, LedgerInv, AdmittedBy, InFlight, verbs
    <2> QED
        BY <1>3, <2>1, LedgerMoves DEF Joined, LedgerInv, AfterBoot, slotVars, verbs
<1>4. CASE JoinExpires
    BY <1>4, LedgerMoves DEF JoinExpires, LedgerInv, AfterBoot, slotVars, verbs
<1>5. CASE QuitGeneration
    <2>1. AdmittedBy(tearing)' = AdmittedBy(tearing)
        BY <1>5 DEF QuitGeneration, AdmittedBy, InFlight, verbs
    <2>2. excuses \subseteq excuses'
        BY <1>5 DEF QuitGeneration
    <2> QED
        BY <1>5, <2>1, <2>2, LedgerMoves
        DEF QuitGeneration, LedgerInv, AfterBoot, slotVars, verbs
<1>6. CASE Disposes
    <2>1. /\ teardown = "generation"
          /\ teardown' = "hooks"
          /\ UNCHANGED <<caller, verb, on, tearing, excuses>>
        BY <1>6 DEF Disposes, verbs
    <2>2. \A k \in Cores : core'[k] = "disposed" => core[k] = "disposed" \/ k = tearing
        BY <1>6 DEF Disposes, TypeOK
    <2>3. HoldCores' /\ \A v \in Verbs : InFlight(v)' => on'[v] \in Cores
        BY <2>1 DEF LedgerInv, HoldCores, InFlight
    <2>4. \A v \in Verbs : InFlight(v) /\ on[v] = tearing => <<tearing, "late">> \in excuses
        BY <2>1 DEF LedgerInv, AdmittedBy
    <2>5. NoneCutOff'
        <3> SUFFICES ASSUME NEW v \in Verbs, InFlight(v)', ClosedFor(v)'
                     PROVE  <<on'[v], "late">> \in excuses'
            BY DEF NoneCutOff
        <3>1. InFlight(v) /\ on[v] \in Cores /\ core'[on[v]] = "disposed"
            BY <2>1, <2>3 DEF InFlight, ClosedFor
        <3>2. CASE core[on[v]] = "disposed"
            BY <2>1, <3>1, <3>2 DEF LedgerInv, NoneCutOff, ClosedFor
        <3>3. CASE on[v] = tearing
            BY <2>1, <2>4, <3>1, <3>3
        <3> QED
            BY <2>2, <3>1, <3>2, <3>3
    <2> QED
        BY <2>1, <2>3, <2>5 DEF LedgerInv, AfterBoot
<1> QED BY <1>1, <1>2, <1>3, <1>4, <1>5, <1>6 DEF Teardown

LEMMA LedgerStep == TypeOK /\ SlotInv /\ LedgerInv /\ [Next]_vars => LedgerInv'
<1> SUFFICES ASSUME TypeOK, SlotInv, LedgerInv, [Next]_vars PROVE LedgerInv'
    OBVIOUS
<1>1. CASE \E p \in Callers : \/ AskForCore(p) \/ CoreArrives(p) \/ LetsGo(p)
                              \/ \E v \in Verbs : Call(p, v)
    BY <1>1, LedgerAsk, LedgerCall
<1>2. CASE \E v \in Verbs : Declares(v) \/ Lands(v) \/ Fails(v)
    BY <1>2, LedgerBody
<1>3. CASE \E k \in Cores : Booting(k) \/ PollTakes(k) \/ Copying(k)
    BY <1>3, LedgerSchedule
<1>4. CASE BeforeQuit \/ DisposerShutsDown \/ HarnessShutsDown \/ AppEnds
    BY <1>4, LedgerQuit
<1>5. CASE Teardown
    BY <1>5, LedgerTeardown
<1>6. CASE UNCHANGED vars
    <2>1. HoldCores' /\ \A v \in Verbs : InFlight(v)' => InFlight(v)
        BY <1>6 DEF LedgerInv, HoldCores, InFlight, vars, verbs
    <2> QED
        BY <1>6, <2>1, LedgerKept DEF vars, slotVars, teardownVars, verbs
<1> QED BY <1>1, <1>2, <1>3, <1>4, <1>5, <1>6 DEF Next

(* A verb that the ledger admitted is never left in flight under a core that is
   disposed of, unless the join of that core's teardown ran out of time. *)
THEOREM NoneCutOffAlways == Spec => []NoneCutOff
<1>1. Init => LedgerInv
    BY LedgerInit
<1>2. (TypeOK /\ SlotInv) /\ LedgerInv /\ [Next]_vars => LedgerInv'
    BY LedgerStep
<1>3. LedgerInv => NoneCutOff
    BY DEF LedgerInv
<1> QED BY <1>1, <1>2, <1>3, SlotInvariant, PTL DEF Spec

-----------------------------------------------------------------------------
(* The last generation *)

\* A fact that is in the manifest, or in a fingerprint.
OnRecord(f) ==
    f \in manifest \/ \E k \in Cores : f \in takenAt[k] \/ f \in copy[k].mark

\* A fact is written once: one that was taken back is not written again.
WrittenInv ==
    \A v \in Verbs :
        /\ OnRecord(<<v, "declared">>) => verb[v] \in {"declared", "landed", "failed"}
        /\ OnRecord(<<v, "landed">>) => verb[v] = "landed"

\* A core that is held, or that runs a verb, was booted.
Booted == {"live", "disposed"}
HoldersInv ==
    /\ slot # NoCore => core[slot] # "unborn"
    /\ \A p \in Callers : caller[p].at = "waiting" => core[caller[p].core] # "unborn"
    /\ \A p \in Callers : caller[p].at = "holding" => core[caller[p].core] \in Booted
    /\ \A v \in Verbs : InFlight(v) => core[on[v]] \in Booted

\* One copy is read at a time; a core that has not booted takes none.
TakesInv ==
    /\ \A j, k \in Cores : copy[j].read /\ copy[k].read => j = k
    /\ \A k \in Cores : copy[k].read \/ copy[k].quit => copy[k].on
    /\ \A k \in Cores :
           core[k] \in {"unborn", "booting"} => k \notin polling /\ ~copy[k].on

(* What a fingerprint says was taken, and still is in the manifest, is in the newest
   generation, and in every copy that will become the newest. *)
RingInv ==
    \A k \in Cores :
        /\ takenAt[k] \cap manifest \subseteq kept
        /\ copy[k].on => takenAt[k] \cap manifest \subseteq copy[k].mark
        /\ copy[k].read => copy[k].mark \cap manifest \subseteq copy[k].got
        /\ copy[k].read => \A j \in Cores : takenAt[j] \cap manifest \subseteq copy[k].got

\* Once the last take was decided on, the manifest is what it saves, or less.
Excused(k) == \E why \in {"late", "failed", "inFlight"} : <<k, why>> \in excuses
LastInv ==
    (teardown = "generation" /\ ~Excused(tearing)) =>
        \/ manifest \subseteq takenAt[tearing]
        \/ /\ copy[tearing].on /\ copy[tearing].quit
           /\ manifest \subseteq copy[tearing].mark

SaveInv == WrittenInv /\ HoldersInv /\ TakesInv /\ RingInv /\ LastInv

LEMMA SaveInit == Init => SaveInv
<1> SUFFICES ASSUME Init PROVE SaveInv
    OBVIOUS
<1>1. /\ manifest = {} /\ kept = {} /\ polling = {} /\ slot = NoCore /\ teardown = "none"
      /\ copy = [k \in Cores |-> NoCopy] /\ takenAt = [k \in Cores |-> NotTaken]
      /\ caller = [p \in Callers |-> Out] /\ verb = [v \in Verbs |-> "todo"]
    BY DEF Init
<1>2. WrittenInv
    BY <1>1 DEF WrittenInv, OnRecord, NotTaken, NoCopy
<1>3. HoldersInv /\ TakesInv /\ LastInv
    BY <1>1 DEF HoldersInv, InFlight, TakesInv, LastInv, NoCopy, Out
<1>4. RingInv
    BY <1>1 DEF RingInv, NoCopy
<1> QED BY <1>2, <1>3, <1>4 DEF SaveInv

\* No core is unborn again, and one that was booted is live or disposed of.
CoresGoOn ==
    \A k \in Cores : /\ core[k] # "unborn" => core'[k] # "unborn"
                     /\ core[k] \in Booted => core'[k] \in Booted
                     /\ core'[k] \in {"unborn", "booting"}
                            => core[k] \in {"unborn", "booting"}

LEMMA CoresStep ==
    ASSUME TypeOK, SlotInv, [Next]_vars
    PROVE  CoresGoOn
<1>1. CASE UNCHANGED core
    BY <1>1 DEF CoresGoOn
<1>2. CASE \E p \in Callers : AskForCore(p)
    BY <1>2 DEF AskForCore, slotVars, Unborn, TypeOK, CoresGoOn, Booted
<1>3. CASE \E k \in Cores : Booting(k)
    BY <1>3 DEF Booting, BootSucceeds, BootFails, TypeOK, CoresGoOn, Booted
<1>4. CASE Disposes
    <2>1. core' = [core EXCEPT ![tearing] = "disposed"] /\ core[tearing] = "live"
        BY <1>4 DEF Disposes, SlotInv, AfterBoot
    <2> QED BY <2>1 DEF TypeOK, CoresGoOn, Booted
<1>5. CASE UNCHANGED vars
    BY <1>5, <1>1 DEF vars, slotVars
<1> QED
    BY <1>1, <1>2, <1>3, <1>4, <1>5
    DEF Next, CoreArrives, LetsGo, Call, Declares, Lands, Fails, PollTakes, Copying,
        CopyReads, CopyEnds, CopyFails, BeforeQuit, DisposerShutsDown, HarnessShutsDown,
        AppEnds, BeginTeardown, Teardown, TeardownBegins, BootNeverFinished, Joined,
        JoinExpires, QuitGeneration, HooksJoined, slotVars

LEMMA HoldersStep ==
    ASSUME TypeOK, SlotInv, LedgerInv, HoldersInv, [Next]_vars
    PROVE  HoldersInv'
<1>1. CoresGoOn
    BY CoresStep
<1>2. \A p \in Callers : caller[p].at # "out" => caller[p].core \in Cores
    BY DEF LedgerInv, HoldCores
<1>3. \A v \in Verbs : InFlight(v) => on[v] \in Cores
    BY DEF LedgerInv
<1>4. slot' # NoCore => core'[slot'] # "unborn"
    <2>1. slot' \in {slot, NoCore} \/ \E p \in Callers : AskForCore(p)
        BY DEF Next, CoreArrives, LetsGo, Call, Declares, Lands, Fails, PollTakes, Copying,
               CopyReads, CopyEnds, CopyFails, BeforeQuit, DisposerShutsDown,
               HarnessShutsDown, AppEnds, BeginTeardown, Teardown, TeardownBegins,
               BootNeverFinished, Joined, JoinExpires, QuitGeneration, HooksJoined,
               EndTeardown, Disposes, Booting, BootSucceeds, BootFails, slotVars, vars
    <2>2. CASE slot' \in {slot, NoCore}
        BY <1>1, <2>2 DEF HoldersInv, CoresGoOn, TypeOK
    <2>3. CASE \E p \in Callers : AskForCore(p)
        BY <1>1, <2>3 DEF AskForCore, slotVars, HoldersInv, CoresGoOn, TypeOK
    <2> QED BY <2>1, <2>2, <2>3
<1>5. CASE \E p \in Callers : AskForCore(p) \/ CoreArrives(p) \/ LetsGo(p)
    <2>1. PICK p \in Callers : AskForCore(p) \/ CoreArrives(p) \/ LetsGo(p)
        BY <1>5
    <2>2. UNCHANGED <<verb, on>>
        BY <2>1 DEF AskForCore, CoreArrives, LetsGo, verbs
    <2>3. \A q \in Callers \ {p} : caller'[q] = caller[q]
        BY <2>1 DEF AskForCore, CoreArrives, LetsGo, TypeOK
    <2>4. /\ caller'[p].at = "waiting" => core'[caller'[p].core] # "unborn"
          /\ caller'[p].at = "holding" => core'[caller'[p].core] \in Booted
        <3>1. CASE AskForCore(p)
            <4>1. CASE /\ slot # NoCore
                       /\ caller' = [caller EXCEPT ![p] = [at |-> "waiting", core |-> slot]]
                <5>1. caller'[p].at = "waiting" /\ caller'[p].core = slot /\ slot \in Cores
                    BY <4>1 DEF TypeOK
                <5> QED BY <1>1, <4>1, <5>1 DEF HoldersInv, CoresGoOn
            <4>2. ASSUME NEW k \in Cores, core' = [core EXCEPT ![k] = "booting"],
                         caller' = [caller EXCEPT ![p] = [at |-> "waiting", core |-> k]]
                  PROVE  caller'[p].at = "waiting" /\ core'[caller'[p].core] # "unborn"
                BY <4>2 DEF TypeOK
            <4> QED BY <3>1, <4>1, <4>2 DEF AskForCore
        <3>2. CASE CoreArrives(p)
            <4>1. /\ caller[p].at = "waiting" /\ core[caller[p].core] # "booting"
                  /\ core' = core
                  /\ caller[p].core \in Cores
                BY <1>2, <3>2 DEF CoreArrives, slotVars
            <4>2. caller[p] \in [at : {"out", "waiting", "holding"}, core : Cores \cup {NoCore}]
                BY DEF TypeOK
            <4>3. CASE core[caller[p].core] = "failed"
                BY <3>2, <4>3 DEF CoreArrives, Out, TypeOK
            <4>4. CASE core[caller[p].core] # "failed"
                <5>1. caller'[p] = [caller[p] EXCEPT !.at = "holding"]
                    BY <3>2, <4>4 DEF CoreArrives, TypeOK
                <5>2. caller'[p].at = "holding" /\ caller'[p].core = caller[p].core
                    BY <4>2, <5>1
                <5>3. core[caller[p].core] \in {"live", "disposed"}
                    BY <4>1, <4>4 DEF HoldersInv, TypeOK
                <5> QED BY <4>1, <5>2, <5>3 DEF Booted
            <4> QED BY <4>3, <4>4
        <3>3. CASE LetsGo(p)
            BY <3>3 DEF LetsGo, Out, TypeOK
        <3> QED BY <2>1, <3>1, <3>2, <3>3
    <2> QED
        BY <1>1, <1>2, <1>3, <1>4, <2>2, <2>3, <2>4
        DEF HoldersInv, CoresGoOn, InFlight
<1>6. CASE \E p \in Callers, v \in Verbs : Call(p, v)
    <2>1. PICK p \in Callers, v \in Verbs : Call(p, v)
        BY <1>6
    <2>2. /\ caller' = caller /\ caller[p].at = "holding" /\ on'[v] = caller[p].core
          /\ \A u \in Verbs \ {v} : verb'[u] = verb[u] /\ on'[u] = on[u]
        BY <2>1 DEF Call, TypeOK
    <2> QED
        BY <1>1, <1>2, <1>3, <1>4, <2>2 DEF HoldersInv, CoresGoOn, InFlight
<1>7. CASE /\ UNCHANGED <<caller, on>>
           /\ \A v \in Verbs : InFlight(v)' => InFlight(v)
    BY <1>1, <1>2, <1>3, <1>4, <1>7 DEF HoldersInv, CoresGoOn
<1>8. CASE UNCHANGED vars \/ UNCHANGED <<caller, verb, on>>
    <2>1. UNCHANGED <<caller, verb, on>>
        BY <1>8 DEF vars, verbs
    <2> QED BY <1>7, <2>1 DEF InFlight
<1>9. CASE \E v \in Verbs : Declares(v) \/ Lands(v) \/ Fails(v)
    BY <1>7, <1>9 DEF Declares, Lands, Fails, InFlight, TypeOK
<1> QED
    BY <1>5, <1>6, <1>8, <1>9
    DEF Next, PollTakes, Copying, CopyReads, CopyEnds, CopyFails, BeforeQuit,
        DisposerShutsDown, HarnessShutsDown, AppEnds, Teardown, TeardownBegins,
        BootNeverFinished, Joined, JoinExpires, QuitGeneration, Disposes, HooksJoined,
        Booting, BootSucceeds, BootFails, verbs

\* What a step of a body does to the manifest.
LEMMA BodyWrites ==
    ASSUME TypeOK, WrittenInv, NEW v \in Verbs, Declares(v) \/ Lands(v) \/ Fails(v)
    PROVE  \A f \in manifest' : f \in manifest \/ ~OnRecord(f)
<1>1. CASE Declares(v)
    <2>1. verb[v] = "running" /\ manifest' = manifest \cup {<<v, "declared">>}
        BY <1>1 DEF Declares
    <2> QED BY <2>1 DEF WrittenInv
<1>2. CASE Lands(v)
    <2>1. verb[v] = "declared" /\ manifest' = manifest \cup {<<v, "landed">>}
        BY <1>2 DEF Lands
    <2> QED BY <2>1 DEF WrittenInv
<1>3. CASE Fails(v)
    BY <1>3 DEF Fails
<1> QED BY <1>1, <1>2, <1>3

\* The manifest is written by the bodies of the verbs alone.
LEMMA OthersWriteNot ==
    ASSUME [Next]_vars, ~\E v \in Verbs : Declares(v) \/ Lands(v) \/ Fails(v)
    PROVE  manifest' = manifest
BY DEF Next, AskForCore, CoreArrives, LetsGo, Call, PollTakes, Copying, CopyReads,
       CopyEnds, CopyFails, BeforeQuit, DisposerShutsDown, HarnessShutsDown, AppEnds,
       Teardown, TeardownBegins, BootNeverFinished, Joined, JoinExpires, QuitGeneration,
       Disposes, HooksJoined, Booting, BootSucceeds, BootFails, verbs, vars

\* The steps of the ring schedules, the launch take of a boot among them.
RingMoves ==
    \/ \E k \in Cores : BootSucceeds(k) \/ PollTakes(k) \/ Copying(k)
    \/ QuitGeneration \/ Disposes

LEMMA OthersMoveNot ==
    ASSUME [Next]_vars, ~RingMoves
    PROVE  UNCHANGED ring
BY DEF RingMoves, Next, AskForCore, CoreArrives, LetsGo, Call, Declares, Lands, Fails,
       BeforeQuit, DisposerShutsDown, HarnessShutsDown, AppEnds, Teardown, TeardownBegins,
       BootNeverFinished, Joined, JoinExpires, HooksJoined, Booting, BootFails, vars

\* A take that starts knows the manifest as it is; nothing of it was read yet.
LEMMA TakeSets ==
    ASSUME TypeOK, NEW k \in Cores, NEW forQuit \in BOOLEAN, Take(k, forQuit)
    PROVE  /\ copy'[k].on = TRUE /\ copy'[k].quit = forQuit
           /\ ~copy'[k].read /\ copy'[k].mark = manifest
           /\ \A j \in Cores \ {k} : copy'[j] = copy[j]
<1> DEFINE new == [NoCopy EXCEPT !.on = TRUE, !.quit = forQuit, !.mark = manifest]
<1>1. copy'[k] = new /\ \A j \in Cores \ {k} : copy'[j] = copy[j]
    BY DEF Take, TypeOK
<1>2. new.on = TRUE /\ new.quit = forQuit /\ ~new.read /\ new.mark = manifest
    BY DEF NoCopy
<1> QED BY <1>1, <1>2

\* A copy that ends, or fails, is gone.
LEMMA CopyGone ==
    ASSUME TypeOK, NEW k \in Cores, copy' = [copy EXCEPT ![k] = NoCopy]
    PROVE  /\ ~copy'[k].on /\ ~copy'[k].quit /\ ~copy'[k].read /\ copy'[k].mark = {}
           /\ \A j \in Cores \ {k} : copy'[j] = copy[j]
BY DEF TypeOK, NoCopy

LEMMA CopyReadSets ==
    ASSUME TypeOK, NEW k \in Cores, CopyReads(k)
    PROVE  /\ copy[k].on /\ \A j \in Cores : ~copy[j].read
           /\ copy'[k].on /\ copy'[k].read /\ copy'[k].got = manifest
           /\ copy'[k].quit = copy[k].quit /\ copy'[k].mark = copy[k].mark
           /\ \A j \in Cores \ {k} : copy'[j] = copy[j]
           /\ UNCHANGED <<manifest, kept, takenAt, polling, core>>
<1> DEFINE new == [copy[k] EXCEPT !.read = TRUE, !.got = manifest]
<1>1. copy[k] \in CopyRecords
    BY DEF TypeOK
<1>2. copy'[k] = new /\ \A j \in Cores \ {k} : copy'[j] = copy[j]
    BY DEF CopyReads, TypeOK
<1>3. /\ new.on = copy[k].on /\ new.read = TRUE /\ new.got = manifest
      /\ new.quit = copy[k].quit /\ new.mark = copy[k].mark
    BY <1>1 DEF CopyRecords
<1> QED BY <1>2, <1>3 DEF CopyReads, RingFree, slotVars, verbs

LEMMA TakesStep ==
    ASSUME TypeOK, SlotInv, TakesInv, [Next]_vars
    PROVE  TakesInv'
<1>1. CoresGoOn
    BY CoresStep
<1>2. CASE UNCHANGED <<copy, polling>>
    BY <1>1, <1>2 DEF TakesInv, CoresGoOn
<1>3. CASE \E k \in Cores : BootSucceeds(k)
    <2>1. PICK k \in Cores : BootSucceeds(k)
        BY <1>3
    <2>2. /\ copy' = copy /\ polling' = polling \cup {k} /\ core'[k] = "live"
        BY <2>1 DEF BootSucceeds, TypeOK
    <2> QED BY <1>1, <2>2 DEF TakesInv, CoresGoOn
<1>4. CASE \E k \in Cores : PollTakes(k)
    <2>1. PICK k \in Cores : PollTakes(k)
        BY <1>4
    <2>2. /\ k \in polling /\ Take(k, FALSE) /\ UNCHANGED <<core, polling>>
        BY <2>1 DEF PollTakes, slotVars
    <2>3. core[k] \notin {"unborn", "booting"}
        BY <2>2 DEF TakesInv
    <2> QED BY <2>2, <2>3, TakeSets DEF TakesInv
<1>5. CASE \E k \in Cores : CopyReads(k)
    <2>1. PICK k \in Cores : CopyReads(k)
        BY <1>5
    <2> QED BY <2>1, CopyReadSets DEF TakesInv
<1>6. CASE \E k \in Cores : CopyEnds(k) \/ CopyFails(k)
    <2>1. PICK k \in Cores : CopyEnds(k) \/ CopyFails(k)
        BY <1>6
    <2>2. copy' = [copy EXCEPT ![k] = NoCopy] /\ UNCHANGED <<core, polling>>
        BY <2>1 DEF CopyEnds, CopyFails, slotVars
    <2> QED BY <2>2, CopyGone DEF TakesInv
<1>7. CASE QuitGeneration
    <2>1. /\ tearing \in Cores /\ core[tearing] = "live" /\ core' = core
          /\ polling' \subseteq polling
        BY <1>7 DEF QuitGeneration, SlotInv, Tearing, AfterBoot, slotVars
    <2>2. copy' = copy \/ Take(tearing, TRUE)
        BY <1>7 DEF QuitGeneration
    <2>3. CASE copy' = copy
        BY <2>1, <2>3 DEF TakesInv
    <2>4. CASE Take(tearing, TRUE)
        BY <2>1, <2>4, TakeSets DEF TakesInv
    <2> QED BY <2>2, <2>3, <2>4
<1>8. CASE Disposes
    <2>1. copy' = copy /\ polling' \subseteq polling
        BY <1>8 DEF Disposes
    <2> QED BY <1>1, <2>1 DEF TakesInv, CoresGoOn
<1>9. CASE ~RingMoves
    BY <1>2, <1>9, OthersMoveNot DEF ring
<1> QED BY <1>3, <1>4, <1>5, <1>6, <1>7, <1>8, <1>9 DEF RingMoves, Copying

\* Nothing gets on record but what is in the manifest.
LEMMA RecordGrows ==
    ASSUME TypeOK, SlotInv, [Next]_vars, NEW f, OnRecord(f)'
    PROVE  OnRecord(f) \/ f \in manifest'
<1>1. CASE UNCHANGED <<copy, takenAt>>
    BY <1>1 DEF OnRecord
<1>2. CASE \E k \in Cores : BootSucceeds(k)
    BY <1>2 DEF BootSucceeds, verbs, TypeOK, OnRecord
<1>3. CASE \E k \in Cores : PollTakes(k)
    <2>1. PICK k \in Cores : PollTakes(k)
        BY <1>3
    <2>2. Take(k, FALSE) /\ UNCHANGED <<manifest, takenAt>>
        BY <2>1 DEF PollTakes, verbs
    <2> QED BY <2>2, TakeSets DEF OnRecord
<1>4. CASE \E k \in Cores : CopyReads(k)
    BY <1>4, CopyReadSets DEF OnRecord
<1>5. CASE \E k \in Cores : CopyEnds(k) \/ CopyFails(k)
    <2>1. PICK k \in Cores : CopyEnds(k) \/ CopyFails(k)
        BY <1>5
    <2>2. /\ copy' = [copy EXCEPT ![k] = NoCopy] /\ manifest' = manifest
          /\ takenAt' = takenAt \/ takenAt' = [takenAt EXCEPT ![k] = copy[k].mark]
        BY <2>1 DEF CopyEnds, CopyFails, MarkBefore, verbs
    <2>3. \A j \in Cores : f \in copy'[j].mark => f \in copy[j].mark
        BY <2>2, CopyGone
    <2>4. \A j \in Cores : f \in takenAt'[j] => f \in takenAt[j] \/ f \in copy[j].mark
        BY <2>2 DEF TypeOK
    <2> QED BY <2>2, <2>3, <2>4 DEF OnRecord
<1>6. CASE QuitGeneration
    <2>1. tearing \in Cores /\ UNCHANGED <<manifest, takenAt>>
        BY <1>6 DEF QuitGeneration, SlotInv, Tearing, verbs
    <2>2. copy' = copy \/ Take(tearing, TRUE)
        BY <1>6 DEF QuitGeneration
    <2>3. CASE Take(tearing, TRUE)
        BY <2>1, <2>3, TakeSets DEF OnRecord
    <2> QED BY <1>1, <2>1, <2>2, <2>3
<1>7. CASE Disposes
    BY <1>1, <1>7 DEF Disposes
<1>8. CASE ~RingMoves
    BY <1>1, <1>8, OthersMoveNot DEF ring
<1> QED BY <1>2, <1>3, <1>4, <1>5, <1>6, <1>7, <1>8 DEF RingMoves, Copying

LEMMA WrittenStep ==
    ASSUME TypeOK, SlotInv, WrittenInv, [Next]_vars
    PROVE  WrittenInv'
<1>1. CASE \E u \in Verbs : Declares(u) \/ Lands(u) \/ Fails(u)
    <2>1. PICK u \in Verbs : Declares(u) \/ Lands(u) \/ Fails(u)
        BY <1>1
    <2>2. /\ \A v \in Verbs \ {u} : verb'[v] = verb[v]
          /\ UNCHANGED ring
        BY <2>1 DEF Declares, Lands, Fails, TypeOK
    <2>3. \A f : OnRecord(f)' <=>
              f \in manifest' \/ \E k \in Cores : f \in takenAt[k] \/ f \in copy[k].mark
        BY <2>2 DEF OnRecord, ring
    <2>4. \A f \in manifest : OnRecord(f)
        BY DEF OnRecord
    <2>5. \A f : (\E k \in Cores : f \in takenAt[k] \/ f \in copy[k].mark) => OnRecord(f)
        BY DEF OnRecord
    <2>6. CASE Declares(u)
        BY <2>2, <2>3, <2>4, <2>5, <2>6 DEF Declares, WrittenInv, TypeOK
    <2>7. CASE Lands(u)
        BY <2>2, <2>3, <2>4, <2>5, <2>7 DEF Lands, WrittenInv, TypeOK
    <2>8. CASE Fails(u)
        BY <2>2, <2>3, <2>4, <2>5, <2>8 DEF Fails, InFlight, WrittenInv, TypeOK
    <2> QED BY <2>1, <2>6, <2>7, <2>8
<1>2. CASE ~\E u \in Verbs : Declares(u) \/ Lands(u) \/ Fails(u)
    <2>1. manifest' = manifest
        BY <1>2, OthersWriteNot
    <2>2. \A f : OnRecord(f)' => OnRecord(f)
        BY <2>1, RecordGrows DEF OnRecord
    <2>3. CASE \E p \in Callers, v \in Verbs : Call(p, v)
        BY <2>2, <2>3 DEF Call, WrittenInv, TypeOK
    <2>4. CASE UNCHANGED verb
        BY <2>2, <2>4 DEF WrittenInv
    <2> QED
        BY <1>2, <2>3, <2>4
        DEF Next, AskForCore, CoreArrives, LetsGo, PollTakes, Copying, CopyReads, CopyEnds,
            CopyFails, BeforeQuit, DisposerShutsDown, HarnessShutsDown, AppEnds, Teardown,
            TeardownBegins, BootNeverFinished, Joined, JoinExpires, QuitGeneration,
            Disposes, HooksJoined, Booting, BootSucceeds, BootFails, verbs, vars
<1> QED BY <1>1, <1>2

LEMMA RingStep ==
    ASSUME TypeOK, SlotInv, WrittenInv, TakesInv, RingInv, [Next]_vars
    PROVE  RingInv'
<1>1. CASE \E v \in Verbs : Declares(v) \/ Lands(v) \/ Fails(v)
    <2>1. UNCHANGED <<kept, copy, takenAt>>
        BY <1>1 DEF Declares, Lands, Fails, ring
    <2>2. \A f \in manifest' : f \in manifest \/ ~OnRecord(f)
        BY <1>1, BodyWrites
    <2>3. \A k \in Cores : \A f \in manifest' :
              (f \in takenAt[k] \/ f \in copy[k].mark) => f \in manifest
        BY <2>2 DEF OnRecord
    <2> QED BY <2>1, <2>3 DEF RingInv
<1>2. CASE manifest' = manifest /\ UNCHANGED <<kept, copy, takenAt>>
    BY <1>2 DEF RingInv
<1>3. CASE \E k \in Cores : BootSucceeds(k)
    <2>1. PICK k \in Cores : BootSucceeds(k)
        BY <1>3
    <2>2. /\ UNCHANGED <<manifest, copy>> /\ core[k] = "booting"
          /\ \A j \in Cores : ~copy[j].read
        BY <2>1 DEF BootSucceeds, RingFree, verbs
    <2>3. CASE UNCHANGED <<kept, takenAt>>
        BY <1>2, <2>2, <2>3
    <2>4. CASE kept' = manifest /\ takenAt' = [takenAt EXCEPT ![k] = manifest]
        <3>1. ~copy[k].on
            BY <2>2 DEF TakesInv
        <3>2. \A j \in Cores \ {k} : takenAt'[j] = takenAt[j]
            BY <2>4 DEF TypeOK
        <3> QED BY <2>2, <2>4, <3>1, <3>2 DEF RingInv
    <2> QED BY <2>1, <2>3, <2>4 DEF BootSucceeds
<1>4. CASE \E k \in Cores : PollTakes(k)
    <2>1. PICK k \in Cores : PollTakes(k)
        BY <1>4
    <2>2. Take(k, FALSE) /\ UNCHANGED <<manifest, takenAt, kept>>
        BY <2>1 DEF PollTakes, verbs
    <2> QED BY <2>2, TakeSets DEF RingInv
<1>5. CASE \E k \in Cores : CopyReads(k)
    <2>1. PICK k \in Cores : CopyReads(k)
        BY <1>5
    <2> QED BY <2>1, CopyReadSets DEF RingInv
<1>6. CASE \E k \in Cores : CopyEnds(k)
    <2>1. PICK k \in Cores : CopyEnds(k)
        BY <1>6
    <2>2. /\ copy[k].read /\ kept' = copy[k].got /\ manifest' = manifest
          /\ takenAt' = [takenAt EXCEPT ![k] = copy[k].mark]
          /\ copy' = [copy EXCEPT ![k] = NoCopy]
        BY <2>1 DEF CopyEnds, MarkBefore, verbs
    <2>3. /\ ~copy'[k].on /\ ~copy'[k].read
          /\ \A j \in Cores \ {k} : copy'[j] = copy[j]
        BY <2>2, CopyGone
    <2>4. /\ takenAt'[k] = copy[k].mark
          /\ \A j \in Cores \ {k} : takenAt'[j] = takenAt[j]
        BY <2>2 DEF TypeOK
    <2>5. \A j \in Cores \ {k} : ~copy[j].read
        BY <2>2 DEF TakesInv
    <2> QED BY <2>2, <2>3, <2>4, <2>5 DEF RingInv
<1>7. CASE \E k \in Cores : CopyFails(k)
    <2>1. PICK k \in Cores : CopyFails(k)
        BY <1>7
    <2>2. copy' = [copy EXCEPT ![k] = NoCopy] /\ UNCHANGED <<manifest, kept, takenAt>>
        BY <2>1 DEF CopyFails, verbs
    <2> QED BY <2>2, CopyGone DEF RingInv
<1>8. CASE QuitGeneration
    <2>1. tearing \in Cores /\ UNCHANGED <<manifest, takenAt, kept>>
        BY <1>8 DEF QuitGeneration, SlotInv, Tearing, verbs
    <2>2. copy' = copy \/ Take(tearing, TRUE)
        BY <1>8 DEF QuitGeneration
    <2>3. CASE Take(tearing, TRUE)
        BY <2>1, <2>3, TakeSets DEF RingInv
    <2> QED BY <1>2, <2>1, <2>2, <2>3
<1>9. CASE Disposes
    BY <1>2, <1>9 DEF Disposes, verbs
<1>10. CASE ~RingMoves /\ ~\E v \in Verbs : Declares(v) \/ Lands(v) \/ Fails(v)
    BY <1>2, <1>10, OthersMoveNot, OthersWriteNot DEF ring
<1> QED
    BY <1>1, <1>3, <1>4, <1>5, <1>6, <1>7, <1>8, <1>9, <1>10 DEF RingMoves, Copying

(* While the last take of a teardown in time is out, no verb of its core is in flight,
   and no other core is open: the manifest only loses rows, of bodies that fail. *)
LEMMA LastShrinks ==
    ASSUME TypeOK, SlotInv, LedgerInv, HoldersInv, [Next]_vars,
           teardown = "generation", ~Excused(tearing)
    PROVE  manifest' \subseteq manifest
<1>1. CASE \E v \in Verbs : Declares(v) \/ Lands(v)
    <2>1. PICK v \in Verbs : Declares(v) \/ Lands(v)
        BY <1>1
    <2>2. InFlight(v) /\ ~ClosedFor(v)
        BY <2>1 DEF Declares, Lands, InFlight
    <2>3. on[v] \in Cores /\ core[on[v]] = "live"
        BY <2>2 DEF LedgerInv, HoldersInv, Booted, ClosedFor
    <2>4. on[v] = tearing
        BY <2>3, CoreIsNotNone DEF SlotInv, Open, Tearing
    <2>5. v \in AdmittedBy(tearing)
        BY <2>2, <2>4 DEF AdmittedBy
    <2> QED BY <2>5 DEF LedgerInv, Excused
<1>2. CASE \E v \in Verbs : Fails(v)
    BY <1>2 DEF Fails
<1>3. CASE ~\E v \in Verbs : Declares(v) \/ Lands(v) \/ Fails(v)
    BY <1>3, OthersWriteNot
<1> QED BY <1>1, <1>2, <1>3

\* The teardown moves on, or nothing of it changes but what excuses it.
LEMMA ToGeneration ==
    ASSUME [Next]_vars, teardown' = "generation"
    PROVE  \/ QuitGeneration
           \/ /\ teardown = "generation" /\ tearing' = tearing
              /\ excuses \subseteq excuses'
BY DEF Next, AskForCore, CoreArrives, LetsGo, Call, Declares, Lands, Fails, PollTakes,
       Copying, CopyReads, CopyEnds, CopyFails, BeforeQuit, DisposerShutsDown,
       HarnessShutsDown, BeginTeardown, AppEnds, Teardown, TeardownBegins,
       BootNeverFinished, EndTeardown, DropsPromise, Joined, JoinExpires, Disposes,
       HooksJoined, Booting, BootSucceeds, BootFails, teardownVars, vars

LEMMA LastStep ==
    ASSUME TypeOK, SlotInv, LedgerInv, HoldersInv, TakesInv, RingInv, LastInv, [Next]_vars
    PROVE  LastInv'
<1> SUFFICES ASSUME teardown' = "generation", ~Excused(tearing)'
             PROVE  \/ manifest' \subseteq takenAt'[tearing']
                    \/ /\ copy'[tearing'].on /\ copy'[tearing'].quit
                       /\ manifest' \subseteq copy'[tearing'].mark
    BY DEF LastInv
<1>1. CASE QuitGeneration
    <2>1. /\ tearing \in Cores /\ UNCHANGED <<manifest, takenAt, tearing>>
        BY <1>1 DEF QuitGeneration, SlotInv, Tearing, verbs
    <2>2. manifest = takenAt[tearing] \/ Take(tearing, TRUE)
        BY <1>1, <2>1 DEF QuitGeneration, Excused
    <2>3. CASE Take(tearing, TRUE)
        BY <2>1, <2>3, TakeSets
    <2> QED BY <2>1, <2>2, <2>3
<1>2. CASE ~QuitGeneration
    <2>1. teardown = "generation" /\ tearing' = tearing /\ excuses \subseteq excuses'
        BY <1>2, ToGeneration
    <2>2. ~Excused(tearing)
        BY <2>1 DEF Excused
    <2>3. manifest' \subseteq manifest
        BY <2>1, <2>2, LastShrinks
    <2>4. tearing \in Cores /\ core[tearing] = "live"
        BY <2>1 DEF SlotInv, Tearing, AfterBoot
    <2>5. \/ manifest \subseteq takenAt[tearing]
          \/ /\ copy[tearing].on /\ copy[tearing].quit
             /\ manifest \subseteq copy[tearing].mark
        BY <2>1, <2>2 DEF LastInv
    <2>6. CASE copy'[tearing] = copy[tearing] /\ takenAt'[tearing] = takenAt[tearing]
        BY <2>1, <2>3, <2>5, <2>6
    <2>7. CASE \E k \in Cores : BootSucceeds(k)
        <3>1. PICK k \in Cores : BootSucceeds(k)
            BY <2>7
        <3>2. /\ core[k] = "booting" /\ copy' = copy
              /\ takenAt' = takenAt \/ takenAt' = [takenAt EXCEPT ![k] = manifest]
            BY <3>1 DEF BootSucceeds
        <3> QED BY <2>4, <2>6, <3>2 DEF TypeOK
    <2>8. CASE \E k \in Cores : PollTakes(k)
        <3>1. PICK k \in Cores : PollTakes(k)
            BY <2>8
        <3>2. Take(k, FALSE) /\ takenAt' = takenAt /\ ~copy[k].on
            BY <3>1 DEF PollTakes
        <3>3. CASE k = tearing
            BY <2>1, <2>3, <2>5, <3>2, <3>3
        <3>4. CASE k # tearing
            BY <2>4, <2>6, <3>2, <3>4, TakeSets
        <3> QED BY <3>3, <3>4
    <2>9. CASE \E k \in Cores : CopyReads(k)
        <3>1. PICK k \in Cores : CopyReads(k)
            BY <2>9
        <3>2. /\ copy'[tearing].on = copy[tearing].on \/ copy'[tearing].on
              /\ copy'[tearing].quit = copy[tearing].quit
              /\ copy'[tearing].mark = copy[tearing].mark
              /\ takenAt' = takenAt
            BY <2>4, <3>1, CopyReadSets
        <3> QED BY <2>1, <2>3, <2>5, <3>2
    <2>10. CASE \E k \in Cores : CopyEnds(k)
        <3>1. PICK k \in Cores : CopyEnds(k)
            BY <2>10
        <3>2. /\ copy[k].read /\ takenAt' = [takenAt EXCEPT ![k] = copy[k].mark]
              /\ copy' = [copy EXCEPT ![k] = NoCopy]
            BY <3>1 DEF CopyEnds, MarkBefore
        <3>3. CASE k # tearing
            BY <2>4, <2>6, <3>2, <3>3 DEF TypeOK
        <3>4. CASE k = tearing
            <4>1. takenAt'[tearing] = copy[tearing].mark /\ copy[tearing].on
                BY <2>4, <3>2, <3>4 DEF TypeOK, TakesInv
            <4>2. takenAt[tearing] \cap manifest \subseteq copy[tearing].mark
                BY <2>4, <4>1 DEF RingInv
            <4> QED BY <2>1, <2>3, <2>5, <4>1, <4>2
        <3> QED BY <3>3, <3>4
    <2>11. CASE \E k \in Cores : CopyFails(k)
        <3>1. PICK k \in Cores : CopyFails(k)
            BY <2>11
        <3>2. copy' = [copy EXCEPT ![k] = NoCopy] /\ takenAt' = takenAt
            BY <3>1 DEF CopyFails
        <3>3. k # tearing
            BY <2>1, <3>1 DEF CopyFails, Excused
        <3> QED BY <2>4, <2>6, <3>2, <3>3 DEF TypeOK
    <2>12. CASE Disposes \/ ~RingMoves
        BY <2>1, <2>6, <2>12, OthersMoveNot DEF Disposes, ring
    <2> QED
        BY <1>2, <2>7, <2>8, <2>9, <2>10, <2>11, <2>12 DEF RingMoves, Copying
<1> QED BY <1>1, <1>2

\* A core is disposed of when its own last take is no longer out.
LEMMA DisposesSaved ==
    ASSUME TypeOK, SlotInv, RingInv, LastInv, [Next]_vars, NEW k \in Cores,
           core[k] = "live", core'[k] = "disposed", ~Excused(k)
    PROVE  manifest \subseteq kept
<1>1. Disposes
    BY DEF Next, AskForCore, CoreArrives, LetsGo, Call, Declares, Lands, Fails, PollTakes,
           Copying, CopyReads, CopyEnds, CopyFails, BeforeQuit, DisposerShutsDown,
           HarnessShutsDown, BeginTeardown, AppEnds, Teardown, TeardownBegins,
           BootNeverFinished, Joined, JoinExpires, QuitGeneration, HooksJoined, Booting,
           BootSucceeds, BootFails, slotVars, vars, TypeOK
<1>2. k = tearing /\ teardown = "generation" /\ ~copy[tearing].quit
    BY <1>1 DEF Disposes, TypeOK
<1>3. manifest \subseteq takenAt[k]
    BY <1>2 DEF LastInv
<1> QED BY <1>3 DEF RingInv

\* Everything the core's lifecycle rests on.
QuitInv == TypeOK /\ SlotInv /\ LedgerInv /\ SaveInv

LEMMA QuitStep == QuitInv /\ [Next]_vars => QuitInv'
BY TypeStep, SlotStep, LedgerStep, WrittenStep, HoldersStep, TakesStep, RingStep, LastStep
DEF QuitInv, SaveInv

(* The inductive invariant of the quit: the join knows the verbs in flight, a
   fingerprint never promises what no generation holds, and once the last take was
   decided on, the manifest is what it saves, or less. *)
THEOREM QuitInvariant == Spec => []QuitInv
<1>1. Init => QuitInv
    BY TypeInit, SlotInit, LedgerInit, SaveInit DEF QuitInv
<1> QED BY <1>1, QuitStep, PTL DEF Spec

(* A teardown that had time, and whose own take was neither lost nor turned away,
   leaves every fact of the manifest in the newest generation of the ring. *)
THEOREM QuitLosesNothingAlways == Spec => QuitLosesNothing
<1>1. QuitInv /\ [Next]_vars =>
          [\A k \in Cores :
              (core[k] = "live" /\ core'[k] = "disposed"
                 /\ \A why \in {"late", "failed", "inFlight"} : <<k, why>> \notin excuses)
              => manifest \subseteq kept]_vars
    BY DisposesSaved DEF QuitInv, SaveInv, Excused
<1> QED BY <1>1, QuitInvariant, PTL DEF Spec, QuitLosesNothing

=============================================================================
