----------------------------- MODULE BackupRing -----------------------------
(***************************************************************************)
(* One capture of the manifest into the ring of generations                *)
(* (src/main/manifest/recovery.ts), step by step over the durable writer   *)
(* (src/main/durable/write.ts) and its pruning (durable/generations.ts).   *)
(*                                                                         *)
(* The ring is one directory: a body for each generation and the record,   *)
(* the file that names the bodies a reader may trust and what each must    *)
(* hold.  A body is known by the capture that wrote it, which stands for   *)
(* its length and its hash.  Names in a directory change at once for those *)
(* who read it, and survive a power cut once the directory is flushed:     *)
(* until then each name keeps what it had or gets what was written to it.  *)
(* Captures run one at a time, under the ring's lock.                      *)
(***************************************************************************)
EXTENDS Naturals, FiniteSets

CONSTANTS
    Keep,          \* BACKUP_GENERATIONS
    MaxCaptures,   \* bound: captures begun
    MaxFaults,     \* bound: calls of the filesystem that fail
    MaxDeaths,     \* bound: power cuts and deaths of the process
    MaxRots,       \* bound: bodies the disk damages
    MayMisread     \* whether a read of the record or a listing of the directory,
                   \* whose failures are swallowed, may fail

ASSUME KeepAssumption == Keep \in Nat /\ Keep >= 2
ASSUME BoundsAssumption ==
    /\ MaxCaptures \in Nat
    /\ MaxFaults \in Nat
    /\ MaxDeaths \in Nat
    /\ MaxRots \in Nat
    /\ MayMisread \in BOOLEAN

Captures == 1..MaxCaptures
Generations == 1..MaxCaptures
NoBody == 0
Torn == MaxCaptures + 1            \* bytes that are not a capture's
Bodies == Captures \cup {NoBody, Torn}
Capsules == Generations \X Captures

VARIABLES
    body,        \* what each generation's name holds
    record,      \* the capsules of the record; none if it is torn or absent
    bodyCut,     \* what a power cut may leave under each name
    recordCut,   \* what a power cut may leave of the record
    at,          \* where the capture in progress is
    taking,      \* the capture in progress: its number and its generation
    before,      \* the record as the capture read it
    staged,      \* the staged file: whether its bytes are the ones meant, and
                 \* the capsules it holds when it is a record
    doomed,      \* the bodies the prune has yet to remove
    begun,       \* captures begun
    acked,       \* history: the newest capture that returned
    faults, deaths, rots

disk == <<body, record, bodyCut, recordCut>>
work == <<at, taking, before, staged, doomed>>
vars == <<disk, work, begun, acked, faults, deaths, rots>>

Nothing == [number |-> 0, generation |-> 0]
NotStaged == [good |-> TRUE, capsules |-> {}]
Places == {"idle", "body", "bodyStaged", "bodyNamed",
           "record", "recordStaged", "recordNamed", "prune"}

TypeOK ==
    /\ body \in [Generations -> Bodies]
    /\ record \subseteq Capsules
    /\ bodyCut \in [Generations -> SUBSET Bodies]
    /\ recordCut \subseteq SUBSET Capsules
    /\ at \in Places
    /\ taking \in [number : Captures, generation : Generations] \cup {Nothing}
    /\ before \subseteq Capsules
    /\ staged \in [good : BOOLEAN, capsules : SUBSET Capsules]
    /\ doomed \subseteq Generations
    /\ begun \in 0..MaxCaptures
    /\ acked \in 0..MaxCaptures
    /\ faults \in 0..MaxFaults
    /\ deaths \in 0..MaxDeaths
    /\ rots \in 0..MaxRots

Init ==
    /\ body = [g \in Generations |-> NoBody]
    /\ record = {}
    /\ bodyCut = [g \in Generations |-> {NoBody}]
    /\ recordCut = {{}}
    /\ at = "idle"
    /\ taking = Nothing
    /\ before = {}
    /\ staged = NotStaged
    /\ doomed = {}
    /\ begun = 0
    /\ acked = 0
    /\ faults = 0
    /\ deaths = 0
    /\ rots = 0

-----------------------------------------------------------------------------
(* Reading *)

\* backupBodyVerifies: length and hash of the body are the capsule's.
Verifies(c) == body[c[1]] = c[2]
Verified(capsules) == {c \in capsules : Verifies(c)}

\* The k newest of a set of capsules, by generation.
Newest(capsules, k) ==
    {c \in capsules : Cardinality({d \in capsules : d[1] > c[1]}) < k}

\* resolveVerifiedBackup: the newest generation that proves out.
Resolved ==
    IF Verified(record) = {} THEN 0
    ELSE (CHOOSE c \in Verified(record) : c \in Newest(Verified(record), 1))[2]

\* Mistake: the number comes off the record.
NextByRecord == 1 + Cardinality(record)

\* Mistake: the number is the count of the bodies, from zero.
NextFromZero == Cardinality({g \in Generations : body[g] # NoBody})

\* nextGeneration: the number comes off the directory.
NextGeneration ==
    CHOOSE n \in 1..(MaxCaptures + 1) :
        /\ \A g \in Generations : body[g] # NoBody => g < n
        /\ n = 1 \/ body[n - 1] # NoBody

-----------------------------------------------------------------------------
(* The directory *)

\* Mistake: the staged file is not flushed before it is renamed.
Unsynced(b) == IF b = NoBody THEN {b} ELSE {b, Torn}

\* handle.sync before the rename: where a name appears, so do its bytes.
Synced(b) == {b}

\* rename onto the name of a body, or its unlink
NameBody(g, b) ==
    /\ body' = [body EXCEPT ![g] = b]
    /\ bodyCut' = [bodyCut EXCEPT ![g] = @ \cup Synced(b)]

\* flushDirectory: the body and the record are in one directory.
Flushed ==
    /\ bodyCut' = [g \in Generations |-> Synced(body[g])]
    /\ recordCut' = {record}
    /\ UNCHANGED <<body, record>>

Fault == faults < MaxFaults /\ faults' = faults + 1

\* What writing a staged file leaves: the bytes meant, or, unnoticed by the
\* calls that wrote them, other ones.
Stage(capsules) ==
    \/ /\ staged' = [good |-> TRUE, capsules |-> capsules]
       /\ UNCHANGED faults
    \/ /\ Fault
       /\ staged' = [good |-> FALSE, capsules |-> capsules]

\* Mistake: the flush returned, so the file is taken to be whole.
Flushes(file) == TRUE

\* The size check and verifyStaged: the bytes on disk are the ones meant.
Proven(file) == file.good

\* The capture is over, and the ring's lock is free.
Over ==
    /\ at' = "idle"
    /\ taking' = Nothing
    /\ before' = {}
    /\ staged' = NotStaged
    /\ doomed' = {}

-----------------------------------------------------------------------------
(* A capture *)

\* What a read that fails is taken to have said: an empty directory, whose first
\* number is 1, or a record that names nothing.
Misread(answers) == IF MayMisread THEN answers ELSE {}

\* The record is read, the number chosen, the copy made and found sound.
Begin ==
    /\ at = "idle"
    /\ begun < MaxCaptures
    /\ begun' = begun + 1
    /\ at' = "body"
    /\ \E g \in {NextGeneration} \cup Misread({1}) :
          taking' = [number |-> begun', generation |-> g]
    /\ before' \in {record} \cup Misread({{}})
    /\ UNCHANGED <<disk, staged, doomed, acked, faults, deaths, rots>>

StageBody ==
    /\ at = "body"
    /\ at' = "bodyStaged"
    /\ Stage({})
    /\ UNCHANGED <<disk, taking, before, doomed, begun, acked, deaths, rots>>

PublishBody ==
    /\ at = "bodyStaged"
    /\ Proven(staged)
    /\ at' = "bodyNamed"
    /\ NameBody(taking.generation, IF staged.good THEN taking.number ELSE Torn)
    /\ UNCHANGED <<record, recordCut, taking, before, staged, doomed, begun, acked,
                   faults, deaths, rots>>

FlushBody ==
    /\ at = "bodyNamed"
    /\ at' = "record"
    /\ Flushed
    /\ UNCHANGED <<taking, before, staged, doomed, begun, acked, faults, deaths, rots>>

\* writeDurable of the body throws: its name stays if it has been given.
BodyFails ==
    /\ \/ at \in {"body", "bodyStaged", "bodyNamed"} /\ Fault
       \/ at = "bodyStaged" /\ ~Proven(staged) /\ UNCHANGED faults
    /\ Over
    /\ UNCHANGED <<disk, begun, acked, deaths, rots>>

\* Mistake: the predecessors are carried whether they verify or not.
CarriedUnproven(capsules) == Newest(capsules, Keep - 1)

\* writeBackupIndex: the predecessors whose bodies verify, newest first.
Carried(capsules) == Newest(Verified(capsules), Keep - 1)

Capsule == <<taking.generation, taking.number>>

StageRecord ==
    /\ at = "record"
    /\ at' = "recordStaged"
    /\ Stage({Capsule} \cup Carried({c \in before : c[1] # taking.generation}))
    /\ UNCHANGED <<disk, taking, before, doomed, begun, acked, deaths, rots>>

PublishRecord ==
    /\ at = "recordStaged"
    /\ Proven(staged)
    /\ at' = "recordNamed"
    /\ record' = IF staged.good THEN staged.capsules ELSE {}
    /\ recordCut' = recordCut \cup {record'}
    /\ UNCHANGED <<body, bodyCut, taking, before, staged, doomed, begun, acked, faults,
                   deaths, rots>>

\* The catch around writeBackupIndex: the body goes, if it can be unlinked.
RecordFails ==
    /\ \/ at \in {"record", "recordStaged", "recordNamed"} /\ Fault
       \/ at = "recordStaged" /\ ~Proven(staged) /\ UNCHANGED faults
    /\ \/ NameBody(taking.generation, NoBody)
       \/ UNCHANGED <<body, bodyCut>>
    /\ Over
    /\ UNCHANGED <<record, recordCut, begun, acked, deaths, rots>>

\* pruneBackupRing: the newest and, to Keep in all, the newest that verify.
Protected(capsules) ==
    {c[1] : c \in {Capsule} \cup Newest(Verified(capsules) \ {Capsule}, Keep - 1)}

\* The record is durable.  Bodies newer than it are left alone as well.
FlushRecord ==
    /\ at = "recordNamed"
    /\ at' = "prune"
    /\ Flushed
    /\ doomed' = {g \in Generations :
                    /\ body[g] # NoBody
                    /\ g \notin Protected(staged.capsules)
                    /\ g < taking.generation}
    /\ UNCHANGED <<taking, before, staged, begun, acked, faults, deaths, rots>>

\* One unlink of pruneGenerations; one that fails is left for the next pass.
Prune(g) ==
    /\ at = "prune"
    /\ g \in doomed
    /\ doomed' = doomed \ {g}
    /\ \/ NameBody(g, NoBody) /\ UNCHANGED faults
       \/ Fault /\ UNCHANGED <<body, bodyCut>>
    /\ UNCHANGED <<record, recordCut, at, taking, before, staged, begun, acked,
                   deaths, rots>>

Return ==
    /\ at = "prune"
    /\ doomed = {}
    /\ acked' = taking.number
    /\ Over
    /\ UNCHANGED <<disk, begun, faults, deaths, rots>>

-----------------------------------------------------------------------------
(* What happens to the machine *)

Death == deaths < MaxDeaths /\ deaths' = deaths + 1

\* The process dies; the kernel keeps what it was told.
ProcessDies ==
    /\ at # "idle"
    /\ Death
    /\ Over
    /\ UNCHANGED <<disk, begun, acked, faults, rots>>

\* The names that have changed since the directory was flushed.
Unsettled == {g \in Generations : bodyCut[g] # {body[g]}}

\* Each name comes back as it last was on disk, or as something written since.
PowerCut ==
    /\ Death
    /\ \E left \in [Unsettled -> Bodies] :
          /\ \A g \in Unsettled : left[g] \in bodyCut[g]
          /\ body' = [g \in Generations |-> IF g \in Unsettled THEN left[g] ELSE body[g]]
    /\ record' \in recordCut
    /\ bodyCut' = [g \in Generations |-> {body'[g]}]
    /\ recordCut' = {record'}
    /\ Over
    /\ UNCHANGED <<begun, acked, faults, rots>>

\* A body at rest is damaged.  None is between a record's being written and its
\* directory's being flushed.
Rots(g) ==
    /\ at = "idle"
    /\ rots < MaxRots
    /\ rots' = rots + 1
    /\ body[g] \in Captures
    /\ body' = [body EXCEPT ![g] = Torn]
    /\ bodyCut' = [bodyCut EXCEPT ![g] = {Torn}]
    /\ UNCHANGED <<record, recordCut, work, begun, acked, faults, deaths>>

-----------------------------------------------------------------------------

Capture ==
    \/ Begin \/ StageBody \/ PublishBody \/ FlushBody \/ BodyFails
    \/ StageRecord \/ PublishRecord \/ FlushRecord \/ RecordFails
    \/ \E g \in Generations : Prune(g)
    \/ Return

Next ==
    \/ Capture
    \/ ProcessDies \/ PowerCut
    \/ \E g \in Generations : Rots(g)

Spec == Init /\ [][Next]_vars

-----------------------------------------------------------------------------
(* Properties *)

Promise == INSTANCE BackupPromise WITH got <- Resolved, damage <- rots

(* Whatever step fails and whenever the power goes, a reader gets the newest
   capture that returned, or a later one: the ring implements its promise. *)
KeepsPromise == Promise!Spec

(* A capture that returned and still proves out is never the price of one under
   way: with it in the record, no step but damage to the disk leaves a reader
   nothing but the capture in progress, whose body may yet be taken back.  So a
   predecessor that does not verify must not be carried in the place of one that
   does, and no prune removes the last verified predecessor. *)
ProofSurvives ==
    [][((\E c \in Verified(record) : c[2] <= acked) /\ rots' = rots)
          => (\E c \in Verified(record) : c[2] # taking.number)']_vars

(* A body is never published over another, the debris of a crash included. *)
NeverOverwrites ==
    [][(at = "bodyStaged" /\ at' = "bodyNamed") =>
          body[taking.generation] = NoBody]_vars

=============================================================================
