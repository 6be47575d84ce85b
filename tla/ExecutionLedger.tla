--------------------------- MODULE ExecutionLedger ---------------------------
(***************************************************************************)
(* The ledger of remote work (src/main/machines/execution-ledger.ts): who  *)
(* owns each ssh child, what a quit does to those that still run, and the  *)
(* durable row of a copy, which is how the next launch finds out that one  *)
(* was cut off.  Pieces of work are numbered in the order they are         *)
(* admitted, over all the launches; the rows of copies have that order too.*)
(***************************************************************************)
EXTENDS Naturals

CONSTANTS
    MaxWorks,      \* bound: pieces of work admitted
    MaxCrashes,    \* bound: times the application dies
    MaxQuits,      \* bound: times it quits
    MaxFaults      \* bound: writes or reads of the manifest that fail

ASSUME BoundsAssumption ==
    /\ MaxWorks \in Nat
    /\ MaxCrashes \in Nat
    /\ MaxQuits \in Nat
    /\ MaxFaults \in Nat

VARIABLES
    row,        \* manifest: the row of each copy in remote_executions (durable)
    entry,      \* the ledger's entry of each piece of work, as last seen
    child,      \* the ssh child of each piece of work
    copies,     \* the pieces of work of the journaled kind
    born,       \* how many were admitted
    cancelled,  \* the entries a cancel signalled
    app,        \* the application is running
    journal,    \* the manifest is installed in the ledger
    accepts,    \* ~shuttingDown
    quit,       \* how far a quit has come
    todo,       \* the boot read: rows it found and has still to close
    batch,      \* the boot read: every row it found
    told,       \* history: how often a person was told of each
    inTime,     \* history: the work that ended while the journal was installed
    excused,    \* history: the rows a fault or a crash of the boot read touched
    crashes, quits, faults

bootRead == <<todo, batch>>
ledger == <<entry, child, copies, born, cancelled>>
process == <<app, journal, accepts, quit>>
history == <<told, inTime, excused>>
bounds == <<crashes, quits, faults>>
vars == <<row, ledger, process, bootRead, history, bounds>>

Works == 1..MaxWorks
Finished == {"answered", "failed"}
Outcomes == Finished \cup {"cutOff", "unjoined"}

TypeOK ==
    /\ row \in [Works -> {"none", "open", "answered", "failed", "cutOff"}]
    /\ entry \in [Works -> {"unborn", "declared", "open", "lost"} \cup Outcomes]
    /\ child \in [Works -> {"none", "running", "done", "broken"}]
    /\ copies \subseteq Works
    /\ born \in 0..MaxWorks
    /\ cancelled \subseteq Works
    /\ app \in BOOLEAN
    /\ journal \in BOOLEAN
    /\ accepts \in BOOLEAN
    /\ quit \in {"no", "disposed", "joining", "over"}
    /\ todo \subseteq batch
    /\ batch \subseteq Works
    /\ told \in [Works -> Nat]
    /\ inTime \subseteq Works
    /\ excused \subseteq Works
    /\ crashes \in 0..MaxCrashes
    /\ quits \in 0..MaxQuits
    /\ faults \in 0..MaxFaults

Init ==
    /\ row = [e \in Works |-> "none"]
    /\ entry = [e \in Works |-> "unborn"]
    /\ child = [e \in Works |-> "none"]
    /\ copies = {}
    /\ born = 0
    /\ cancelled = {}
    /\ app = FALSE
    /\ journal = FALSE
    /\ accepts = TRUE
    /\ quit = "no"
    /\ todo = {}
    /\ batch = {}
    /\ told = [e \in Works |-> 0]
    /\ inTime = {}
    /\ excused = {}
    /\ crashes = 0
    /\ quits = 0
    /\ faults = 0

Fault ==
    /\ faults < MaxFaults
    /\ faults' = faults + 1

\* Neither the boot read nor an admission is under way: both are free of awaits.
Quiet == batch = {} /\ \A e \in Works : entry[e] # "declared"

OpenEntries == {e \in Works : entry[e] = "open"}

-----------------------------------------------------------------------------
(* The boot read *)

\* Mistake: only the last run's newest row is looked for.
NewestUnfinished ==
    {e \in Works : row[e] = "open" /\ \A d \in Works : row[d] = "open" => d <= e}

\* listUnfinishedRemoteExecutions
Unfinished == {e \in Works : row[e] = "open"}

\* setRemoteManifest, called by the constructor of the core, up to the rows it reads.
Launch ==
    /\ ~app
    /\ app' = TRUE
    /\ journal' = TRUE
    /\ accepts' = TRUE
    /\ quit' = "no"
    /\ cancelled' = {}
    /\ \/ /\ todo' = Unfinished
          /\ batch' = Unfinished
          /\ UNCHANGED <<faults, excused>>
       \/ /\ Fault
          /\ excused' = excused \cup Unfinished
          /\ UNCHANGED bootRead
    /\ UNCHANGED <<row, entry, child, copies, born, told, inTime, crashes, quits>>

\* finishRemoteExecution of the oldest row left; a failure ends the read, and the
\* notice with it.
CloseCutOff(e) ==
    /\ e \in todo
    /\ \A d \in todo : e <= d
    /\ \/ /\ row' = [row EXCEPT ![e] = "cutOff"]
          /\ todo' = todo \ {e}
          /\ UNCHANGED <<batch, excused, faults>>
       \/ /\ Fault
          /\ excused' = excused \cup batch
          /\ todo' = {}
          /\ batch' = {}
          /\ UNCHANGED row
    /\ UNCHANGED <<ledger, process, told, inTime, crashes, quits>>

\* postDurabilityNotice, one notice for all of them.
TellCutOff ==
    /\ batch # {}
    /\ todo = {}
    /\ told' = [e \in Works |-> IF e \in batch THEN told[e] + 1 ELSE told[e]]
    /\ batch' = {}
    /\ UNCHANGED <<row, ledger, process, todo, inTime, excused, bounds>>

-----------------------------------------------------------------------------
(* Admission *)

\* Mistake: the gate is asked where a row is written, and nowhere else.
GateOfCopies(copy) == copy => accepts

\* No work is admitted once a quit has closed the gate.
Gate(copy) == accepts

\* The row of a copy goes down before anything runs; without it the copy is refused.
Declared(e, copy) ==
    IF copy THEN journal /\ row' = [row EXCEPT ![e] = "open"]
    ELSE UNCHANGED row

\* admitRemoteExecution, up to the durable row.
Declare(copy) ==
    LET e == born + 1 IN
    /\ app
    /\ Quiet
    /\ Gate(copy)
    /\ born < MaxWorks
    /\ Declared(e, copy)
    /\ born' = e
    /\ copies' = IF copy THEN copies \cup {e} ELSE copies
    /\ entry' = [entry EXCEPT ![e] = "declared"]
    /\ UNCHANGED <<child, cancelled, process, bootRead, history, bounds>>

\* The start row could not be written: the caller is refused and nothing is kept.
RefuseUnrecorded ==
    /\ app
    /\ Quiet
    /\ accepts
    /\ journal
    /\ Fault
    /\ UNCHANGED <<row, ledger, process, bootRead, history, crashes, quits>>

\* openEntry and run, which spawns the child before its first await.
Start(e) ==
    /\ entry[e] = "declared"
    /\ entry' = [entry EXCEPT ![e] = "open"]
    /\ child' = [child EXCEPT ![e] = "running"]
    /\ UNCHANGED <<row, copies, born, cancelled, process, bootRead, history, bounds>>

-----------------------------------------------------------------------------
(* The end of a piece of work *)

\* The machine answers; the command fails or times out; a signal of ours ends it.
ChildEnds(e) ==
    /\ app
    /\ child[e] = "running"
    /\ entry[e] = "open"
    /\ \E how \in {"done", "broken"} : child' = [child EXCEPT ![e] = how]
    /\ UNCHANGED <<row, entry, copies, born, cancelled, process, bootRead, history,
                   bounds>>

\* How closeEntry classifies work whose promise settled.
Final(e) ==
    CASE child[e] = "done" -> "answered"
      [] child[e] = "broken" /\ e \in cancelled -> "cutOff"
      [] OTHER -> "failed"

\* Mistake: only an answer closes the row.
ClosedIfAnswered(e, final) ==
    IF final = "answered" /\ e \in copies /\ journal
    THEN row' = [row EXCEPT ![e] = final]
    ELSE UNCHANGED row

\* Mistake: the row is closed with what the child did.
ClosedAsChild(e, final) ==
    IF final \in Finished /\ e \in copies /\ journal
    THEN row' = [row EXCEPT ![e] = child[e]]
    ELSE UNCHANGED row

\* A row is closed for work that finished, while there is a manifest to close it in.
ClosedIfFinished(e, final) ==
    IF final \in Finished /\ e \in copies /\ journal
    THEN row' = [row EXCEPT ![e] = final]
    ELSE UNCHANGED row

\* closeEntry, when the caller's promise settles.  A row that cannot be closed stays
\* open, with a line in the log.
Settle(e) ==
    /\ app
    /\ Quiet
    /\ entry[e] = "open"
    /\ child[e] \in {"done", "broken"}
    /\ entry' = [entry EXCEPT ![e] = Final(e)]
    /\ inTime' = IF journal /\ Final(e) \in Finished THEN inTime \cup {e} ELSE inTime
    /\ \/ /\ ClosedIfFinished(e, Final(e))
          /\ UNCHANGED <<faults, excused>>
       \/ /\ Fault
          /\ excused' = excused \cup {e}
          /\ UNCHANGED row
    /\ UNCHANGED <<child, copies, born, cancelled, process, bootRead, told, crashes,
                   quits>>

-----------------------------------------------------------------------------
(* The quit *)

\* dispose of the core takes the manifest away, and the ledger's journal with it.
CoreDisposes ==
    /\ app
    /\ Quiet
    /\ quit = "no"
    /\ quits < MaxQuits
    /\ quits' = quits + 1
    /\ quit' = "disposed"
    /\ journal' = FALSE
    /\ UNCHANGED <<row, ledger, app, accepts, bootRead, history, crashes, faults>>

\* beginRemoteExecutionShutdown, cancelRemoteExecutions and the start of
\* joinRemoteExecutions, with no await between them.
CancelRemoteExecutions ==
    /\ app
    /\ Quiet
    /\ quit = "disposed"
    /\ quit' = "joining"
    /\ accepts' = FALSE
    /\ cancelled' = OpenEntries
    /\ UNCHANGED <<row, entry, child, copies, born, app, journal, bootRead, history,
                   bounds>>

\* The join is over when every entry it waits for has settled, or at its bound, when
\* what is still open is closed as unjoined.
JoinRemoteExecutions ==
    /\ app
    /\ Quiet
    /\ quit = "joining"
    /\ quit' = "over"
    /\ entry' = [e \in Works |-> IF e \in cancelled /\ entry[e] = "open" THEN "unjoined"
                                 ELSE entry[e]]
    /\ UNCHANGED <<row, child, copies, born, cancelled, app, journal, accepts, bootRead,
                   history, bounds>>

-----------------------------------------------------------------------------
(* The process *)

\* What the process held is gone; the rows stay.
Ends ==
    /\ app' = FALSE
    /\ journal' = FALSE
    /\ entry' = [e \in Works |-> IF entry[e] \in {"open", "declared"} THEN "lost"
                                 ELSE entry[e]]
    /\ todo' = {}
    /\ batch' = {}
    /\ UNCHANGED <<row, child, copies, born, cancelled, accepts, quit, told, inTime,
                   faults>>

Exits ==
    /\ app
    /\ Quiet
    /\ quit = "over"
    /\ Ends
    /\ UNCHANGED <<excused, crashes, quits>>

\* The rows the boot read had closed and not yet told of are told of by nobody.
AppDies ==
    /\ app
    /\ crashes < MaxCrashes
    /\ crashes' = crashes + 1
    /\ Ends
    /\ excused' = excused \cup (batch \ todo)
    /\ UNCHANGED quits

Next ==
    \/ Launch \/ TellCutOff
    \/ RefuseUnrecorded
    \/ \E copy \in BOOLEAN : Declare(copy)
    \/ \E e \in Works : CloseCutOff(e) \/ Start(e) \/ ChildEnds(e) \/ Settle(e)
    \/ CoreDisposes \/ CancelRemoteExecutions \/ JoinRemoteExecutions \/ Exits
    \/ AppDies

Spec == Init /\ [][Next]_vars

-----------------------------------------------------------------------------
(* Safety *)

(* A copy writes on another computer, which cannot be undone from here, so none ever
   runs without the row by which a later launch can explain it. *)
CopyRecorded ==
    \A e \in copies : child[e] # "none" => row[e] # "none"

(* When the quit has joined, the ledger owns nothing: every ssh child was waited for
   or is classified, and none is started behind the back of the join. *)
NoneOwned ==
    quit = "over" => \A e \in Works : entry[e] \notin {"declared", "open"}

(* Once the boot read is over, a copy of an earlier run that left its row open has been
   told of, exactly once, wherever the earlier launch ended; nobody is told of any
   other.  Only a fault of the manifest or a crash of the read itself excuses it. *)
CutOffTold ==
    (app /\ batch = {}) =>
        \A e \in Works \ excused :
            /\ row[e] = "open" => entry[e] \in {"declared", "open"} \/ ~journal
            /\ told[e] = (IF row[e] = "cutOff" THEN 1 ELSE 0)

(* Work that ended while the manifest was there is never said to be cut off: its caller
   was told already. *)
FinishedNotTold ==
    \A e \in inTime \ excused : told[e] = 0

=============================================================================
