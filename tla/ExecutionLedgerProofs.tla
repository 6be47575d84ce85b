------------------------ MODULE ExecutionLedgerProofs ------------------------
(***************************************************************************)
(* Theorems about ExecutionLedger, for any number of pieces of work,       *)
(* deaths, quits and failing writes: its types, no copy without its row,   *)
(* a quit that leaves no child unowned, and a notice that is given exactly *)
(* once for what was cut off and never for what finished in time.          *)
(***************************************************************************)
EXTENDS ExecutionLedger, TLAPS

-----------------------------------------------------------------------------
(* The inductive invariant *)

\* The ledger works on this piece now.
Owned(e) == entry[e] \in {"declared", "open"}

\* Copies have rows and nothing else has; a row is open while its copy is owned.
RowsInv ==
    \A e \in Works :
        /\ e > born => entry[e] = "unborn" /\ row[e] = "none" /\ e \notin copies
        /\ e \in copies <=> row[e] # "none"
        /\ Owned(e) => row[e] \in {"none", "open"}

\* A manifest means that no quit has begun; a join knows every entry that is owned.
QuitInv ==
    /\ journal => app /\ quit = "no" /\ cancelled = {}
    /\ quit \in {"joining", "over"} => ~accepts
    /\ quit = "joining" => \A e \in Works : Owned(e) => e \in cancelled /\ entry[e] = "open"
    /\ quit = "over" => \A e \in Works : ~Owned(e)
    /\ ~app => batch = {} /\ \A e \in Works : ~Owned(e)

\* How far the boot read has come, and that it misses no open row.
ReadInv ==
    /\ batch # {} => \A e \in Works : ~Owned(e)
    /\ \A e \in todo : row[e] = "open"
    /\ \A e \in batch \ todo : row[e] = "cutOff"
    /\ journal => \A e \in Works \ excused : row[e] = "open" => Owned(e) \/ e \in todo

\* Told of once: the rows closed by a boot read that is over.
ToldInv ==
    \A e \in Works \ excused :
        told[e] = (IF row[e] = "cutOff" /\ e \notin batch THEN 1 ELSE 0)

\* What ended in time has left no row open.
InTimeInv ==
    \A e \in inTime :
        /\ entry[e] \in Finished
        /\ e \notin excused => row[e] \in {"none", "answered", "failed"}

IInv == TypeOK /\ RowsInv /\ QuitInv /\ ReadInv /\ ToldInv /\ InTimeInv

-----------------------------------------------------------------------------
(* Types *)

LEMMA FinalType ==
    ASSUME NEW e \in Works
    PROVE  Final(e) \in {"answered", "failed", "cutOff"}
BY DEF Final

\* The bounded counters, which need arithmetic.
Counters ==
    /\ born \in 0..MaxWorks
    /\ crashes \in 0..MaxCrashes
    /\ quits \in 0..MaxQuits
    /\ faults \in 0..MaxFaults

LEMMA TypeInit == Init => TypeOK
<1> SUFFICES ASSUME Init PROVE TypeOK
    OBVIOUS
<1>1. Counters
    BY BoundsAssumption DEF Init, Counters
<1>2. app \in BOOLEAN /\ journal \in BOOLEAN /\ accepts \in BOOLEAN
    BY DEF Init
<1>3. /\ row \in [Works -> {"none", "open", "answered", "failed", "cutOff"}]
      /\ entry \in [Works -> {"unborn", "declared", "open", "lost"} \cup Outcomes]
      /\ child \in [Works -> {"none", "running", "done", "broken"}]
      /\ told \in [Works -> Nat]
    BY DEF Init
<1>4. /\ quit = "no"
      /\ copies = {} /\ cancelled = {} /\ todo = {} /\ batch = {} /\ inTime = {}
      /\ excused = {}
    BY DEF Init
<1> QED
    BY <1>1, <1>2, <1>3, <1>4 DEF Counters, TypeOK

\* The boot read.
LEMMA TypeRead ==
    ASSUME TypeOK, Launch \/ TellCutOff \/ \E e \in Works : CloseCutOff(e)
    PROVE  TypeOK'
<1>1. CASE Launch
    BY <1>1, BoundsAssumption
    DEF Launch, Fault, Unfinished, bootRead, TypeOK
<1>2. CASE \E e \in Works : CloseCutOff(e)
    BY <1>2, BoundsAssumption
    DEF CloseCutOff, Fault, ledger, process, TypeOK
<1>3. CASE TellCutOff
    BY <1>3 DEF TellCutOff, ledger, process, bounds, TypeOK
<1> QED BY <1>1, <1>2, <1>3

\* Admission and the end of a piece of work.
LEMMA TypeWork ==
    ASSUME TypeOK,
           \/ RefuseUnrecorded
           \/ \E copy \in BOOLEAN : Declare(copy)
           \/ \E e \in Works : Start(e) \/ ChildEnds(e) \/ Settle(e)
    PROVE  TypeOK'
<1>1. CASE RefuseUnrecorded
    BY <1>1, BoundsAssumption
    DEF RefuseUnrecorded, Fault, ledger, process, bootRead, history, TypeOK
<1>2. CASE \E copy \in BOOLEAN : Declare(copy)
    <2> PICK copy \in BOOLEAN : Declare(copy)
        BY <1>2
    <2>1. born + 1 \in Works /\ born + 1 \in 0..MaxWorks
        BY BoundsAssumption DEF Declare, TypeOK, Works
    <2> QED
        BY <2>1
        DEF Declare, Declared, process, bootRead, history, bounds, TypeOK
<1>3. CASE \E e \in Works : Start(e)
    BY <1>3 DEF Start, process, bootRead, history, bounds, TypeOK
<1>4. CASE \E e \in Works : ChildEnds(e)
    BY <1>4 DEF ChildEnds, process, bootRead, history, bounds, TypeOK
<1>5. CASE \E e \in Works : Settle(e)
    BY <1>5, FinalType, BoundsAssumption
    DEF Settle, ClosedIfFinished, Fault, Outcomes, Finished, process, bootRead, TypeOK
<1> QED BY <1>1, <1>2, <1>3, <1>4, <1>5

\* The quit and the end of the process.
LEMMA TypeQuit ==
    ASSUME TypeOK,
           CoreDisposes \/ CancelRemoteExecutions \/ JoinRemoteExecutions \/ Exits \/ AppDies
    PROVE  TypeOK'
<1>1. CASE CoreDisposes
    <2>1. Counters'
        BY <1>1, BoundsAssumption DEF CoreDisposes, ledger, Counters, TypeOK
    <2> QED
        BY <1>1, <2>1 DEF CoreDisposes, ledger, bootRead, history, Counters, TypeOK
<1>2. CASE CancelRemoteExecutions
    BY <1>2 DEF CancelRemoteExecutions, OpenEntries, bootRead, history, bounds, TypeOK
<1>3. CASE JoinRemoteExecutions
    BY <1>3 DEF JoinRemoteExecutions, Outcomes, bootRead, history, bounds, TypeOK
<1>4. CASE Exits
    BY <1>4 DEF Exits, Ends, TypeOK
<1>5. CASE AppDies
    <2>1. Counters'
        BY <1>5, BoundsAssumption DEF AppDies, Ends, Counters, TypeOK
    <2> QED
        BY <1>5, <2>1 DEF AppDies, Ends, Counters, TypeOK
<1> QED BY <1>1, <1>2, <1>3, <1>4, <1>5

LEMMA TypeStep ==
    ASSUME TypeOK, [Next]_vars
    PROVE  TypeOK'
<1>1. CASE UNCHANGED vars
    BY <1>1 DEF vars, ledger, process, bootRead, history, bounds, TypeOK
<1>2. CASE Launch \/ TellCutOff \/ \E e \in Works : CloseCutOff(e)
    BY <1>2, TypeRead
<1>3. CASE \/ RefuseUnrecorded
            \/ \E copy \in BOOLEAN : Declare(copy)
            \/ \E e \in Works : Start(e) \/ ChildEnds(e) \/ Settle(e)
    BY <1>3, TypeWork
<1>4. CASE CoreDisposes \/ CancelRemoteExecutions \/ JoinRemoteExecutions \/ Exits \/ AppDies
    BY <1>4, TypeQuit
<1> QED BY <1>1, <1>2, <1>3, <1>4 DEF Next

-----------------------------------------------------------------------------
(* The invariant, one action at a time *)

LEMMA InvInit == Init => IInv
<1> SUFFICES ASSUME Init PROVE IInv
    OBVIOUS
<1>1. TypeOK
    BY TypeInit
<1>2. RowsInv /\ QuitInv /\ ReadInv /\ ToldInv /\ InTimeInv
    BY DEF Init, RowsInv, QuitInv, ReadInv, ToldInv, InTimeInv, Owned, Works
<1> QED BY <1>1, <1>2 DEF IInv

LEMMA InvLaunch ==
    ASSUME IInv, Launch
    PROVE  RowsInv' /\ QuitInv' /\ ReadInv' /\ ToldInv' /\ InTimeInv'
<1>1. RowsInv'
    BY DEF IInv, TypeOK, RowsInv, ReadInv, Owned, Works,
           Launch, Fault, Unfinished, bootRead, ledger
<1>2. QuitInv'
    BY DEF IInv, TypeOK, QuitInv, Owned, Works,
           Launch, Fault, Unfinished, bootRead, ledger
<1>3. ReadInv'
    BY DEF IInv, TypeOK, RowsInv, QuitInv, ReadInv, Owned, Works,
           Launch, Fault, Unfinished, bootRead, ledger
<1>4. ToldInv'
    BY DEF IInv, TypeOK, RowsInv, QuitInv, ReadInv, ToldInv, Owned, Works,
           Launch, Fault, Unfinished, bootRead, ledger
<1>5. InTimeInv'
    BY DEF IInv, TypeOK, RowsInv, QuitInv, ReadInv, InTimeInv, Finished, Owned, Works,
           Launch, Fault, Unfinished, bootRead, ledger
<1> QED BY <1>1, <1>2, <1>3, <1>4, <1>5

LEMMA InvCloseCutOff ==
    ASSUME IInv, NEW e \in Works, CloseCutOff(e)
    PROVE  RowsInv' /\ QuitInv' /\ ReadInv' /\ ToldInv' /\ InTimeInv'
<1>a. /\ e \in batch /\ row[e] = "open" /\ ~Owned(e)
      /\ entry' = entry /\ inTime' = inTime /\ copies' = copies /\ born' = born
      /\ excused \subseteq excused'
    BY DEF IInv, TypeOK, ReadInv, CloseCutOff, ledger
<1>b. /\ \A d \in Works \ {e} : row'[d] = row[d]
      /\ row'[e] \in {"open", "cutOff"}
    BY <1>a DEF IInv, TypeOK, CloseCutOff
<1>1. RowsInv'
    <2> SUFFICES ASSUME NEW d \in Works
                 PROVE  /\ d > born => entry[d] = "unborn" /\ row'[d] = "none" /\ d \notin copies
                        /\ d \in copies <=> row'[d] # "none"
                        /\ Owned(d) => row'[d] \in {"none", "open"}
        BY <1>a DEF RowsInv, Owned
    <2>1. CASE d = e
        <3>1. ~(e > born) /\ e \in copies
            BY <1>a DEF IInv, RowsInv
        <3> QED
            BY <1>a, <1>b, <2>1, <3>1
    <2>2. CASE d # e
        <3>1. row'[d] = row[d]
            BY <1>b, <2>2
        <3> QED
            BY <3>1 DEF IInv, RowsInv
    <2> QED BY <2>1, <2>2
<1>2. QuitInv'
    BY DEF IInv, TypeOK, QuitInv, Owned, Works,
           CloseCutOff, Fault, ledger, process
<1>3. ReadInv'
    <2>1. journal' = journal
        BY DEF CloseCutOff, process
    <2>2. \A d \in Works : ~Owned(d)
        BY <1>a DEF IInv, ReadInv
    <2>3. CASE row' = [row EXCEPT ![e] = "cutOff"] /\ todo' = todo \ {e} /\ batch' = batch
               /\ excused' = excused
        <3>1. row'[e] = "cutOff"
            BY <2>3 DEF IInv, TypeOK
        <3> QED
            BY <1>a, <1>b, <2>1, <2>2, <2>3, <3>1 DEF IInv, TypeOK, ReadInv, Owned
    <2>4. CASE todo' = {} /\ batch' = {} /\ excused' = excused \cup batch /\ row' = row
        BY <1>a, <2>1, <2>4 DEF IInv, TypeOK, ReadInv, Owned
    <2> QED
        BY <2>3, <2>4 DEF CloseCutOff
<1>4. ToldInv'
    <2> SUFFICES ASSUME NEW d \in Works \ excused'
                 PROVE  told'[d] = (IF row'[d] = "cutOff" /\ d \notin batch' THEN 1 ELSE 0)
        BY DEF ToldInv
    <2>1. told' = told /\ d \notin excused
        BY DEF CloseCutOff
    <2>2. row'[d] = "cutOff" /\ d \notin batch' <=> row[d] = "cutOff" /\ d \notin batch
        BY DEF IInv, TypeOK, CloseCutOff
    <2> QED
        BY <2>1, <2>2 DEF IInv, ToldInv
<1>5. InTimeInv'
    <2> SUFFICES ASSUME NEW d \in inTime
                 PROVE  /\ entry[d] \in Finished
                        /\ d \notin excused' => row'[d] \in {"none", "answered", "failed"}
        BY <1>a DEF InTimeInv
    <2>1. CASE d = e
        BY <1>a, <2>1 DEF IInv, InTimeInv
    <2>2. CASE d # e
        BY <1>a, <1>b, <2>2 DEF IInv, TypeOK, InTimeInv
    <2> QED BY <2>1, <2>2
<1> QED BY <1>1, <1>2, <1>3, <1>4, <1>5

LEMMA InvTellCutOff ==
    ASSUME IInv, TellCutOff
    PROVE  RowsInv' /\ QuitInv' /\ ReadInv' /\ ToldInv' /\ InTimeInv'
<1>1. RowsInv'
    BY DEF IInv, TypeOK, RowsInv, ReadInv, Owned, Works,
           TellCutOff, ledger, process, bounds
<1>2. QuitInv'
    BY DEF IInv, TypeOK, QuitInv, Owned, Works,
           TellCutOff, ledger, process, bounds
<1>3. ReadInv'
    BY DEF IInv, TypeOK, RowsInv, QuitInv, ReadInv, Owned, Works,
           TellCutOff, ledger, process, bounds
<1>4. ToldInv'
    BY DEF IInv, TypeOK, RowsInv, QuitInv, ReadInv, ToldInv, Owned, Works,
           TellCutOff, ledger, process, bounds
<1>5. InTimeInv'
    BY DEF IInv, TypeOK, RowsInv, QuitInv, ReadInv, InTimeInv, Finished, Owned, Works,
           TellCutOff, ledger, process, bounds
<1> QED BY <1>1, <1>2, <1>3, <1>4, <1>5

LEMMA InvDeclare ==
    ASSUME IInv, NEW copy \in BOOLEAN, Declare(copy)
    PROVE  RowsInv' /\ QuitInv' /\ ReadInv' /\ ToldInv' /\ InTimeInv'
<1> DEFINE n == born + 1
<1>a. n \in Works /\ born \in Nat /\ \A d \in Works : d \in Nat
    BY BoundsAssumption DEF IInv, TypeOK, Declare, Works
<1>b. entry[n] = "unborn" /\ row[n] = "none" /\ n \notin copies /\ n \notin inTime
    BY <1>a DEF IInv, RowsInv, InTimeInv, Finished
<1>c. /\ row' = IF copy THEN [row EXCEPT ![n] = "open"] ELSE row
      /\ copies' = IF copy THEN copies \cup {n} ELSE copies
    BY DEF Declare, Declared
<1>1. RowsInv'
    <2> SUFFICES ASSUME NEW d \in Works
                 PROVE  /\ d > born' => entry'[d] = "unborn" /\ row'[d] = "none" /\ d \notin copies'
                        /\ d \in copies' <=> row'[d] # "none"
                        /\ Owned(d)' => row'[d] \in {"none", "open"}
        BY DEF RowsInv
    <2>1. entry' = [entry EXCEPT ![n] = "declared"] /\ born' = n
        BY DEF Declare
    <2>2. CASE d = n
        BY <1>a, <1>b, <1>c, <2>1, <2>2 DEF IInv, TypeOK, Owned
    <2>3. CASE d # n
        <3>1. entry'[d] = entry[d] /\ row'[d] = row[d] /\ (d \in copies' <=> d \in copies) /\ (Owned(d)' <=> Owned(d))
            BY <1>c, <2>1, <2>3 DEF IInv, TypeOK, Owned
        <3>2. d > born' => d > born
            BY <1>a, <2>1
        <3> QED
            BY <3>1, <3>2 DEF IInv, RowsInv
    <2> QED BY <2>2, <2>3
<1>2. QuitInv'
    BY DEF IInv, TypeOK, QuitInv, Owned, Works,
           Declare, Declared, Gate, Quiet, process, bootRead, history, bounds
<1>3. ReadInv'
    BY DEF IInv, TypeOK, RowsInv, QuitInv, ReadInv, Owned, Works,
           Declare, Declared, Gate, Quiet, process, bootRead, history, bounds
<1>4. ToldInv'
    <2> SUFFICES ASSUME NEW d \in Works \ excused
                 PROVE  told'[d] = (IF row'[d] = "cutOff" /\ d \notin batch' THEN 1 ELSE 0)
        BY DEF ToldInv, Declare, history
    <2>1. told' = told /\ batch' = batch
        BY DEF Declare, history, bootRead
    <2>2. row'[d] = "cutOff" <=> row[d] = "cutOff"
        BY <1>b, <1>c DEF IInv, TypeOK
    <2> QED
        BY <2>1, <2>2 DEF IInv, ToldInv
<1>5. InTimeInv'
    <2> SUFFICES ASSUME NEW d \in inTime
                 PROVE  /\ entry'[d] \in Finished
                        /\ d \notin excused => row'[d] \in {"none", "answered", "failed"}
        BY DEF InTimeInv, Declare, history
    <2>1. d # n /\ d \in Works
        BY <1>b DEF IInv, TypeOK
    <2>2. entry'[d] = entry[d] /\ row'[d] = row[d]
        BY <1>c, <2>1 DEF IInv, TypeOK, Declare
    <2> QED
        BY <2>2 DEF IInv, InTimeInv
<1> QED BY <1>1, <1>2, <1>3, <1>4, <1>5

LEMMA InvStart ==
    ASSUME IInv, NEW e \in Works, Start(e)
    PROVE  RowsInv' /\ QuitInv' /\ ReadInv' /\ ToldInv' /\ InTimeInv'
<1>1. RowsInv'
    BY DEF IInv, TypeOK, RowsInv, ReadInv, Owned, Works,
           Start, process, bootRead, history, bounds
<1>2. QuitInv'
    BY DEF IInv, TypeOK, QuitInv, Owned, Works,
           Start, process, bootRead, history, bounds
<1>3. ReadInv'
    BY DEF IInv, TypeOK, RowsInv, QuitInv, ReadInv, Owned, Works,
           Start, process, bootRead, history, bounds
<1>4. ToldInv'
    BY DEF IInv, TypeOK, RowsInv, QuitInv, ReadInv, ToldInv, Owned, Works,
           Start, process, bootRead, history, bounds
<1>5. InTimeInv'
    BY DEF IInv, TypeOK, RowsInv, QuitInv, ReadInv, InTimeInv, Finished, Owned, Works,
           Start, process, bootRead, history, bounds
<1> QED BY <1>1, <1>2, <1>3, <1>4, <1>5

LEMMA InvSettle ==
    ASSUME IInv, NEW e \in Works, Settle(e)
    PROVE  RowsInv' /\ QuitInv' /\ ReadInv' /\ ToldInv' /\ InTimeInv'
<1>a. entry[e] = "open" /\ row[e] \in {"none", "open"} /\ e \notin inTime /\ batch = {}
    BY DEF IInv, RowsInv, InTimeInv, Owned, Finished, Settle, Quiet
<1>b. \A d \in Works \ {e} : row'[d] = row[d] /\ entry'[d] = entry[d]
    BY DEF IInv, TypeOK, Settle, ClosedIfFinished
<1>1. RowsInv'
    BY DEF IInv, TypeOK, RowsInv, ReadInv, Owned, Works,
           Settle, ClosedIfFinished, Quiet, Fault, Outcomes, Finished, process, bootRead, Final
<1>2. QuitInv'
    BY DEF IInv, TypeOK, QuitInv, Owned, Works,
           Settle, ClosedIfFinished, Quiet, Fault, Outcomes, Finished, process, bootRead, Final
<1>3. ReadInv'
    BY DEF IInv, TypeOK, RowsInv, QuitInv, ReadInv, Owned, Works,
           Settle, ClosedIfFinished, Quiet, Fault, Outcomes, Finished, process, bootRead, Final
<1>4. ToldInv'
    <2> SUFFICES ASSUME NEW d \in Works \ excused'
                 PROVE  told'[d] = (IF row'[d] = "cutOff" /\ d \notin batch' THEN 1 ELSE 0)
        BY DEF ToldInv
    <2>1. told' = told /\ batch' = batch /\ d \notin excused
        BY DEF Settle, bootRead
    <2>2. row'[e] # "cutOff"
        BY <1>a DEF IInv, TypeOK, Settle, ClosedIfFinished, Finished
    <2> QED
        BY <1>a, <1>b, <2>1, <2>2 DEF IInv, ToldInv
<1>5. InTimeInv'
    <2> SUFFICES ASSUME NEW d \in inTime'
                 PROVE  /\ entry'[d] \in Finished
                        /\ d \notin excused' => row'[d] \in {"none", "answered", "failed"}
        BY DEF InTimeInv
    <2>1. CASE d # e
        <3>1. d \in inTime /\ d \in Works
            BY <2>1 DEF IInv, TypeOK, Settle
        <3>2. d \notin excused' => d \notin excused
            BY DEF Settle
        <3> QED
            BY <1>b, <2>1, <3>1, <3>2 DEF IInv, InTimeInv
    <2>2. CASE d = e
        <3>1. journal /\ Final(e) \in Finished
            BY <1>a, <2>2 DEF Settle
        <3>2. entry'[e] = Final(e)
            BY DEF IInv, TypeOK, Settle
        <3>3. e \notin excused' => ClosedIfFinished(e, Final(e))
            BY DEF Settle
        <3>4. e \notin copies => row[e] = "none"
            BY DEF IInv, RowsInv
        <3>5. e \notin excused' => row'[e] \in Finished \/ row'[e] = "none"
            BY <3>1, <3>3, <3>4 DEF IInv, TypeOK, ClosedIfFinished
        <3> QED
            BY <2>2, <3>1, <3>2, <3>5 DEF Finished
    <2> QED BY <2>1, <2>2
<1> QED BY <1>1, <1>2, <1>3, <1>4, <1>5

LEMMA InvCoreDisposes ==
    ASSUME IInv, CoreDisposes
    PROVE  RowsInv' /\ QuitInv' /\ ReadInv' /\ ToldInv' /\ InTimeInv'
<1>1. RowsInv'
    BY DEF IInv, TypeOK, RowsInv, ReadInv, Owned, Works,
           CoreDisposes, Quiet, ledger, bootRead, history
<1>2. QuitInv'
    BY DEF IInv, TypeOK, QuitInv, Owned, Works,
           CoreDisposes, Quiet, ledger, bootRead, history
<1>3. ReadInv'
    BY DEF IInv, TypeOK, RowsInv, QuitInv, ReadInv, Owned, Works,
           CoreDisposes, Quiet, ledger, bootRead, history
<1>4. ToldInv'
    BY DEF IInv, TypeOK, RowsInv, QuitInv, ReadInv, ToldInv, Owned, Works,
           CoreDisposes, Quiet, ledger, bootRead, history
<1>5. InTimeInv'
    BY DEF IInv, TypeOK, RowsInv, QuitInv, ReadInv, InTimeInv, Finished, Owned, Works,
           CoreDisposes, Quiet, ledger, bootRead, history
<1> QED BY <1>1, <1>2, <1>3, <1>4, <1>5

LEMMA InvCancel ==
    ASSUME IInv, CancelRemoteExecutions
    PROVE  RowsInv' /\ QuitInv' /\ ReadInv' /\ ToldInv' /\ InTimeInv'
<1>1. RowsInv'
    BY DEF IInv, TypeOK, RowsInv, ReadInv, Owned, Works,
           CancelRemoteExecutions, OpenEntries, Quiet, bootRead, history, bounds
<1>2. QuitInv'
    BY DEF IInv, TypeOK, QuitInv, Owned, Works,
           CancelRemoteExecutions, OpenEntries, Quiet, bootRead, history, bounds
<1>3. ReadInv'
    BY DEF IInv, TypeOK, RowsInv, QuitInv, ReadInv, Owned, Works,
           CancelRemoteExecutions, OpenEntries, Quiet, bootRead, history, bounds
<1>4. ToldInv'
    BY DEF IInv, TypeOK, RowsInv, QuitInv, ReadInv, ToldInv, Owned, Works,
           CancelRemoteExecutions, OpenEntries, Quiet, bootRead, history, bounds
<1>5. InTimeInv'
    BY DEF IInv, TypeOK, RowsInv, QuitInv, ReadInv, InTimeInv, Finished, Owned, Works,
           CancelRemoteExecutions, OpenEntries, Quiet, bootRead, history, bounds
<1> QED BY <1>1, <1>2, <1>3, <1>4, <1>5

LEMMA InvJoin ==
    ASSUME IInv, JoinRemoteExecutions
    PROVE  RowsInv' /\ QuitInv' /\ ReadInv' /\ ToldInv' /\ InTimeInv'
<1>1. RowsInv'
    BY DEF IInv, TypeOK, RowsInv, ReadInv, Owned, Works,
           JoinRemoteExecutions, Quiet, bootRead, history, bounds
<1>2. QuitInv'
    BY DEF IInv, TypeOK, QuitInv, Owned, Works,
           JoinRemoteExecutions, Quiet, bootRead, history, bounds
<1>3. ReadInv'
    BY DEF IInv, TypeOK, RowsInv, QuitInv, ReadInv, Owned, Works,
           JoinRemoteExecutions, Quiet, bootRead, history, bounds
<1>4. ToldInv'
    BY DEF IInv, TypeOK, RowsInv, QuitInv, ReadInv, ToldInv, Owned, Works,
           JoinRemoteExecutions, Quiet, bootRead, history, bounds
<1>5. InTimeInv'
    BY DEF IInv, TypeOK, RowsInv, QuitInv, ReadInv, InTimeInv, Finished, Owned, Works,
           JoinRemoteExecutions, Quiet, bootRead, history, bounds
<1> QED BY <1>1, <1>2, <1>3, <1>4, <1>5

LEMMA InvExits ==
    ASSUME IInv, Exits
    PROVE  RowsInv' /\ QuitInv' /\ ReadInv' /\ ToldInv' /\ InTimeInv'
<1>1. RowsInv'
    BY DEF IInv, TypeOK, RowsInv, ReadInv, Owned, Works,
           Exits, Ends, Quiet
<1>2. QuitInv'
    BY DEF IInv, TypeOK, QuitInv, Owned, Works,
           Exits, Ends, Quiet
<1>3. ReadInv'
    BY DEF IInv, TypeOK, RowsInv, QuitInv, ReadInv, Owned, Works,
           Exits, Ends, Quiet
<1>4. ToldInv'
    BY DEF IInv, TypeOK, RowsInv, QuitInv, ReadInv, ToldInv, Owned, Works,
           Exits, Ends, Quiet
<1>5. InTimeInv'
    BY DEF IInv, TypeOK, RowsInv, QuitInv, ReadInv, InTimeInv, Finished, Owned, Works,
           Exits, Ends, Quiet
<1> QED BY <1>1, <1>2, <1>3, <1>4, <1>5

LEMMA InvDies ==
    ASSUME IInv, AppDies
    PROVE  RowsInv' /\ QuitInv' /\ ReadInv' /\ ToldInv' /\ InTimeInv'
<1>1. RowsInv'
    BY DEF IInv, TypeOK, RowsInv, ReadInv, Owned, Works,
           AppDies, Ends
<1>2. QuitInv'
    BY DEF IInv, TypeOK, QuitInv, Owned, Works,
           AppDies, Ends
<1>3. ReadInv'
    BY DEF IInv, TypeOK, RowsInv, QuitInv, ReadInv, Owned, Works,
           AppDies, Ends
<1>4. ToldInv'
    BY DEF IInv, TypeOK, RowsInv, QuitInv, ReadInv, ToldInv, Owned, Works,
           AppDies, Ends
<1>5. InTimeInv'
    BY DEF IInv, TypeOK, RowsInv, QuitInv, ReadInv, InTimeInv, Finished, Owned, Works,
           AppDies, Ends
<1> QED BY <1>1, <1>2, <1>3, <1>4, <1>5

\* A child that ends changes nothing the invariant speaks of.
LEMMA InvChildEnds ==
    ASSUME IInv, NEW e \in Works, ChildEnds(e)
    PROVE  RowsInv' /\ QuitInv' /\ ReadInv' /\ ToldInv' /\ InTimeInv'
<1>1. UNCHANGED <<row, entry, copies, born, cancelled, process, bootRead, history>>
    BY DEF ChildEnds
<1> QED
    BY <1>1 DEF IInv, RowsInv, QuitInv, ReadInv, ToldInv, InTimeInv, Owned, process,
                bootRead, history

\* Nothing happens, or a copy is refused for want of its row.
LEMMA InvStutter ==
    ASSUME IInv, UNCHANGED vars \/ RefuseUnrecorded
    PROVE  RowsInv' /\ QuitInv' /\ ReadInv' /\ ToldInv' /\ InTimeInv'
<1>1. UNCHANGED <<row, ledger, process, bootRead, history>>
    BY DEF vars, RefuseUnrecorded
<1> QED
    BY <1>1 DEF IInv, RowsInv, QuitInv, ReadInv, ToldInv, InTimeInv, Owned, ledger,
                process, bootRead, history

LEMMA InvStep ==
    ASSUME IInv, [Next]_vars
    PROVE  IInv'
<1>1. TypeOK'
    BY TypeStep DEF IInv
<1>2. CASE UNCHANGED vars \/ RefuseUnrecorded
    BY <1>1, <1>2, InvStutter DEF IInv
<1>3. CASE Launch \/ TellCutOff \/ \E e \in Works : CloseCutOff(e)
    BY <1>1, <1>3, InvLaunch, InvCloseCutOff, InvTellCutOff DEF IInv
<1>4. CASE \E copy \in BOOLEAN : Declare(copy)
    BY <1>1, <1>4, InvDeclare DEF IInv
<1>5. CASE \E e \in Works : Start(e) \/ ChildEnds(e) \/ Settle(e)
    BY <1>1, <1>5, InvStart, InvChildEnds, InvSettle DEF IInv
<1>6. CASE CoreDisposes \/ CancelRemoteExecutions \/ JoinRemoteExecutions
    BY <1>1, <1>6, InvCoreDisposes, InvCancel, InvJoin DEF IInv
<1>7. CASE Exits \/ AppDies
    BY <1>1, <1>7, InvExits, InvDies DEF IInv
<1> QED
    BY <1>2, <1>3, <1>4, <1>5, <1>6, <1>7 DEF Next

-----------------------------------------------------------------------------
(* The theorems *)

(* Every reachable state of the ledger of remote work has its type. *)
THEOREM TypeCorrect == Spec => []TypeOK
BY TypeInit, TypeStep, PTL DEF Spec

(* The inductive invariant holds in every reachable state. *)
THEOREM LedgerInvariant == Spec => []IInv
BY InvInit, InvStep, PTL DEF Spec

(* No copy onto another machine ever has a child without its durable row. *)
THEOREM CopyRecordedAlways == Spec => []CopyRecorded
<1>1. IInv => CopyRecorded
    BY DEF IInv, TypeOK, RowsInv, CopyRecorded
<1> QED
    BY <1>1, LedgerInvariant, PTL

(* Once the quit has joined, the ledger owns no work, and none is begun. *)
THEOREM NoneOwnedAlways == Spec => []NoneOwned
<1>1. IInv => NoneOwned
    BY DEF IInv, QuitInv, Owned, NoneOwned
<1> QED
    BY <1>1, LedgerInvariant, PTL

(* After the boot read a copy cut off in an earlier run has been told of exactly once,
   and nothing else has. *)
THEOREM CutOffToldAlways == Spec => []CutOffTold
<1>1. ASSUME IInv, app, batch = {}, NEW e \in Works \ excused
      PROVE  /\ row[e] = "open" => entry[e] \in {"declared", "open"} \/ ~journal
             /\ told[e] = (IF row[e] = "cutOff" THEN 1 ELSE 0)
    BY <1>1 DEF IInv, TypeOK, ReadInv, ToldInv, Owned
<1>2. IInv => CutOffTold
    BY <1>1 DEF CutOffTold
<1> QED
    BY <1>2, LedgerInvariant, PTL

(* Work that ended while the manifest was installed is never told of as cut off. *)
THEOREM FinishedNotToldAlways == Spec => []FinishedNotTold
<1>1. ASSUME IInv, NEW e \in inTime \ excused
      PROVE  told[e] = 0
    BY <1>1 DEF IInv, TypeOK, ToldInv, InTimeInv
<1>2. IInv => FinishedNotTold
    BY <1>1 DEF FinishedNotTold
<1> QED
    BY <1>2, LedgerInvariant, PTL

=============================================================================
