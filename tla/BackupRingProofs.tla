-------------------------- MODULE BackupRingProofs --------------------------
(***************************************************************************)
(* Theorems about a capture of the manifest: with any number of captures,  *)
(* failing calls, deaths, power cuts and damaged bodies, and any length of *)
(* the ring, no body is written over, the last proof survives, and the     *)
(* ring keeps its promise to a reader.                                     *)
(***************************************************************************)
EXTENDS BackupRing, FiniteSetTheorems, NaturalsInduction, WellFoundedInduction, TLAPS

\* What is on disk, or may come back, and what the numbers say of it.
BoundInv ==
    /\ \A g \in Generations : body[g] \in bodyCut[g]
    /\ \A g \in Generations : (\E b \in bodyCut[g] : b # NoBody) => g <= begun
    /\ at # "idle" =>
          /\ taking \in [number : Captures, generation : Generations]
          /\ taking.number = begun
          /\ taking.generation <= begun

\* The bodies in a directory, whatever a power cut brings back, are in the order of their
\* captures, and no name but the next may come back above the newest.
OrderInv ==
    /\ \A g, h \in Generations : \A b \in bodyCut[g], c \in bodyCut[h] :
          (g < h /\ b \in Captures /\ c \in Captures) => b < c
    /\ \A h \in Generations : (\E b \in bodyCut[h] : b # NoBody) =>
          h = 1 \/ \E g \in Generations : g + 1 >= h /\ body[g] # NoBody
    /\ \A g \in Generations : \A b \in bodyCut[g] : b \in Captures => b <= begun
    /\ acked <= begun

\* What was there when a capture returned is there to stay: its name is settled, and each
\* record that may come back has what the record keeps of it.
SettledInv ==
    /\ record \in recordCut
    /\ \A g \in Generations :
          (body[g] \in Captures /\ body[g] <= acked) => bodyCut[g] = {body[g]}
    /\ \A old \in recordCut : \A c \in record : c[2] <= acked => c \in old

BodyPlaces == {"body", "bodyStaged", "bodyNamed"}
RecordPlaces == {"record", "recordStaged", "recordNamed"}

\* What the capture in progress knows, place by place.
CaptureInv ==
    at # "idle" =>
        LET g == taking.generation IN
        /\ acked < begun
        /\ \A h \in Generations : h > g => bodyCut[h] = {NoBody}
        /\ at # "prune" => g = 1 \/ body[g - 1] # NoBody
        /\ at \in {"body", "bodyStaged"} =>
              /\ body[g] = NoBody
              /\ \A h \in Generations : \A b \in bodyCut[h] : b \in Captures => b < begun
        /\ at \notin {"body", "bodyStaged"} => body[g] = begun
        /\ at \in RecordPlaces => \A h \in Generations : bodyCut[h] = {body[h]}
        /\ at \in BodyPlaces \cup {"record", "recordStaged"} => before = record
        /\ at \in {"record", "recordStaged", "prune"} => recordCut = {record}
        /\ at = "recordStaged" =>
              staged.capsules = {Capsule} \cup Carried({c \in before : c[1] # g})
        /\ at \in {"recordNamed", "prune"} => record = staged.capsules /\ Capsule \in record

\* While the prune is on, the newest body beside the capture's own stays.
PruneInv ==
    at = "prune" =>
        /\ \A g \in Generations : body[g] # NoBody => bodyCut[g] = {body[g]}
        /\ \A g \in doomed : g < taking.generation
        /\ (\E c \in Verified(record) : c # Capsule) =>
              \E c \in Verified(record) : c # Capsule /\ c[1] \notin doomed

\* Whatever record comes back names a body at least as new as the last that returned, which
\* comes back as well, and the capture in progress has no hand on it.
KeptInv ==
    (rots = 0 /\ acked # 0) =>
        \A old \in recordCut : \E c \in old :
            /\ c[2] >= acked
            /\ bodyCut[c[1]] = {c[2]}
            /\ at \notin {"idle", "prune"} => c[1] # taking.generation

RingInv == TypeOK /\ BoundInv /\ OrderInv /\ SettledInv /\ CaptureInv /\ PruneInv /\ KeptInv

-----------------------------------------------------------------------------
(* Lemmas *)

\* A property of a natural number holds of a least one.
LEMMA LeastNat ==
    ASSUME NEW S, S \subseteq Nat, S # {}
    PROVE  \E n \in S : \A m \in S : n <= m
<1>1. PICK n \in S : \A m \in S : <<m, n>> \notin OpToRel(<, Nat)
    BY WFMin, NatLessThanWellFounded, Zenon
<1>2. \A m \in S : ~(m < n)
    BY <1>1, Zenon DEF OpToRel
<1>3. n \in Nat /\ \A m \in S : m \in Nat
    BY <1>1
<1>4. \A m \in S : n <= m
    BY <1>2, <1>3
<1> QED BY <1>4

\* A set of generations has a newest.
LEMMA NewestOf ==
    ASSUME NEW S, S \subseteq Generations, S # {}
    PROVE  \E n \in S : \A m \in S : m <= n
<1>1. MaxCaptures \in Nat
    BY BoundsAssumption
<1> DEFINE U == {u \in Nat : \A m \in S : m <= u}
<1>2. U \subseteq Nat /\ MaxCaptures \in U
    BY <1>1 DEF Generations
<1>3. PICK n \in U : \A m \in U : n <= m
    BY <1>2, LeastNat
<1>4. n \in S
    <2> SUFFICES ASSUME n \notin S
                 PROVE  FALSE
        OBVIOUS
    <2>1. PICK s \in S : TRUE
        OBVIOUS
    <2>2. n \in Nat /\ n # 0 /\ \A m \in S : m \in Nat /\ m < n
        BY <1>1, <1>3, <2>1 DEF Generations
    <2>3. n - 1 \in U
        BY <2>2
    <2> QED BY <1>3, <2>2, <2>3
<1> QED BY <1>3, <1>4

LEMMA CapsuleFacts ==
    /\ MaxCaptures \in Nat /\ IsFiniteSet(Capsules)
    /\ \A c \in Capsules : /\ c = <<c[1], c[2]>> /\ c[1] \in Generations /\ c[2] \in Captures
                           /\ c[1] \in Nat /\ c[2] \in Nat /\ c[1] # 0 /\ c[2] # 0
<1>1. MaxCaptures \in Nat
    BY BoundsAssumption
<1>2. IsFiniteSet(Generations) /\ IsFiniteSet(Captures)
    BY <1>1, FS_Interval DEF Generations, Captures
<1>3. IsFiniteSet(Capsules)
    BY <1>2, FS_Product DEF Capsules
<1> QED BY <1>1, <1>3 DEF Capsules, Generations, Captures

\* Newest of a set of capsules picks the one of the newest generation, if any.
LEMMA NewestHasTop ==
    ASSUME NEW C \in SUBSET Capsules, C # {}, NEW k \in Nat, k # 0
    PROVE  \E t \in Newest(C, k) : t \in C /\ \A d \in C : d[1] <= t[1]
<1> DEFINE S == {c[1] : c \in C}
<1>1. S \subseteq Generations /\ S # {}
    BY CapsuleFacts
<1>2. PICK n \in S : \A m \in S : m <= n
    BY <1>1, NewestOf
<1>3. PICK t \in C : t[1] = n
    BY <1>2
<1>4. \A d \in C : d[1] <= t[1] /\ d[1] \in Nat
    BY <1>2, <1>3, CapsuleFacts
<1>5. {d \in C : d[1] > t[1]} = {}
    BY <1>3, <1>4, CapsuleFacts
<1>6. Cardinality({d \in C : d[1] > t[1]}) < k
    BY <1>5, FS_EmptySet
<1>7. t \in Newest(C, k)
    BY <1>3, <1>6 DEF Newest
<1> QED BY <1>3, <1>4, <1>7

LEMMA NewestIsTop ==
    ASSUME NEW C \in SUBSET Capsules, NEW c \in Newest(C, 1)
    PROVE  c \in C /\ \A d \in C : d[1] <= c[1]
<1> DEFINE S == {d \in C : d[1] > c[1]}
<1>1. c \in C /\ Cardinality(S) < 1
    BY DEF Newest
<1>2. IsFiniteSet(S)
    BY CapsuleFacts, FS_Subset
<1>3. Cardinality(S) \in Nat
    BY <1>2, FS_CardinalityType
<1>4. S = {}
    BY <1>1, <1>2, <1>3, FS_EmptySet
<1> QED BY <1>1, <1>4, CapsuleFacts

LEMMA NewestSubset ==
    ASSUME NEW C, NEW k
    PROVE  Newest(C, k) \subseteq C
BY DEF Newest

LEMMA TypeFacts ==
    ASSUME TypeOK
    PROVE  /\ MaxCaptures \in Nat /\ MaxFaults \in Nat /\ MaxDeaths \in Nat /\ MaxRots \in Nat
           /\ Keep \in Nat /\ Keep - 1 \in Nat /\ Keep - 1 # 0
           /\ begun \in Nat /\ acked \in Nat /\ faults \in Nat /\ deaths \in Nat /\ rots \in Nat
           /\ NoBody = 0 /\ Torn \notin Captures /\ NoBody \notin Captures
           /\ Generations = 1..MaxCaptures /\ Captures = 1..MaxCaptures
           /\ \A g \in Generations : body[g] \in Bodies /\ bodyCut[g] \subseteq Bodies /\ g \in Nat
           /\ \A b \in Bodies : b \in Nat
           /\ Nothing.number = 0
           /\ Nothing \notin [number : Captures, generation : Generations]
BY BoundsAssumption, KeepAssumption
DEF TypeOK, Bodies, Captures, Generations, NoBody, Torn, Nothing

\* The number of the next body comes off the directory: it is free, and none is above it.
LEMMA NextIsFree ==
    ASSUME TypeOK, BoundInv, begun < MaxCaptures
    PROVE  /\ NextGeneration \in Generations /\ NextGeneration <= begun + 1
           /\ \A g \in Generations : body[g] # NoBody => g < NextGeneration
           /\ NextGeneration = 1 \/ body[NextGeneration - 1] # NoBody
<1>1. /\ MaxCaptures \in Nat /\ begun \in Nat /\ Generations = 1..MaxCaptures
      /\ \A g \in Generations : body[g] # NoBody => g <= begun
    BY TypeFacts DEF BoundInv
<1> DEFINE S == {n \in 1..(MaxCaptures + 1) : \A g \in Generations : body[g] # NoBody => g < n}
           P(n) == /\ \A g \in Generations : body[g] # NoBody => g < n
                   /\ n = 1 \/ body[n - 1] # NoBody
<1>2. S \subseteq Nat /\ MaxCaptures + 1 \in S
    BY <1>1
<1>3. PICK n \in S : \A m \in S : n <= m
    <2> HIDE DEF S
    <2> QED BY <1>2, LeastNat
<1>4. n \in 1..(MaxCaptures + 1) /\ P(n)
    <2>1. CASE n = 1
        BY <1>1, <2>1
    <2>2. CASE n # 1
        <3>1. n - 1 \in 1..(MaxCaptures + 1) /\ n - 1 \notin S
            BY <1>1, <1>3, <2>2
        <3>2. PICK g \in Generations : body[g] # NoBody /\ ~(g < n - 1)
            BY <3>1
        <3>3. g = n - 1
            BY <1>1, <1>3, <3>2
        <3> QED BY <3>2, <3>3
    <2> QED BY <2>1, <2>2
<1>5. NextGeneration \in 1..(MaxCaptures + 1) /\ P(NextGeneration)
    BY <1>4 DEF NextGeneration
<1>6. NextGeneration <= begun + 1 /\ NextGeneration \in Generations
    <2> DEFINE m == NextGeneration
    <2>1. CASE m = 1
        BY <1>1, <2>1
    <2>2. CASE m # 1
        <3>1. m - 1 \in Generations /\ body[m - 1] # NoBody
            BY <1>1, <1>5, <2>2
        <3> HIDE DEF m
        <3>2. m - 1 <= begun
            BY <1>1, <3>1
        <3> QED BY <1>1, <1>5, <3>1, <3>2 DEF m
    <2> QED BY <2>1, <2>2
<1> QED BY <1>5, <1>6

-----------------------------------------------------------------------------
(* The types *)

\* Names that nobody knows to be given are within the captures begun.
DiskTyped ==
    /\ body \in [Generations -> Bodies]
    /\ record \subseteq Capsules
    /\ bodyCut \in [Generations -> SUBSET Bodies]
    /\ recordCut \subseteq SUBSET Capsules
    /\ \A g \in Generations : body[g] \in bodyCut[g]
    /\ \A g \in Generations : (\E b \in bodyCut[g] : b # NoBody) => g <= begun

LEMMA NameBodyTyped ==
    ASSUME DiskTyped, NEW g \in Generations, NEW b \in Bodies, b = NoBody \/ g <= begun,
           NameBody(g, b), begun' = begun, UNCHANGED <<record, recordCut>>
    PROVE  DiskTyped'
<1>1. /\ body' \in [Generations -> Bodies] /\ bodyCut' \in [Generations -> SUBSET Bodies]
      /\ body'[g] = b /\ bodyCut'[g] = bodyCut[g] \cup {b}
      /\ \A h \in Generations : h # g => body'[h] = body[h] /\ bodyCut'[h] = bodyCut[h]
    BY DEF DiskTyped, NameBody, Synced
<1> QED BY <1>1 DEF DiskTyped

LEMMA FlushedTyped ==
    ASSUME DiskTyped, Flushed, begun' = begun
    PROVE  DiskTyped'
<1>1. /\ UNCHANGED <<body, record>> /\ bodyCut' = [g \in Generations |-> {body[g]}]
      /\ recordCut' = {record}
    BY DEF Flushed, Synced
<1>2. \A g \in Generations : body[g] \in Bodies
    BY DEF DiskTyped
<1> QED BY <1>1, <1>2 DEF DiskTyped

\* A capture that is over leaves nothing to be typed but the disk.
LEMMA OverTyped ==
    ASSUME TypeOK, Over, DiskTyped', begun' = begun, acked' \in 0..MaxCaptures,
           faults' \in 0..MaxFaults, deaths' \in 0..MaxDeaths, rots' = rots
    PROVE  TypeOK' /\ BoundInv'
<1>1. /\ at' = "idle" /\ taking' = Nothing /\ before' = {} /\ staged' = NotStaged
      /\ doomed' = {}
    BY DEF Over
<1>2. NotStaged \in [good : BOOLEAN, capsules : SUBSET Capsules]
    BY DEF NotStaged
<1>3. TypeOK'
    BY <1>1, <1>2 DEF TypeOK, DiskTyped, Places
<1>4. BoundInv'
    BY <1>1 DEF BoundInv, DiskTyped
<1> QED BY <1>3, <1>4

\* The capture in progress goes on, and its number and its generation are what they were.
LEMMA WorkTyped ==
    ASSUME TypeOK, BoundInv, DiskTyped', at # "idle", at' \in Places, before' \subseteq Capsules,
           staged' \in [good : BOOLEAN, capsules : SUBSET Capsules],
           doomed' \subseteq Generations, faults' \in 0..MaxFaults,
           UNCHANGED <<taking, begun, acked, deaths, rots>>
    PROVE  TypeOK' /\ BoundInv'
<1>1. TypeOK'
    BY DEF TypeOK, DiskTyped
<1>2. BoundInv'
    BY DEF BoundInv, DiskTyped
<1> QED BY <1>1, <1>2

LEMMA StageTyped ==
    ASSUME TypeOK, NEW C \in SUBSET Capsules, Stage(C)
    PROVE  /\ staged' \in [good : BOOLEAN, capsules : SUBSET Capsules]
           /\ staged'.capsules = C /\ faults' \in 0..MaxFaults
<1>1. faults' \in 0..MaxFaults
    BY TypeFacts DEF Stage, Fault, TypeOK
<1>2. \A good \in BOOLEAN :
          /\ [good |-> good, capsules |-> C] \in [good : BOOLEAN, capsules : SUBSET Capsules]
          /\ [good |-> good, capsules |-> C].capsules = C
    OBVIOUS
<1> QED BY <1>1, <1>2 DEF Stage

LEMMA TypeStep ==
    ASSUME TypeOK, BoundInv, [Next]_vars
    PROVE  TypeOK' /\ BoundInv'
<1>1. DiskTyped
    BY DEF TypeOK, BoundInv, DiskTyped
<1>2. ASSUME UNCHANGED disk, begun' \in Nat, begun' >= begun
      PROVE  DiskTyped'
    <2>1. UNCHANGED <<body, record, bodyCut, recordCut>>
        BY <1>2 DEF disk
    <2>2. \A g \in Generations : g <= begun => g <= begun'
        BY <1>2, TypeFacts
    <2> QED BY <1>1, <2>1, <2>2 DEF DiskTyped
<1>3. /\ faults \in 0..MaxFaults /\ deaths \in 0..MaxDeaths /\ acked \in 0..MaxCaptures
      /\ (Fault => faults' \in 0..MaxFaults) /\ (Death => deaths' \in 0..MaxDeaths)
      /\ before \subseteq Capsules /\ staged \in [good : BOOLEAN, capsules : SUBSET Capsules]
      /\ staged.capsules \subseteq Capsules /\ staged.good \in BOOLEAN
      /\ doomed \subseteq Generations
      /\ begun \in Nat /\ begun >= begun
    BY TypeFacts DEF TypeOK, Fault, Death
<1>4. at # "idle" =>
          /\ taking.number \in Captures /\ taking.generation \in Generations
          /\ taking.generation <= begun /\ taking.number = begun /\ Capsule \in Capsules
          /\ taking.number \in Bodies /\ Torn \in Bodies /\ NoBody \in Bodies
    BY DEF BoundInv, Capsule, Capsules, Bodies
<1>5. CASE Begin
    <2>1. /\ at = "idle" /\ begun < MaxCaptures /\ begun' = begun + 1 /\ at' = "body"
          /\ before' \subseteq Capsules
          /\ UNCHANGED <<disk, staged, doomed, acked, faults, deaths, rots>>
        BY <1>3, <1>5 DEF Begin, Misread, TypeOK
    <2>2. PICK g \in {NextGeneration} \cup Misread({1}) :
              taking' = [number |-> begun', generation |-> g]
        BY <1>5 DEF Begin
    <2>3. begun' \in Captures /\ begun' \in Nat /\ begun' >= begun
        BY <2>1, TypeFacts
    <2>4. g \in Generations /\ g <= begun'
        <3>1. CASE g = NextGeneration
            BY <2>1, <3>1, NextIsFree
        <3>2. CASE g = 1
            BY <2>1, <2>3, <3>2, TypeFacts
        <3> QED BY <2>2, <3>1, <3>2 DEF Misread
    <2>5. /\ taking' \in [number : Captures, generation : Generations]
          /\ taking'.number = begun' /\ taking'.generation <= begun'
        BY <2>2, <2>3, <2>4
    <2>6. DiskTyped'
        BY <1>2, <2>1, <2>3
    <2>7. BoundInv'
        BY <2>5, <2>6 DEF BoundInv, DiskTyped
    <2> QED BY <2>1, <2>3, <2>5, <2>6, <2>7 DEF TypeOK, DiskTyped, Places, Captures
<1>6. CASE StageBody
    <2>1. {} \in SUBSET Capsules /\ DiskTyped'
        BY <1>2, <1>3, <1>6 DEF StageBody
    <2> QED BY <1>3, <1>6, <2>1, StageTyped, WorkTyped DEF StageBody, Places
<1>7. CASE PublishBody
    <2>1. DiskTyped'
        BY <1>1, <1>4, <1>7, NameBodyTyped DEF PublishBody
    <2> QED BY <1>3, <1>7, <2>1, WorkTyped DEF PublishBody, Places
<1>8. CASE FlushBody
    <2>1. DiskTyped'
        BY <1>1, <1>8, FlushedTyped DEF FlushBody
    <2> QED BY <1>3, <1>8, <2>1, WorkTyped DEF FlushBody, Places
<1>9. CASE BodyFails
    <2>1. DiskTyped'
        BY <1>2, <1>3, <1>9 DEF BodyFails
    <2> QED BY <1>3, <1>9, <2>1, OverTyped DEF BodyFails
<1>10. CASE StageRecord
    <2> DEFINE C == {Capsule} \cup Carried({c \in before : c[1] # taking.generation})
    <2>1. C \in SUBSET Capsules /\ Stage(C)
        BY <1>3, <1>4, <1>10, NewestSubset DEF StageRecord, Carried, Verified
    <2>2. DiskTyped'
        BY <1>2, <1>3, <1>10 DEF StageRecord
    <2> HIDE DEF C
    <2> QED BY <1>3, <1>10, <2>1, <2>2, StageTyped, WorkTyped DEF StageRecord, Places
<1>11. CASE PublishRecord
    <2>1. record' \subseteq Capsules /\ recordCut' = recordCut \cup {record'}
        BY <1>3, <1>11 DEF PublishRecord
    <2>2. DiskTyped'
        BY <1>1, <1>11, <2>1 DEF PublishRecord, DiskTyped
    <2> QED BY <1>3, <1>11, <2>2, WorkTyped DEF PublishRecord, Places
<1>12. CASE RecordFails
    <2>1. DiskTyped'
        <3>1. CASE NameBody(taking.generation, NoBody)
            BY <1>1, <1>4, <1>12, <3>1, NameBodyTyped DEF RecordFails, RecordPlaces
        <3>2. CASE UNCHANGED <<body, bodyCut>>
            BY <1>2, <1>3, <1>12, <3>2 DEF RecordFails, disk
        <3> QED BY <1>12, <3>1, <3>2 DEF RecordFails
    <2> QED BY <1>3, <1>12, <2>1, OverTyped DEF RecordFails
<1>13. CASE FlushRecord
    <2>1. DiskTyped'
        BY <1>1, <1>13, FlushedTyped DEF FlushRecord
    <2> QED BY <1>3, <1>13, <2>1, WorkTyped DEF FlushRecord, Places
<1>14. ASSUME NEW g \in Generations, Prune(g)
       PROVE  TypeOK' /\ BoundInv'
    <2>1. DiskTyped'
        <3>1. CASE NameBody(g, NoBody)
            BY <1>1, <1>4, <1>14, <3>1, NameBodyTyped DEF Prune
        <3>2. CASE UNCHANGED <<body, bodyCut>>
            BY <1>2, <1>3, <1>14, <3>2 DEF Prune, disk
        <3> QED BY <1>14, <3>1, <3>2 DEF Prune
    <2> QED BY <1>3, <1>14, <2>1, WorkTyped DEF Prune, Places
<1>15. CASE Return
    <2>1. DiskTyped' /\ acked' \in 0..MaxCaptures
        BY <1>2, <1>3, <1>4, <1>15, TypeFacts DEF Return
    <2> QED BY <1>3, <1>15, <2>1, OverTyped DEF Return
<1>16. CASE ProcessDies
    <2>1. DiskTyped'
        BY <1>2, <1>3, <1>16 DEF ProcessDies
    <2> QED BY <1>3, <1>16, <2>1, OverTyped DEF ProcessDies
<1>17. CASE PowerCut
    <2>1. /\ body' \in [Generations -> Bodies] /\ record' \in recordCut
          /\ \A g \in Generations : body'[g] \in bodyCut[g]
          /\ bodyCut' = [g \in Generations |-> {body'[g]}] /\ recordCut' = {record'}
          /\ begun' = begun
        BY <1>1, <1>17 DEF PowerCut, Unsettled, DiskTyped
    <2>2. DiskTyped'
        BY <1>1, <2>1 DEF DiskTyped
    <2> QED BY <1>3, <1>17, <2>2, OverTyped DEF PowerCut
<1>18. ASSUME NEW g \in Generations, Rots(g)
       PROVE  TypeOK' /\ BoundInv'
    <2>1. /\ body' = [body EXCEPT ![g] = Torn] /\ bodyCut' = [bodyCut EXCEPT ![g] = {Torn}]
          /\ body[g] # NoBody /\ Torn \in Bodies /\ at = "idle" /\ rots' \in 0..MaxRots
          /\ UNCHANGED <<record, recordCut, at, taking, before, staged, doomed, begun, acked,
                         faults, deaths>>
        BY <1>18, TypeFacts DEF Rots, work, Bodies, TypeOK
    <2>2. DiskTyped'
        BY <1>1, <2>1 DEF DiskTyped
    <2> QED BY <2>1, <2>2 DEF TypeOK, BoundInv, DiskTyped
<1>19. CASE UNCHANGED vars
    BY <1>19 DEF vars, disk, work, TypeOK, BoundInv
<1> QED BY <1>5, <1>6, <1>7, <1>8, <1>9, <1>10, <1>11, <1>12, <1>13, <1>14, <1>15, <1>16,
           <1>17, <1>18, <1>19 DEF Next, Capture

LEMMA TypeInit ==
    ASSUME Init
    PROVE  TypeOK /\ BoundInv
<1>1. /\ MaxCaptures \in Nat /\ MaxFaults \in Nat /\ MaxDeaths \in Nat /\ MaxRots \in Nat
      /\ NoBody \in Bodies
    BY BoundsAssumption DEF Bodies
<1>2. TypeOK
    BY <1>1 DEF Init, TypeOK, Places, NotStaged
<1>3. BoundInv
    BY DEF Init, BoundInv
<1> QED BY <1>2, <1>3

\* Every variable keeps its type: the number of each body is within the captures, however
\* many names a power cut brings back (nextGeneration and captureLocked).
THEOREM TypeCorrect == Spec => []TypeOK
<1>1. Spec => [](TypeOK /\ BoundInv)
    BY TypeInit, TypeStep, PTL DEF Spec
<1> QED BY <1>1, PTL

-----------------------------------------------------------------------------
(* What holds of the ring, step by step *)

LEMMA CaptureFacts ==
    ASSUME TypeOK, BoundInv, at # "idle"
    PROVE  /\ taking.generation \in Generations /\ taking.generation \in Nat
           /\ taking.number = begun /\ begun \in Captures
           /\ Capsule = <<taking.generation, begun>> /\ Capsule \in Capsules
           /\ Capsule[1] = taking.generation /\ Capsule[2] = begun
BY TypeFacts DEF BoundInv, Capsule, Capsules

\* Of two bodies that are there, the one of the newer generation is of the newer capture.
LEMMA VerifiedOrder ==
    ASSUME TypeOK, BoundInv, OrderInv,
           NEW c \in Verified(record), NEW d \in Verified(record), c[1] <= d[1]
    PROVE  c[2] <= d[2] /\ (c[2] = d[2] => c = d)
<1>1. /\ c \in Capsules /\ d \in Capsules /\ body[c[1]] = c[2] /\ body[d[1]] = d[2]
    BY DEF Verified, Verifies, TypeOK
<1>2. /\ c = <<c[1], c[2]>> /\ d = <<d[1], d[2]>> /\ c[1] \in Generations /\ d[1] \in Generations
      /\ c[2] \in Captures /\ d[2] \in Captures /\ c[1] \in Nat /\ d[1] \in Nat
      /\ c[2] \in Nat /\ d[2] \in Nat
    BY <1>1, CapsuleFacts
<1>3. CASE c[1] = d[1]
    BY <1>1, <1>2, <1>3
<1>4. CASE c[1] # d[1]
    <2>1. c[2] \in bodyCut[c[1]] /\ d[2] \in bodyCut[d[1]]
        BY <1>1, <1>2 DEF BoundInv
    <2>2. c[1] < d[1]
        BY <1>2, <1>4
    <2>3. c[2] < d[2]
        BY <1>2, <2>1, <2>2 DEF OrderInv
    <2> QED BY <1>2, <2>3
<1> QED BY <1>3, <1>4

\* Bodies that are damaged, or that go or come back as they may, stay in order.
LEMMA OrderKeeps ==
    ASSUME TypeOK, OrderInv, begun' \in Nat, begun' >= begun, acked' <= begun',
           \A g \in Generations : \A b \in bodyCut'[g] : b \in Captures => b \in bodyCut[g],
           \A h \in Generations : (\E b \in bodyCut'[h] : b # NoBody) =>
               h = 1 \/ \E g \in Generations : g + 1 >= h /\ body'[g] # NoBody
    PROVE  OrderInv'
<1>1. \A g \in Generations : \A b \in bodyCut'[g] : b \in Captures => b <= begun'
    <2> SUFFICES ASSUME NEW g \in Generations, NEW b \in bodyCut'[g], b \in Captures
                 PROVE  b <= begun'
        OBVIOUS
    <2>1. b \in Nat /\ begun \in Nat /\ b <= begun
        BY TypeFacts DEF OrderInv
    <2> QED BY <2>1
<1>2. \A g, h \in Generations : \A b \in bodyCut'[g], c \in bodyCut'[h] :
          (g < h /\ b \in Captures /\ c \in Captures) => b < c
    BY DEF OrderInv
<1> QED BY <1>1, <1>2 DEF OrderInv

\* The disk is as it was, and the capture is over.
LEMMA OverKeeps ==
    ASSUME RingInv, Over, UNCHANGED <<disk, begun, acked, rots>>
    PROVE  OrderInv' /\ SettledInv' /\ CaptureInv' /\ PruneInv' /\ KeptInv'
<1>1. /\ UNCHANGED <<body, record, bodyCut, recordCut>> /\ at' = "idle"
    BY DEF disk, Over
<1> QED BY <1>1 DEF RingInv, OrderInv, SettledInv, CaptureInv, PruneInv, KeptInv

LEMMA BeginKeeps ==
    ASSUME RingInv, Begin, ~MayMisread
    PROVE  OrderInv' /\ SettledInv' /\ CaptureInv' /\ PruneInv' /\ KeptInv'
<1> DEFINE n == NextGeneration
<1>1. /\ at = "idle" /\ begun < MaxCaptures /\ begun' = begun + 1 /\ at' = "body"
      /\ taking' = [number |-> begun', generation |-> n] /\ before' = record
      /\ UNCHANGED <<body, record, bodyCut, recordCut, staged, doomed, acked, rots>>
    BY DEF Begin, Misread, disk
<1>2. /\ TypeOK /\ BoundInv /\ OrderInv /\ SettledInv /\ KeptInv
      /\ begun \in Nat /\ acked \in Nat /\ acked <= begun /\ begun' \in Nat /\ begun' > begun
    BY <1>1, TypeFacts DEF RingInv, OrderInv
<1>3. /\ n \in Generations /\ n \in Nat /\ n # 0
      /\ \A g \in Generations : g \in Nat /\ (body[g] # NoBody => g < n)
      /\ n = 1 \/ body[n - 1] # NoBody
      /\ taking'.generation = n
    BY <1>1, <1>2, NextIsFree, TypeFacts
<1> HIDE DEF n
<1>4. \A h \in Generations : h > n => bodyCut[h] = {NoBody}
    <2> SUFFICES ASSUME NEW h \in Generations, h > n
                 PROVE  \A b \in bodyCut[h] : b = NoBody
        BY <1>2 DEF BoundInv
    <2>1. h # 1 /\ \A g \in Generations : body[g] # NoBody => ~(g + 1 >= h)
        BY <1>3
    <2> QED BY <1>2, <2>1 DEF OrderInv
<1>5. OrderInv'
    BY <1>1, <1>2, OrderKeeps DEF OrderInv
<1>6. SettledInv' /\ PruneInv'
    BY <1>1, <1>2 DEF SettledInv, PruneInv
<1>7. CaptureInv'
    <2>1. body[n] = NoBody
        BY <1>3
    <2>2. \A h \in Generations : \A b \in bodyCut[h] : b \in Captures => b < begun'
        <3> SUFFICES ASSUME NEW h \in Generations, NEW b \in bodyCut[h], b \in Captures
                     PROVE  b < begun'
            OBVIOUS
        <3>1. b \in Nat /\ b <= begun
            BY <1>2, TypeFacts DEF OrderInv
        <3> QED BY <1>1, <1>2, <3>1
    <2>3. acked < begun'
        BY <1>2
    <2> QED BY <1>1, <1>3, <1>4, <2>1, <2>2, <2>3 DEF CaptureInv, BodyPlaces, RecordPlaces
<1>8. KeptInv'
    <2>1. \A c \in Capsules : bodyCut[c[1]] = {c[2]} => c[1] # n
        <3> SUFFICES ASSUME NEW c \in Capsules, bodyCut[c[1]] = {c[2]}
                     PROVE  c[1] # n
            OBVIOUS
        <3>1. c[1] \in Generations /\ c[2] # NoBody /\ body[c[1]] = c[2]
            BY <1>2, CapsuleFacts, TypeFacts DEF BoundInv
        <3> QED BY <1>3, <3>1
    <2>2. \A old \in recordCut : old \subseteq Capsules
        BY <1>2 DEF TypeOK
    <2> QED BY <1>1, <1>2, <1>3, <2>1, <2>2 DEF KeptInv
<1> QED BY <1>5, <1>6, <1>7, <1>8

LEMMA StageBodyKeeps ==
    ASSUME RingInv, StageBody
    PROVE  OrderInv' /\ SettledInv' /\ CaptureInv' /\ PruneInv' /\ KeptInv'
<1>1. /\ at = "body" /\ at' = "bodyStaged"
      /\ UNCHANGED <<body, record, bodyCut, recordCut, taking, before, begun, acked, rots>>
      /\ OrderInv /\ SettledInv /\ CaptureInv /\ KeptInv
    BY DEF StageBody, disk, RingInv
<1>2. OrderInv' /\ SettledInv' /\ PruneInv' /\ KeptInv'
    BY <1>1 DEF OrderInv, SettledInv, PruneInv, KeptInv
<1>3. CaptureInv'
    BY <1>1 DEF CaptureInv, BodyPlaces, RecordPlaces
<1> QED BY <1>2, <1>3

LEMMA PublishBodyKeeps ==
    ASSUME RingInv, PublishBody
    PROVE  OrderInv' /\ SettledInv' /\ CaptureInv' /\ PruneInv' /\ KeptInv'
<1> DEFINE g == taking.generation
<1>1. /\ TypeOK /\ BoundInv /\ OrderInv /\ SettledInv /\ CaptureInv /\ KeptInv
      /\ at = "bodyStaged" /\ at' = "bodyNamed" /\ NameBody(g, begun)
      /\ UNCHANGED <<record, recordCut, taking, before, staged, begun, acked, rots>>
    BY CaptureFacts DEF PublishBody, RingInv, Proven
<1>2. /\ g \in Generations /\ g \in Nat /\ begun \in Captures /\ begun \in Nat /\ begun # NoBody
      /\ acked \in Nat /\ \A h \in Generations : h \in Nat
    BY <1>1, CaptureFacts, TypeFacts
<1>3. /\ acked < begun /\ \A h \in Generations : h > g => bodyCut[h] = {NoBody}
      /\ g = 1 \/ body[g - 1] # NoBody
      /\ body[g] = NoBody
      /\ \A h \in Generations : \A b \in bodyCut[h] : b \in Captures => b < begun
      /\ before = record
    BY <1>1 DEF CaptureInv, BodyPlaces
<1>4. /\ body'[g] = begun /\ bodyCut'[g] = bodyCut[g] \cup {begun}
      /\ \A h \in Generations : h # g => body'[h] = body[h] /\ bodyCut'[h] = bodyCut[h]
    BY <1>1, <1>2 DEF NameBody, Synced, TypeOK
<1>5. \A h \in Generations : h > g => bodyCut'[h] = {NoBody}
    BY <1>2, <1>3, <1>4
<1>6. OrderInv'
    <2>1. ASSUME NEW h \in Generations, NEW k \in Generations, NEW b \in bodyCut'[h],
                 NEW c \in bodyCut'[k], h < k, b \in Captures, c \in Captures
          PROVE  b < c
        <3>1. ~(k > g) /\ k <= g /\ h # g
            BY <1>2, <1>5, <2>1, TypeFacts, <1>1
        <3>2. b \in bodyCut[h]
            BY <1>4, <3>1
        <3>3. CASE c \in bodyCut[k]
            BY <1>1, <2>1, <3>2, <3>3 DEF OrderInv
        <3>4. CASE c = begun
            BY <1>3, <2>1, <3>2, <3>4
        <3> QED BY <1>4, <3>3, <3>4
    <2>2. ASSUME NEW h \in Generations, \E b \in bodyCut'[h] : b # NoBody
          PROVE  g + 1 >= h /\ body'[g] # NoBody
        <3>1. ~(h > g)
            BY <1>5, <2>2
        <3> QED BY <1>2, <1>4, <3>1
    <2>3. ASSUME NEW h \in Generations, NEW b \in bodyCut'[h], b \in Captures
          PROVE  b <= begun
        <3>1. CASE b = begun
            BY <1>2, <3>1
        <3>2. CASE b \in bodyCut[h]
            BY <1>1, <2>3, <3>2 DEF OrderInv
        <3> QED BY <1>4, <3>1, <3>2
    <2> QED BY <1>1, <1>2, <2>1, <2>2, <2>3 DEF OrderInv
<1>7. SettledInv'
    <2>1. ~(begun <= acked)
        BY <1>2, <1>3
    <2> QED BY <1>1, <1>4, <2>1 DEF SettledInv
<1>8. CaptureInv' /\ PruneInv'
    <2>1. g = 1 \/ body'[g - 1] # NoBody
        <3>1. g # 1 => g - 1 \in Generations /\ g - 1 # g
            BY <1>1, <1>2, TypeFacts
        <3> QED BY <1>3, <1>4, <3>1
    <2> QED BY <1>1, <1>3, <1>4, <1>5, <2>1 DEF CaptureInv, PruneInv, BodyPlaces, RecordPlaces
<1>9. KeptInv'
    <2>1. \A old \in recordCut : \A c \in old : c[1] \in Generations
        BY <1>1, CapsuleFacts DEF TypeOK
    <2> QED BY <1>1, <1>4, <2>1 DEF KeptInv
<1> QED BY <1>6, <1>7, <1>8, <1>9

\* Once the directory is flushed each name is settled.
LEMMA FlushedKeeps ==
    ASSUME RingInv, Flushed, at \in {"bodyNamed", "recordNamed"},
           UNCHANGED <<begun, acked, rots, taking>>, at' = "record" \/ at' = "prune"
    PROVE  /\ OrderInv' /\ SettledInv' /\ KeptInv'
           /\ UNCHANGED <<body, record>> /\ recordCut' = {record}
           /\ \A g \in Generations : bodyCut'[g] = {body[g]}
<1>1. /\ TypeOK /\ BoundInv /\ OrderInv /\ SettledInv /\ KeptInv
      /\ UNCHANGED <<body, record>> /\ recordCut' = {record}
      /\ \A g \in Generations : bodyCut'[g] = {body[g]} /\ body[g] \in bodyCut[g]
      /\ begun \in Nat /\ acked <= begun /\ \A g \in Generations : g \in Nat
    BY TypeFacts DEF Flushed, Synced, RingInv, BoundInv, OrderInv
<1>2. OrderInv'
    <2>1. \A h \in Generations : h + 1 >= h
        BY <1>1
    <2> QED BY <1>1, <2>1, OrderKeeps
<1>3. SettledInv'
    BY <1>1 DEF SettledInv
<1>4. KeptInv'
    <2> SUFFICES ASSUME rots = 0, acked # 0
                 PROVE  \E c \in record : /\ c[2] >= acked /\ bodyCut'[c[1]] = {c[2]}
                                          /\ at' \notin {"idle", "prune"} =>
                                                 c[1] # taking.generation
        BY <1>1 DEF KeptInv
    <2>1. PICK c \in record : /\ c[2] >= acked /\ bodyCut[c[1]] = {c[2]}
                              /\ c[1] # taking.generation
        BY <1>1 DEF KeptInv, SettledInv
    <2>2. c[1] \in Generations
        BY <1>1, CapsuleFacts DEF TypeOK
    <2>3. body[c[1]] = c[2]
        BY <1>1, <2>1, <2>2
    <2> QED BY <1>1, <2>1, <2>2, <2>3
<1> QED BY <1>1, <1>2, <1>3, <1>4

LEMMA FlushBodyKeeps ==
    ASSUME RingInv, FlushBody
    PROVE  OrderInv' /\ SettledInv' /\ CaptureInv' /\ PruneInv' /\ KeptInv'
<1>1. /\ at = "bodyNamed" /\ at' = "record" /\ Flushed
      /\ UNCHANGED <<taking, before, staged, doomed, begun, acked, rots>>
      /\ TypeOK /\ BoundInv /\ CaptureInv
    BY DEF FlushBody, RingInv
<1>2. /\ OrderInv' /\ SettledInv' /\ KeptInv'
      /\ UNCHANGED <<body, record>> /\ recordCut' = {record}
      /\ \A g \in Generations : bodyCut'[g] = {body[g]} /\ body[g] \in bodyCut[g]
    BY <1>1, FlushedKeeps DEF BoundInv
<1>3. CaptureInv' /\ PruneInv'
    BY <1>1, <1>2 DEF CaptureInv, PruneInv, BodyPlaces, RecordPlaces
<1> QED BY <1>2, <1>3

LEMMA StageRecordKeeps ==
    ASSUME RingInv, StageRecord
    PROVE  OrderInv' /\ SettledInv' /\ CaptureInv' /\ PruneInv' /\ KeptInv'
<1> DEFINE C == {Capsule} \cup Carried({c \in before : c[1] # taking.generation})
<1>1. /\ at = "record" /\ at' = "recordStaged" /\ Stage(C)
      /\ UNCHANGED <<body, record, bodyCut, recordCut, taking, before, begun, acked, rots>>
      /\ OrderInv /\ SettledInv /\ CaptureInv /\ KeptInv
    BY DEF StageRecord, disk, RingInv
<1>2. staged'.capsules = C
    <2> HIDE DEF C
    <2> QED BY <1>1 DEF Stage
<1>3. C' = C
    BY <1>1 DEF Capsule, Carried, Verified, Verifies, Newest
<1>4. OrderInv' /\ SettledInv' /\ PruneInv' /\ KeptInv'
    BY <1>1 DEF OrderInv, SettledInv, PruneInv, KeptInv
<1>5. CaptureInv'
    <2>1. staged'.capsules = C'
        BY <1>2, <1>3
    <2> QED BY <1>1, <2>1 DEF CaptureInv, BodyPlaces, RecordPlaces
<1> QED BY <1>4, <1>5

\* The newest predecessor whose body verifies is carried, and is at least as new as any
\* other that does.
LEMMA CarriedTop ==
    ASSUME RingInv, at = "recordStaged", NEW c \in Verified(record), c[1] # taking.generation
    PROVE  \E t \in staged.capsules :
              /\ t \in Verified(record) /\ t[1] # taking.generation /\ c[2] <= t[2]
<1> DEFINE P == {d \in before : d[1] # taking.generation}
           C == Verified(P)
<1>1. /\ TypeOK /\ BoundInv /\ OrderInv /\ before = record
      /\ staged.capsules = {Capsule} \cup Newest(C, Keep - 1)
      /\ Keep - 1 \in Nat /\ Keep - 1 # 0
    BY TypeFacts DEF RingInv, CaptureInv, Carried
<1>2. C \in SUBSET Capsules /\ c \in C
    BY <1>1 DEF Verified, TypeOK
<1>3. \A d \in C : d \in Verified(record) /\ d[1] # taking.generation
    BY <1>1 DEF Verified
<1> HIDE DEF C
<1>4. PICK t \in Newest(C, Keep - 1) : t \in C /\ \A d \in C : d[1] <= t[1]
    BY <1>1, <1>2, NewestHasTop
<1>5. c[2] <= t[2]
    BY <1>1, <1>2, <1>3, <1>4, VerifiedOrder
<1> QED BY <1>1, <1>3, <1>4, <1>5

LEMMA PublishRecordKeeps ==
    ASSUME RingInv, PublishRecord
    PROVE  OrderInv' /\ SettledInv' /\ CaptureInv' /\ PruneInv' /\ KeptInv'
<1> DEFINE g == taking.generation
<1>1. /\ at = "recordStaged" /\ at' = "recordNamed" /\ record' = staged.capsules
      /\ recordCut' = recordCut \cup {record'}
      /\ UNCHANGED <<body, bodyCut, taking, before, staged, begun, acked, rots>>
      /\ TypeOK /\ BoundInv /\ OrderInv /\ SettledInv /\ CaptureInv /\ KeptInv
    BY DEF PublishRecord, Proven, RingInv
<1>2. /\ acked < begun /\ recordCut = {record} /\ before = record
      /\ \A h \in Generations : bodyCut[h] = {body[h]}
      /\ staged.capsules = {Capsule} \cup Carried({c \in before : c[1] # g})
    BY <1>1 DEF CaptureInv, BodyPlaces, RecordPlaces
<1>3. /\ acked \in Nat /\ begun \in Nat /\ Capsule[2] = begun
    BY <1>1, CaptureFacts, TypeFacts
<1>4. OrderInv'
    BY <1>1 DEF OrderInv
<1>5. SettledInv'
    <2>1. \A c \in record' : c = Capsule \/ c \in record
        BY <1>1, <1>2, NewestSubset DEF Carried, Verified
    <2>2. ~(Capsule[2] <= acked)
        BY <1>2, <1>3
    <2> QED BY <1>1, <1>2, <2>1, <2>2 DEF SettledInv
<1>6. CaptureInv' /\ PruneInv'
    <2>1. Capsule' = Capsule /\ Capsule \in record'
        BY <1>1, <1>2 DEF Capsule
    <2> QED BY <1>1, <2>1 DEF CaptureInv, PruneInv, BodyPlaces, RecordPlaces
<1>7. KeptInv'
    <2> SUFFICES ASSUME rots = 0, acked # 0
                 PROVE  \A old \in {record, record'} : \E c \in old :
                            c[2] >= acked /\ bodyCut[c[1]] = {c[2]} /\ c[1] # g
        BY <1>1, <1>2 DEF KeptInv
    <2>1. PICK c \in record : c[2] >= acked /\ bodyCut[c[1]] = {c[2]} /\ c[1] # g
        BY <1>1, <1>2 DEF KeptInv
    <2>2. c \in Capsules /\ c[1] \in Generations /\ c[2] \in Nat
        BY <1>1, CapsuleFacts DEF TypeOK
    <2>3. c \in Verified(record)
        BY <1>2, <2>1, <2>2 DEF Verified, Verifies
    <2>4. PICK t \in record' : t \in Verified(record) /\ t[1] # g /\ c[2] <= t[2]
        BY <1>1, <2>1, <2>3, CarriedTop
    <2>5. t \in Capsules /\ t[1] \in Generations /\ t[2] \in Nat /\ body[t[1]] = t[2]
        BY <1>1, <2>4, CapsuleFacts DEF TypeOK, Verified, Verifies
    <2>6. t[2] >= acked /\ bodyCut[t[1]] = {t[2]}
        BY <1>2, <1>3, <2>1, <2>2, <2>4, <2>5
    <2> QED BY <2>1, <2>4, <2>6
<1> QED BY <1>4, <1>5, <1>6, <1>7

LEMMA RecordFailsKeeps ==
    ASSUME RingInv, RecordFails
    PROVE  OrderInv' /\ SettledInv' /\ CaptureInv' /\ PruneInv' /\ KeptInv'
<1> DEFINE g == taking.generation
<1>1. /\ at \in RecordPlaces /\ Over
      /\ UNCHANGED <<record, recordCut, begun, acked, rots>>
      /\ NameBody(g, NoBody) \/ UNCHANGED <<body, bodyCut>>
    BY DEF RecordFails, RecordPlaces
<1>2. CASE UNCHANGED <<body, bodyCut>>
    BY <1>1, <1>2, OverKeeps DEF disk
<1>3. CASE NameBody(g, NoBody)
    <2>1. /\ TypeOK /\ BoundInv /\ OrderInv /\ SettledInv /\ CaptureInv /\ KeptInv
          /\ at # "idle" /\ at # "prune" /\ at \notin {"body", "bodyStaged"} /\ at' = "idle"
        BY <1>1 DEF RingInv, RecordPlaces, Over
    <2>2. /\ g \in Generations /\ g \in Nat /\ begun \in Nat /\ NoBody \notin Captures
          /\ acked <= begun /\ \A h \in Generations : h \in Nat
          /\ Generations = 1..MaxCaptures /\ MaxCaptures \in Nat
        BY <2>1, CaptureFacts, TypeFacts DEF OrderInv
    <2>3. /\ body'[g] = NoBody /\ bodyCut'[g] = bodyCut[g] \cup {NoBody}
          /\ \A h \in Generations : h # g => body'[h] = body[h] /\ bodyCut'[h] = bodyCut[h]
        BY <1>3, <2>1, <2>2 DEF NameBody, Synced, TypeOK
    <2>4. /\ \A h \in Generations : h > g => bodyCut[h] = {NoBody}
          /\ g = 1 \/ body[g - 1] # NoBody
        BY <2>1 DEF CaptureInv
    <2>5. OrderInv'
        <3>1. ASSUME NEW h \in Generations, NEW b \in bodyCut'[h], b # NoBody
              PROVE  h = 1 \/ \E k \in Generations : k + 1 >= h /\ body'[k] # NoBody
            <4>1. h <= g
                BY <2>2, <2>3, <2>4, <3>1
            <4>2. CASE g = 1
                BY <2>2, <4>1, <4>2
            <4>3. CASE g # 1
                <5>1. g - 1 \in Generations /\ g - 1 # g /\ (g - 1) + 1 >= h
                    BY <2>2, <4>1, <4>3
                <5> QED BY <2>3, <2>4, <4>3, <5>1
            <4> QED BY <4>2, <4>3
        <3>2. \A h \in Generations : \A b \in bodyCut'[h] : b \in Captures => b \in bodyCut[h]
            BY <2>2, <2>3
        <3> QED BY <1>1, <2>1, <2>2, <3>1, <3>2, OrderKeeps
    <2>6. SettledInv'
        BY <1>1, <2>1, <2>2, <2>3 DEF SettledInv
    <2>7. CaptureInv' /\ PruneInv'
        BY <2>1 DEF CaptureInv, PruneInv
    <2>8. KeptInv'
        <3>1. \A old \in recordCut : \A c \in old : c[1] \in Generations
            BY <2>1, CapsuleFacts DEF TypeOK
        <3> QED BY <1>1, <2>1, <2>3, <3>1 DEF KeptInv
    <2> QED BY <2>5, <2>6, <2>7, <2>8
<1> QED BY <1>1, <1>2, <1>3

LEMMA FlushRecordKeeps ==
    ASSUME RingInv, FlushRecord
    PROVE  OrderInv' /\ SettledInv' /\ CaptureInv' /\ PruneInv' /\ KeptInv'
<1> DEFINE g == taking.generation
<1>1. /\ at = "recordNamed" /\ at' = "prune" /\ Flushed
      /\ doomed' = {h \in Generations : /\ body[h] # NoBody
                                        /\ h \notin Protected(staged.capsules)
                                        /\ h < g}
      /\ UNCHANGED <<taking, before, staged, begun, acked, rots>>
      /\ TypeOK /\ BoundInv /\ CaptureInv
    BY DEF FlushRecord, RingInv
<1>2. /\ OrderInv' /\ SettledInv' /\ KeptInv'
      /\ UNCHANGED <<body, record>> /\ recordCut' = {record}
      /\ \A h \in Generations : bodyCut'[h] = {body[h]} /\ body[h] \in bodyCut[h]
    BY <1>1, FlushedKeeps DEF BoundInv
<1>3. Capsule' = Capsule /\ Verified(record)' = Verified(record)
    BY <1>1, <1>2 DEF Capsule, Verified, Verifies
<1>4. CaptureInv'
    BY <1>1, <1>2, <1>3 DEF CaptureInv, BodyPlaces, RecordPlaces
<1>5. PruneInv'
    <2>1. ASSUME NEW c \in Verified(record), c # Capsule
          PROVE  \E t \in Verified(record) : t # Capsule /\ t[1] \notin doomed'
        <3> DEFINE C == Verified(record) \ {Capsule}
        <3>1. C \in SUBSET Capsules /\ c \in C /\ Keep - 1 \in Nat /\ Keep - 1 # 0
            BY <1>1, <2>1, TypeFacts DEF Verified, TypeOK
        <3>2. PICK t \in Newest(C, Keep - 1) : t \in C
            <4> HIDE DEF C
            <4> QED BY <3>1, NewestHasTop
        <3>3. record = staged.capsules
            BY <1>1 DEF CaptureInv
        <3>4. t[1] \in Protected(staged.capsules)
            BY <3>2, <3>3 DEF Protected
        <3> QED BY <1>1, <3>2, <3>4
    <2>2. \A h \in doomed' : h < g
        BY <1>1
    <2> QED BY <1>1, <1>2, <1>3, <2>1, <2>2 DEF PruneInv
<1> QED BY <1>2, <1>4, <1>5

LEMMA PruneKeeps ==
    ASSUME RingInv, NEW k \in Generations, Prune(k)
    PROVE  OrderInv' /\ SettledInv' /\ CaptureInv' /\ PruneInv' /\ KeptInv'
<1> DEFINE g == taking.generation
<1>1. /\ at = "prune" /\ at' = "prune" /\ k \in doomed /\ doomed' = doomed \ {k}
      /\ NameBody(k, NoBody) \/ UNCHANGED <<body, bodyCut>>
      /\ UNCHANGED <<record, recordCut, taking, before, staged, begun, acked, rots>>
      /\ TypeOK /\ BoundInv /\ OrderInv /\ SettledInv /\ CaptureInv /\ PruneInv /\ KeptInv
    BY DEF Prune, RingInv
<1>2. /\ g \in Generations /\ g \in Nat /\ begun \in Nat /\ begun # NoBody /\ NoBody \notin Captures
      /\ Capsule[1] = g /\ Capsule[2] = begun /\ acked <= begun
      /\ \A h \in Generations : h \in Nat
    BY <1>1, CaptureFacts, TypeFacts DEF OrderInv
<1>3. /\ k < g /\ k # g /\ body[g] = begun /\ bodyCut[g] = {begun}
      /\ \A h \in Generations : h > g => bodyCut[h] = {NoBody}
      /\ \A h \in Generations : body[h] # NoBody => bodyCut[h] = {body[h]}
      /\ recordCut = {record} /\ record = staged.capsules /\ Capsule \in record
      /\ acked < begun
    BY <1>1, <1>2 DEF CaptureInv, PruneInv, BodyPlaces, RecordPlaces
<1>4. /\ body'[k] = body[k] \/ body'[k] = NoBody
      /\ \A h \in Generations : h # k => body'[h] = body[h] /\ bodyCut'[h] = bodyCut[h]
      /\ body'[k] # NoBody => bodyCut'[k] = bodyCut[k]
      /\ bodyCut'[k] \subseteq bodyCut[k] \cup {NoBody}
    BY <1>1 DEF NameBody, Synced, TypeOK
<1>5. Capsule' = Capsule
    BY <1>1 DEF Capsule
<1>6. OrderInv'
    <2>1. ASSUME NEW h \in Generations, NEW b \in bodyCut'[h], b # NoBody
          PROVE  g + 1 >= h /\ body'[g] # NoBody
        <3>1. b \in bodyCut[h]
            BY <1>4, <2>1
        <3> QED BY <1>2, <1>3, <1>4, <2>1, <3>1
    <2>2. \A h \in Generations : \A b \in bodyCut'[h] : b \in Captures => b \in bodyCut[h]
        BY <1>2, <1>4
    <2> QED BY <1>1, <1>2, <2>1, <2>2, OrderKeeps
<1>7. SettledInv'
    BY <1>1, <1>2, <1>4 DEF SettledInv
<1>8. CaptureInv'
    BY <1>1, <1>2, <1>3, <1>4, <1>5 DEF CaptureInv, BodyPlaces, RecordPlaces
<1>9. PruneInv'
    <2>1. ASSUME NEW c \in Verified(record)', c # Capsule
          PROVE  \E t \in Verified(record)' : t # Capsule /\ t[1] \notin doomed'
        <3>1. /\ c \in record /\ body'[c[1]] = c[2] /\ c[1] \in Generations /\ c[2] # NoBody
            BY <1>1, <2>1, CapsuleFacts, TypeFacts DEF Verified, Verifies, TypeOK
        <3>2. c \in Verified(record)
            BY <1>4, <3>1 DEF Verified, Verifies
        <3>3. PICK t \in Verified(record) : t # Capsule /\ t[1] \notin doomed
            BY <1>1, <2>1, <3>2 DEF PruneInv
        <3>4. t[1] \in Generations /\ t[1] # k /\ t \in record /\ body[t[1]] = t[2]
            BY <1>1, <3>3, CapsuleFacts DEF Verified, Verifies, TypeOK
        <3>5. t \in Verified(record)'
            BY <1>1, <1>4, <3>4 DEF Verified, Verifies
        <3> QED BY <1>1, <3>3, <3>5
    <2>2. \A h \in Generations : body'[h] # NoBody => bodyCut'[h] = {body'[h]}
        BY <1>3, <1>4
    <2>3. \A h \in doomed' : h < g
        BY <1>1 DEF PruneInv
    <2> QED BY <1>1, <1>5, <2>1, <2>2, <2>3 DEF PruneInv
<1>10. KeptInv'
    <2>1. Capsule \in record /\ Capsule[2] >= acked /\ bodyCut'[Capsule[1]] = {Capsule[2]}
        BY <1>2, <1>3, <1>4
    <2> QED BY <1>1, <1>3, <2>1 DEF KeptInv
<1> QED BY <1>6, <1>7, <1>8, <1>9, <1>10

LEMMA ReturnKeeps ==
    ASSUME RingInv, Return
    PROVE  OrderInv' /\ SettledInv' /\ CaptureInv' /\ PruneInv' /\ KeptInv'
<1>1. /\ at = "prune" /\ at' = "idle" /\ acked' = begun
      /\ UNCHANGED <<body, record, bodyCut, recordCut, begun, rots>>
      /\ TypeOK /\ BoundInv /\ OrderInv /\ SettledInv /\ CaptureInv /\ PruneInv /\ KeptInv
    BY CaptureFacts DEF Return, RingInv, Over, disk
<1>2. /\ taking.generation \in Generations /\ begun \in Nat /\ begun # NoBody
      /\ Capsule[1] = taking.generation /\ Capsule[2] = begun /\ NoBody \notin Captures
    BY <1>1, CaptureFacts, TypeFacts
<1>3. /\ body[taking.generation] = begun /\ recordCut = {record} /\ Capsule \in record
      /\ \A h \in Generations : body[h] # NoBody => bodyCut[h] = {body[h]}
    BY <1>1 DEF CaptureInv, PruneInv
<1>4. OrderInv'
    BY <1>1, <1>2 DEF OrderInv
<1>5. SettledInv'
    BY <1>1, <1>2, <1>3 DEF SettledInv
<1>6. CaptureInv' /\ PruneInv'
    BY <1>1 DEF CaptureInv, PruneInv
<1>7. KeptInv'
    <2>1. Capsule[2] >= acked' /\ bodyCut[Capsule[1]] = {Capsule[2]}
        BY <1>1, <1>2, <1>3
    <2> QED BY <1>1, <1>3, <2>1 DEF KeptInv
<1> QED BY <1>4, <1>5, <1>6, <1>7

LEMMA PowerCutKeeps ==
    ASSUME RingInv, PowerCut
    PROVE  OrderInv' /\ SettledInv' /\ CaptureInv' /\ PruneInv' /\ KeptInv'
<1>1. /\ TypeOK /\ BoundInv /\ OrderInv /\ SettledInv /\ CaptureInv /\ PruneInv /\ KeptInv
    BY DEF RingInv
<1>2. /\ \A g \in Generations : body'[g] \in bodyCut[g] /\ bodyCut'[g] = {body'[g]}
      /\ record' \in recordCut /\ recordCut' = {record'} /\ at' = "idle"
      /\ UNCHANGED <<begun, acked, rots>>
    BY <1>1 DEF PowerCut, Unsettled, Over, BoundInv
<1>3. begun \in Nat /\ acked <= begun /\ \A h \in Generations : h + 1 >= h
    BY <1>1, TypeFacts DEF OrderInv
<1>4. OrderInv'
    BY <1>1, <1>2, <1>3, OrderKeeps
<1>5. SettledInv' /\ CaptureInv' /\ PruneInv'
    BY <1>2 DEF SettledInv, CaptureInv, PruneInv
<1>6. KeptInv'
    <2>1. \A c \in record' : c[1] \in Generations
        BY <1>1, <1>2, CapsuleFacts DEF TypeOK
    <2> QED BY <1>1, <1>2, <2>1 DEF KeptInv
<1> QED BY <1>4, <1>5, <1>6

LEMMA RotsKeeps ==
    ASSUME RingInv, NEW g \in Generations, Rots(g)
    PROVE  OrderInv' /\ SettledInv' /\ CaptureInv' /\ PruneInv' /\ KeptInv'
<1>1. /\ TypeOK /\ BoundInv /\ OrderInv /\ SettledInv /\ CaptureInv /\ PruneInv /\ KeptInv
      /\ at = "idle" /\ at' = "idle" /\ rots' = rots + 1
      /\ body' = [body EXCEPT ![g] = Torn] /\ bodyCut' = [bodyCut EXCEPT ![g] = {Torn}]
      /\ body[g] # NoBody
      /\ UNCHANGED <<record, recordCut, begun, acked>>
    BY TypeFacts DEF Rots, RingInv, work
<1>2. /\ body'[g] = Torn /\ bodyCut'[g] = {Torn} /\ Torn \notin Captures /\ Torn # NoBody
      /\ \A h \in Generations : h # g => body'[h] = body[h] /\ bodyCut'[h] = bodyCut[h]
      /\ rots' # 0 /\ begun \in Nat /\ acked <= begun /\ \A h \in Generations : h \in Nat
    <2>1. Torn # NoBody
        BY BoundsAssumption DEF Torn, NoBody
    <2> QED BY <1>1, <2>1, TypeFacts DEF TypeOK, OrderInv
<1>3. OrderInv'
    <2>1. ASSUME NEW h \in Generations, NEW b \in bodyCut'[h], b # NoBody
          PROVE  h = 1 \/ \E k \in Generations : k + 1 >= h /\ body'[k] # NoBody
        <3>1. CASE h = g
            BY <1>2, <3>1
        <3>2. CASE h # g
            BY <1>1, <1>2, <2>1, <3>2 DEF OrderInv
        <3> QED BY <3>1, <3>2
    <2> QED BY <1>1, <1>2, <2>1, OrderKeeps
<1>4. SettledInv' /\ CaptureInv' /\ PruneInv' /\ KeptInv'
    BY <1>1, <1>2 DEF SettledInv, CaptureInv, PruneInv, KeptInv
<1> QED BY <1>3, <1>4

-----------------------------------------------------------------------------
(* The invariant *)

LEMMA InvariantInit ==
    ASSUME Init
    PROVE  RingInv
<1>1. TypeOK /\ BoundInv
    BY TypeInit
<1>2. OrderInv
    BY TypeFacts, <1>1 DEF Init, OrderInv
<1>3. SettledInv /\ CaptureInv /\ PruneInv /\ KeptInv
    BY TypeFacts, <1>1 DEF Init, SettledInv, CaptureInv, PruneInv, KeptInv
<1> QED BY <1>1, <1>2, <1>3 DEF RingInv

LEMMA InvariantStep ==
    ASSUME RingInv, [Next]_vars, ~MayMisread
    PROVE  RingInv'
<1>1. TypeOK' /\ BoundInv'
    BY TypeStep DEF RingInv
<1>2. CASE Capture
    <2>1. CASE BodyFails
        BY <1>1, <2>1, OverKeeps DEF BodyFails, RingInv
    <2>2. ASSUME NEW g \in Generations, Prune(g)
          PROVE  RingInv'
        BY <1>1, <2>2, PruneKeeps DEF RingInv
    <2>3. CASE Begin \/ StageBody \/ PublishBody \/ FlushBody
        BY <1>1, <2>3, BeginKeeps, StageBodyKeeps, PublishBodyKeeps, FlushBodyKeeps DEF RingInv
    <2>4. CASE StageRecord \/ PublishRecord \/ FlushRecord \/ RecordFails \/ Return
        BY <1>1, <2>4, StageRecordKeeps, PublishRecordKeeps, FlushRecordKeeps, RecordFailsKeeps,
           ReturnKeeps DEF RingInv
    <2> QED BY <1>2, <2>1, <2>2, <2>3, <2>4 DEF Capture
<1>3. CASE ProcessDies
    BY <1>1, <1>3, OverKeeps DEF ProcessDies, RingInv
<1>4. CASE PowerCut
    BY <1>1, <1>4, PowerCutKeeps DEF RingInv
<1>5. ASSUME NEW g \in Generations, Rots(g)
      PROVE  RingInv'
    BY <1>1, <1>5, RotsKeeps DEF RingInv
<1>6. CASE UNCHANGED vars
    <2>1. /\ UNCHANGED <<body, record, bodyCut, recordCut, at, taking, before, staged, doomed,
                         begun, acked, rots>>
          /\ OrderInv /\ SettledInv /\ CaptureInv /\ PruneInv /\ KeptInv
        BY <1>6 DEF vars, disk, work, RingInv
    <2>2. Capsule' = Capsule /\ Verified(record)' = Verified(record)
        BY <2>1 DEF Capsule, Verified, Verifies
    <2>3. Carried({c \in before : c[1] # taking.generation})'
              = Carried({c \in before : c[1] # taking.generation})
        BY <2>1 DEF Carried, Verified, Verifies
    <2>4. OrderInv' /\ SettledInv' /\ PruneInv' /\ KeptInv'
        BY <2>1, <2>2 DEF OrderInv, SettledInv, PruneInv, KeptInv
    <2>5. CaptureInv'
        BY <2>1, <2>2, <2>3 DEF CaptureInv
    <2> QED BY <1>1, <2>4, <2>5 DEF RingInv
<1> QED BY <1>2, <1>3, <1>4, <1>5, <1>6 DEF Next

\* The inductive invariant of a ring whose directory and record are read without fail:
\* bodies are in the order of their captures and stay so across a power cut, what was
\* there when a capture returned is settled, and every record that may come back names a
\* body as new as the last that returned.
THEOREM RingInvariant ==
    ASSUME ~MayMisread
    PROVE  Spec => []RingInv
<1>1. Init => RingInv
    BY InvariantInit
<1>2. RingInv /\ [Next]_vars => RingInv'
    BY InvariantStep
<1> QED BY <1>1, <1>2, PTL DEF Spec

\* A body is never published over another: the number comes off the directory, where the
\* debris of a failure or a crash is counted too (nextGeneration).
THEOREM NeverOverwritesAlways ==
    ASSUME ~MayMisread
    PROVE  Spec => NeverOverwrites
<1>1. RingInv /\ [Next]_vars =>
          [(at = "bodyStaged" /\ at' = "bodyNamed") => body[taking.generation] = NoBody]_vars
    BY DEF RingInv, CaptureInv
<1> QED BY <1>1, RingInvariant, PTL DEF Spec, NeverOverwrites

-----------------------------------------------------------------------------
(* The last proof *)

\* No step but damage takes the last verified body beside that of the capture in progress.
LEMMA SurvivesStep ==
    ASSUME RingInv, Next, NEW c \in Verified(record), c[2] <= acked, rots' = rots
    PROVE  \E d \in record' : body'[d[1]] = d[2] /\ d[2] # taking'.number
<1>1. /\ TypeOK /\ BoundInv /\ OrderInv /\ SettledInv /\ CaptureInv /\ PruneInv
      /\ begun \in Nat /\ acked \in Nat /\ rots \in Nat /\ Nothing.number = 0
    BY TypeFacts DEF RingInv
<1>2. /\ c \in record /\ body[c[1]] = c[2] /\ c[1] \in Generations /\ c[2] \in Captures
      /\ c[2] \in Nat /\ c[2] # 0 /\ c[2] # NoBody
    BY <1>1, CapsuleFacts, TypeFacts DEF Verified, Verifies, TypeOK
<1>3. bodyCut[c[1]] = {c[2]} /\ \A old \in recordCut : c \in old
    BY <1>1, <1>2 DEF SettledInv
<1>4. c[2] <= begun /\ (at # "idle" => c[2] < begun /\ taking.number = begun)
    BY <1>1, <1>2 DEF OrderInv, CaptureInv, BoundInv
<1>5. Over => taking'.number = 0
    BY <1>1 DEF Over
<1>6. CASE Begin
    <2>1. taking'.number = begun + 1 /\ UNCHANGED <<body, record>>
        BY <1>6 DEF Begin, disk
    <2> QED BY <1>1, <1>2, <1>4, <2>1
<1>7. CASE StageBody \/ FlushBody \/ StageRecord \/ FlushRecord
    <2>1. at # "idle" /\ taking' = taking /\ UNCHANGED <<body, record>>
        BY <1>7 DEF StageBody, FlushBody, StageRecord, FlushRecord, Flushed, disk
    <2> QED BY <1>1, <1>2, <1>4, <2>1
<1>8. CASE BodyFails \/ Return \/ ProcessDies
    <2>1. Over /\ UNCHANGED <<body, record>>
        BY <1>8 DEF BodyFails, Return, ProcessDies, disk
    <2> QED BY <1>2, <1>5, <2>1
<1>9. CASE PublishBody
    <2>1. /\ at = "bodyStaged" /\ taking' = taking /\ record' = record
          /\ \A g \in Generations : g # taking.generation => body'[g] = body[g]
        BY <1>1, <1>9 DEF PublishBody, NameBody, TypeOK
    <2>2. c[1] # taking.generation
        BY <1>1, <1>2, <2>1 DEF CaptureInv
    <2> QED BY <1>1, <1>2, <1>4, <2>1, <2>2
<1>10. CASE PublishRecord
    <2>1. at = "recordStaged" /\ taking' = taking /\ body' = body /\ record' = staged.capsules
        BY <1>10 DEF PublishRecord, Proven
    <2>2. body[taking.generation] = begun
        BY <1>1, <2>1 DEF CaptureInv
    <2>3. c[1] # taking.generation
        BY <1>1, <1>2, <1>4, <2>1, <2>2
    <2>4. PICK t \in staged.capsules : /\ t \in Verified(record) /\ t[1] # taking.generation
                                       /\ c[2] <= t[2]
        BY <2>1, <2>3, CarriedTop
    <2>5. body[t[1]] = t[2] /\ t \in Verified(record)
        BY <2>4 DEF Verified, Verifies
    <2>6. t[2] # begun
        <3>1. /\ t[1] \in Generations /\ taking.generation \in Generations
              /\ t[1] \in Nat /\ taking.generation \in Nat /\ begun \in Captures
            BY <1>1, <2>1, <2>5, CapsuleFacts, CaptureFacts DEF Verified, TypeOK
        <3>2. /\ body[t[1]] \in bodyCut[t[1]] /\ begun \in bodyCut[taking.generation]
            BY <1>1, <2>2, <3>1 DEF BoundInv
        <3>3. CASE t[1] < taking.generation
            BY <1>1, <2>5, <3>1, <3>2, <3>3 DEF OrderInv
        <3>4. CASE taking.generation < t[1]
            BY <1>1, <2>5, <3>1, <3>2, <3>4 DEF OrderInv
        <3> QED BY <2>4, <3>1, <3>3, <3>4
    <2> QED BY <1>4, <2>1, <2>4, <2>5, <2>6
<1>11. CASE RecordFails
    <2>1. /\ at \in RecordPlaces /\ Over /\ record' = record
          /\ \A g \in Generations : g # taking.generation => body'[g] = body[g]
        BY <1>1, <1>11 DEF RecordFails, RecordPlaces, NameBody, TypeOK
    <2>2. body[taking.generation] = begun
        BY <1>1, <2>1 DEF CaptureInv, RecordPlaces
    <2>3. c[1] # taking.generation
        BY <1>1, <1>2, <1>4, <2>1, <2>2 DEF RecordPlaces
    <2> QED BY <1>2, <1>5, <2>1, <2>3
<1>12. ASSUME NEW g \in Generations, Prune(g)
       PROVE  \E d \in record' : body'[d[1]] = d[2] /\ d[2] # taking'.number
    <2>1. /\ at = "prune" /\ g \in doomed /\ taking' = taking /\ record' = record
          /\ \A h \in Generations : h # g => body'[h] = body[h]
        BY <1>1, <1>12 DEF Prune, NameBody, TypeOK
    <2>2. /\ taking.number = begun /\ Capsule \in Verified(record)
          /\ Capsule[2] = begun /\ Capsule[1] = taking.generation
        BY <1>1, <2>1, CaptureFacts DEF CaptureInv, Verified, Verifies
    <2>3. c # Capsule
        BY <1>1, <1>4, <2>1, <2>2
    <2>4. PICK t \in Verified(record) : t # Capsule /\ t[1] \notin doomed
        BY <1>1, <2>1, <2>3 DEF PruneInv
    <2>5. t \in record /\ body[t[1]] = t[2] /\ t[1] \in Generations /\ t[1] # g /\ t[1] \in Nat
        BY <1>1, <2>1, <2>4, CapsuleFacts DEF Verified, Verifies, TypeOK
    <2>6. t[2] # begun
        <3>1. taking.generation \in Nat
            BY <1>1, <2>1, CaptureFacts
        <3>2. CASE t[1] <= taking.generation
            BY <1>1, <2>2, <2>4, <3>2, VerifiedOrder
        <3>3. CASE taking.generation <= t[1]
            BY <1>1, <2>2, <2>4, <3>3, VerifiedOrder
        <3> QED BY <2>5, <3>1, <3>2, <3>3
    <2> QED BY <2>1, <2>2, <2>5, <2>6
<1>13. CASE PowerCut
    <2>1. /\ Over /\ record' \in recordCut
          /\ \A g \in Generations : body'[g] \in bodyCut[g]
        BY <1>1, <1>13 DEF PowerCut, Unsettled, BoundInv
    <2>2. body'[c[1]] = c[2] /\ c \in record'
        BY <1>2, <1>3, <2>1
    <2> QED BY <1>2, <1>5, <2>1, <2>2
<1>14. ASSUME NEW g \in Generations, Rots(g)
       PROVE  FALSE
    BY <1>1, <1>14 DEF Rots
<1> QED BY <1>6, <1>7, <1>8, <1>9, <1>10, <1>11, <1>12, <1>13, <1>14 DEF Next, Capture

\* A capture that returned and still proves out is never the price of one under way
\* (writeBackupIndex and pruneBackupRing).
THEOREM ProofSurvivesAlways ==
    ASSUME ~MayMisread
    PROVE  Spec => ProofSurvives
<1>1. RingInv /\ [Next]_vars =>
          [((\E c \in Verified(record) : c[2] <= acked) /\ rots' = rots)
              => (\E c \in Verified(record) : c[2] # taking.number)']_vars
    <2> SUFFICES ASSUME RingInv, Next, NEW c \in Verified(record), c[2] <= acked, rots' = rots
                 PROVE  (\E d \in Verified(record) : d[2] # taking.number)'
        OBVIOUS
    <2>1. \E d \in record' : body'[d[1]] = d[2] /\ d[2] # taking'.number
        BY SurvivesStep
    <2> QED BY <2>1 DEF Verified, Verifies
<1> QED BY <1>1, RingInvariant, PTL DEF Spec, ProofSurvives

-----------------------------------------------------------------------------
(* The promise *)

\* What a reader gets is the newest capture that proves out.
LEMMA ResolvedFacts ==
    TypeOK /\ BoundInv /\ OrderInv =>
        /\ Resolved \in Nat
        /\ \A c \in Verified(record) : c[2] <= Resolved
        /\ Resolved # 0 => \E c \in Verified(record) : c[2] = Resolved
<1> SUFFICES ASSUME TypeOK, BoundInv, OrderInv
             PROVE  /\ Resolved \in Nat
                    /\ \A c \in Verified(record) : c[2] <= Resolved
                    /\ Resolved # 0 => \E c \in Verified(record) : c[2] = Resolved
    OBVIOUS
<1> DEFINE V == Verified(record)
           t == CHOOSE c \in V : c \in Newest(V, 1)
<1>1. V \in SUBSET Capsules
    BY DEF Verified, TypeOK
<1>2. Resolved = IF V = {} THEN 0 ELSE t[2]
    BY DEF Resolved
<1>3. ASSUME V # {}
      PROVE  t \in V /\ t[2] \in Nat /\ \A d \in V : d[2] <= t[2]
    <2>1. \E c \in V : c \in Newest(V, 1)
        <3> HIDE DEF V
        <3> QED BY <1>1, <1>3, NewestHasTop
    <2>2. t \in V /\ t \in Newest(V, 1)
        BY <2>1
    <2> HIDE DEF t
    <2>3. \A d \in V : d[1] <= t[1]
        <3> HIDE DEF V
        <3> QED BY <1>1, <2>2, NewestIsTop
    <2>4. t[2] \in Nat
        BY <1>1, <2>2, CapsuleFacts
    <2> QED BY <2>2, <2>3, <2>4, VerifiedOrder
<1> HIDE DEF V, t
<1>4. CASE V = {}
    BY <1>2, <1>4 DEF V
<1>5. CASE V # {}
    BY <1>2, <1>3, <1>5 DEF V
<1> QED BY <1>4, <1>5

\* Without damage a reader gets the last capture that returned, or a later one.
LEMMA KeptResolved ==
    RingInv => /\ Resolved \in Nat /\ acked \in Nat /\ rots \in Nat
               /\ \A c \in Verified(record) : c[2] <= Resolved
               /\ Resolved # 0 => \E c \in Verified(record) : c[2] = Resolved
               /\ rots = 0 => acked <= Resolved
<1> SUFFICES ASSUME RingInv
             PROVE  /\ Resolved \in Nat /\ acked \in Nat /\ rots \in Nat
                    /\ \A c \in Verified(record) : c[2] <= Resolved
                    /\ Resolved # 0 => \E c \in Verified(record) : c[2] = Resolved
                    /\ rots = 0 => acked <= Resolved
    OBVIOUS
<1>1. /\ TypeOK /\ BoundInv /\ OrderInv /\ SettledInv /\ KeptInv
      /\ acked \in Nat /\ rots \in Nat
    BY TypeFacts DEF RingInv
<1>2. /\ Resolved \in Nat /\ \A c \in Verified(record) : c[2] <= Resolved
      /\ Resolved # 0 => \E c \in Verified(record) : c[2] = Resolved
    BY <1>1, ResolvedFacts
<1>3. ASSUME rots = 0, acked # 0
      PROVE  acked <= Resolved
    <2>1. PICK c \in record : c[2] >= acked /\ bodyCut[c[1]] = {c[2]}
        BY <1>1, <1>3 DEF KeptInv, SettledInv
    <2>2. c[1] \in Generations /\ c[2] \in Nat
        BY <1>1, CapsuleFacts DEF TypeOK
    <2>3. c \in Verified(record)
        BY <1>1, <2>1, <2>2 DEF BoundInv, Verified, Verifies
    <2> QED BY <1>1, <1>2, <2>1, <2>2, <2>3
<1> QED BY <1>1, <1>2, <1>3

LEMMA KeptResolvedNext ==
    RingInv' => (/\ Resolved \in Nat /\ acked \in Nat /\ rots \in Nat
                 /\ \A c \in Verified(record) : c[2] <= Resolved
                 /\ Resolved # 0 => \E c \in Verified(record) : c[2] = Resolved
                 /\ rots = 0 => acked <= Resolved)'
BY KeptResolved, PTL

\* A step of the ring is one of the promise, or changes nothing it speaks of.
LEMMA PromiseStep ==
    ASSUME RingInv, RingInv', [Next]_vars
    PROVE  [Promise!Next]_(Promise!vars)
<1>1. /\ TypeOK /\ BoundInv /\ OrderInv /\ CaptureInv
      /\ Resolved \in Nat /\ Resolved' \in Nat /\ rots \in Nat /\ acked \in Nat
      /\ begun \in Nat
      /\ rots' = 0 => acked' <= Resolved'
    BY KeptResolved, KeptResolvedNext, TypeFacts DEF RingInv
<1>2. ASSUME UNCHANGED <<acked, rots>>
      PROVE  [Promise!Next]_(Promise!vars)
    <2>1. CASE Resolved' > Resolved
        BY <1>2, <2>1 DEF Promise!Next, Promise!Publish
    <2>2. CASE Resolved' < Resolved
        <3>1. rots = 0 => Resolved' >= acked
            BY <1>1, <1>2
        <3> QED BY <1>2, <2>2, <3>1 DEF Promise!Next, Promise!TakeBack
    <2>3. CASE Resolved' = Resolved
        BY <1>2, <2>3 DEF Promise!vars
    <2> QED BY <1>1, <2>1, <2>2, <2>3
<1>3. CASE Return
    <2>1. /\ at = "prune" /\ acked' = begun /\ rots' = rots /\ Resolved' = Resolved
        BY <1>1, <1>3, CaptureFacts DEF Return, disk, Resolved, Verified, Verifies
    <2>2. begun <= Resolved /\ begun # 0 /\ acked < begun
        <3>1. Capsule \in Verified(record) /\ Capsule[2] = begun
            BY <1>1, <2>1, CaptureFacts DEF CaptureInv, Verified, Verifies
        <3> QED BY <1>1, <2>1, <3>1, KeptResolved, CaptureFacts, TypeFacts DEF CaptureInv
    <2>3. Resolved <= begun
        <3>1. PICK c \in Verified(record) : c[2] = Resolved
            BY <1>1, <2>2, KeptResolved
        <3>2. c[1] \in Generations /\ c[2] \in Captures /\ body[c[1]] = c[2]
            BY <1>1, <3>1, CapsuleFacts DEF Verified, Verifies, TypeOK
        <3> QED BY <1>1, <3>1, <3>2 DEF BoundInv, OrderInv
    <2>4. acked' > acked /\ acked' = Resolved
        BY <1>1, <2>1, <2>2, <2>3
    <2> QED BY <2>1, <2>4 DEF Promise!Next, Promise!Acknowledge
<1>4. ASSUME NEW g \in Generations, Rots(g)
      PROVE  [Promise!Next]_(Promise!vars)
    <2>1. /\ rots' = rots + 1 /\ acked' = acked /\ record' = record
          /\ body' = [body EXCEPT ![g] = Torn]
        BY <1>4 DEF Rots
    <2>2. Resolved' <= Resolved
        <3>1. CASE Resolved' = 0
            BY <1>1, <3>1
        <3>2. CASE Resolved' # 0
            <4>1. PICK c \in Verified(record)' : c[2] = Resolved'
                BY <3>2, KeptResolvedNext
            <4>2. /\ c \in record /\ body'[c[1]] = c[2] /\ c[1] \in Generations
                  /\ c[2] # Torn
                BY <1>1, <2>1, <4>1, CapsuleFacts, TypeFacts DEF Verified, Verifies, TypeOK
            <4>3. c \in Verified(record)
                BY <1>1, <2>1, <4>2 DEF Verified, Verifies, TypeOK
            <4> QED BY <4>1, <4>3, KeptResolved
        <3> QED BY <3>1, <3>2
    <2> QED BY <2>1, <2>2 DEF Promise!Next, Promise!Damage
<1>5. Next => \/ Return \/ \E g \in Generations : Rots(g)
              \/ UNCHANGED <<acked, rots>>
    BY DEF Next, Capture, Begin, StageBody, PublishBody, FlushBody, BodyFails, StageRecord,
           PublishRecord, RecordFails, FlushRecord, Prune, ProcessDies, PowerCut
<1>6. UNCHANGED vars => UNCHANGED <<acked, rots>>
    BY DEF vars
<1> QED BY <1>2, <1>3, <1>4, <1>5, <1>6

\* The ring implements its promise: whatever step fails, whenever the power goes, a reader
\* gets the newest capture that returned, or a later one, until the disk is damaged
\* (captureManifestBackup and resolveVerifiedBackup).
THEOREM KeepsPromiseAlways ==
    ASSUME ~MayMisread
    PROVE  Spec => KeepsPromise
<1>1. Init => Promise!Init
    BY DEF Init, Promise!Init, Resolved, Verified
<1>2. RingInv /\ RingInv' /\ [Next]_vars => [Promise!Next]_(Promise!vars)
    BY PromiseStep
<1> QED BY <1>1, <1>2, RingInvariant, PTL DEF Spec, KeepsPromise, Promise!Spec

=============================================================================
