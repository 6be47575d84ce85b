------------------------ MODULE RestoreJournalProofs ------------------------
(***************************************************************************)
(* Theorems about the write-ahead journal of a restore: however the        *)
(* commits of a restore, of its resolution and of other verbs interleave,  *)
(* wherever the application dies and whichever writes fail, the journal,   *)
(* the rows and what the person was told agree.                            *)
(***************************************************************************)
EXTENDS RestoreJournal, SequenceTheorems, TLAPS

\* Which launch it is, and what a launch that is not there has not.
AppInv ==
    /\ run = crashes + (IF app = "down" THEN 0 ELSE 1)
    /\ app = "down" => /\ ~resolved
                       /\ list = NoList
                       /\ \A s \in Sessions : work[s] = Idle
    /\ todo # {} => resolved /\ list.at = "judging"
    /\ list.at = "judging" => \A s \in Sessions : work[s].at # "failed"

\* A restore in flight has its attempt, of its row and of this launch, and one that has
\* its outcome on the row has it from this attempt or a later one.
WorkInv ==
    \A s \in Sessions :
        LET a == work[s].attempt IN
        /\ work[s].at = "idle" <=> a = 0
        /\ work[s].at # "idle" =>
               a \in 1..Len(journal) /\ journal[a].row = s /\ journal[a].run = run
        /\ work[s].at \in {"asked", "spawned", "failed"} => ~journal[a].noted
        /\ work[s].at \in {"mirroring", "failed"} => row[s] = "gone" \/ rec[s].at >= a

\* No attempt is of a launch to come, no record is of an attempt to come, and what is
\* open and of this launch is in flight, unless a write failed for it.
JournalInv ==
    /\ \A a \in 1..Len(journal) : journal[a].run <= run
    /\ \A s \in Sessions : rec[s].at <= Len(journal)
    /\ \A a \in 1..Len(journal) :
           (Open(a) /\ journal[a].run = run /\ app # "down" /\ a \notin spoiled)
               => work[journal[a].row].attempt = a

\* A resolution is of an attempt that is open until its close; what it leaves out was
\* there when it was judged, and is there still.
TodoInv ==
    \A r \in todo :
        LET a == r.attempt
            s == journal[a].row
        IN  /\ a \in 1..Len(journal)
            /\ \A other \in todo : other.attempt = a => other = r
            /\ r.owes # {}
            /\ "record" \in r.owes => "close" \in r.owes /\ row[s] # "gone"
            /\ "record" \notin r.owes => row[s] = "gone" \/ rec[s].at >= a
            /\ "close" \in r.owes <=> Open(a)
            /\ "tell" \in r.owes => told[a] = 0 /\ \A t \in list.seen : journal[t].row # s
            /\ r.verdict = "already" => rec[s].kind # "none"
            /\ (journal[a].run = run /\ a \notin spoiled) => work[s].attempt = a

\* A list that was taken lacks only what this launch has made since.
SeenInv ==
    list.at \in {"taken", "judging"} =>
        /\ list.seen \subseteq 1..Len(journal)
        /\ \A t \in alive : t \in list.seen \/ journal[t].run = run

\* Every attempt the boot found open is in the hands of the resolver.
LeftInv ==
    resolved => \A a \in 1..Len(journal) :
        Open(a) => \/ journal[a].run = run \/ a \in spoiled
                   \/ \E r \in todo : r.attempt = a /\ "close" \in r.owes

\* What was told of is closed, and told of once.
ToldInv == \A a \in Attempts : told[a] # 0 => told[a] = 1 /\ a \in 1..Len(journal) /\ ~Open(a)

\* NotDenied, for the launch that boots as well.
DenyInv ==
    \A a \in 1..Len(journal) :
        (journal[a].run = run /\ app # "down" /\ journal[a].noted /\ a \notin spoiled
             /\ work[journal[a].row].attempt # a)
            => journal[a].outcome # "failed"

IInv == /\ TypeOK /\ AppInv /\ WorkInv /\ JournalInv /\ TodoInv /\ SeenInv /\ LeftInv
        /\ ToldInv /\ ClosedIsRecorded /\ DenyInv

-----------------------------------------------------------------------------
(* Lemmas *)

Outcomes == {"restored", "failed", "interrupted"}
Works == [at : {"idle", "asked", "spawned", "created", "mirroring", "failed"},
          attempt : Attempts \cup {0}]

LEMMA Facts ==
    ASSUME TypeOK
    PROVE  /\ Len(journal) \in Nat /\ Len(journal) <= MaxAttempts
           /\ MaxAttempts \in Nat /\ MaxCrashes \in Nat /\ MaxFaults \in Nat
           /\ journal \in Seq(Entries) /\ 1..Len(journal) \subseteq Attempts
           /\ \A a \in 1..Len(journal) :
                  /\ journal[a] \in Entries /\ journal[a].row \in Sessions
                  /\ journal[a].run \in Nat /\ a \in Nat /\ a # 0
           /\ \A s \in Sessions : rec[s] \in Records /\ rec[s].at \in Nat
           /\ \A s \in Sessions : work[s] \in Works /\ work[s].attempt \in Nat
           /\ \A a \in Attempts : told[a] \in Nat
           /\ run \in Nat /\ crashes \in Nat /\ faults \in Nat
<1>1. /\ journal \in Seq(Entries) /\ Len(journal) \in Nat /\ Len(journal) <= MaxAttempts
      /\ MaxAttempts \in Nat /\ MaxCrashes \in Nat /\ MaxFaults \in Nat
    BY BoundsAssumption, LenProperties DEF TypeOK
<1>2. /\ 1..Len(journal) \subseteq Attempts
      /\ \A a \in 1..Len(journal) : a \in Nat /\ a # 0
      /\ \A a \in Attempts : a \in Nat
      /\ \A n \in Runs : n \in Nat
    BY <1>1 DEF Attempts, Runs
<1>3. \A a \in 1..Len(journal) :
          journal[a] \in Entries /\ journal[a].row \in Sessions /\ journal[a].run \in Nat
    <2>1. \A a \in 1..Len(journal) : journal[a] \in Entries
        BY <1>1, ElementOfSeq
    <2> QED BY <1>2, <2>1 DEF Entries
<1>4. \A s \in Sessions : rec[s] \in Records /\ rec[s].at \in Nat
    BY <1>1, <1>2 DEF TypeOK, Records
<1>5. \A s \in Sessions : work[s] \in Works /\ work[s].attempt \in Nat
    BY <1>1, <1>2 DEF TypeOK, Works
<1>6. run \in Nat /\ crashes \in Nat /\ faults \in Nat /\ \A a \in Attempts : told[a] \in Nat
    BY <1>1, <1>2 DEF TypeOK
<1> QED BY <1>1, <1>2, <1>3, <1>4, <1>5, <1>6

\* Closing an attempt changes its outcome and nothing else.
LEMMA ClosedFacts ==
    ASSUME TypeOK, NEW a \in 1..Len(journal), NEW out \in Outcomes
    PROVE  /\ Closed(a, out) \in Seq(Entries) /\ Len(Closed(a, out)) = Len(journal)
           /\ \A b \in 1..Len(journal) :
                  /\ Closed(a, out)[b].row = journal[b].row
                  /\ Closed(a, out)[b].run = journal[b].run
                  /\ Closed(a, out)[b].noted = journal[b].noted
                  /\ Closed(a, out)[b].outcome = IF b = a THEN out ELSE journal[b].outcome
<1> DEFINE e == [journal[a] EXCEPT !.outcome = out]
<1>1. /\ e \in Entries /\ e.row = journal[a].row /\ e.run = journal[a].run
      /\ e.noted = journal[a].noted /\ e.outcome = out
    BY Facts DEF Entries, Outcomes
<1>2. Closed(a, out) = [journal EXCEPT ![a] = e]
    BY DEF Closed
<1> HIDE DEF e
<1>3. /\ Closed(a, out) \in Seq(Entries) /\ Len(Closed(a, out)) = Len(journal)
      /\ \A b \in 1..Len(journal) : Closed(a, out)[b] = IF b = a THEN e ELSE journal[b]
    BY <1>1, <1>2, Facts, ExceptSeq
<1> QED BY <1>1, <1>3

\* A record is of the last attempt begun.
LEMMA RecordedFacts ==
    ASSUME TypeOK, Len(journal) # 0, NEW s \in Sessions, NEW kind \in Outcomes,
           NEW by \in {"restore", "resolver"}, Recorded(s, kind, by)
    PROVE  /\ rec' \in [Sessions -> Records]
           /\ rec'[s].at = Len(journal) /\ rec'[s].kind = kind
           /\ \A other \in Sessions : other # s => rec'[other] = rec[other]
<1> DEFINE r == [kind |-> kind, at |-> Len(journal), by |-> by]
<1>1. Len(journal) \in Attempts
    BY Facts DEF Attempts
<1>2. r \in Records /\ r.at = Len(journal) /\ r.kind = kind
    BY <1>1 DEF Records, Outcomes
<1>3. rec' = [rec EXCEPT ![s] = r] /\ rec \in [Sessions -> Records]
    BY DEF Recorded, TypeOK
<1> HIDE DEF r
<1> QED BY <1>2, <1>3

\* While nobody judges, nothing is left to be judged.
LEMMA QuietIdle ==
    ASSUME AppInv
    PROVE  /\ list.at # "judging" => todo = {}
           /\ Quiet => list.at # "judging" /\ todo = {}
BY DEF AppInv, Quiet

LEMMA InFlight ==
    ASSUME AppInv, NEW s \in Sessions, work[s].at # "idle"
    PROVE  app # "down"
BY DEF AppInv, Idle

\* A restore is over: its attempt is closed, or a write failed for it.
LEMMA WorkOver ==
    ASSUME IInv, NEW s \in Sessions, work[s].at # "idle", list.at # "judging",
           work' = [work EXCEPT ![s] = Idle],
           UNCHANGED <<row, rec, alive, app, run, resolver, refresh, told, crashes>>,
           spoiled' = spoiled \/ spoiled' = spoiled \cup {work[s].attempt},
           faults' \in 0..MaxFaults,
           \/ journal' = journal /\ work[s].attempt \in spoiled'
           \/ \E out \in Outcomes :
                  /\ journal' = Closed(work[s].attempt, out)
                  /\ \/ row[s] = "gone" \/ work[s].attempt \in spoiled'
                     \/ rec[s].at >= work[s].attempt
                  /\ out = "failed" => \/ ~journal[work[s].attempt].noted
                                       \/ work[s].attempt \in spoiled'
    PROVE  IInv'
<1> DEFINE a == work[s].attempt
<1>1. /\ TypeOK /\ AppInv /\ WorkInv /\ JournalInv /\ SeenInv /\ LeftInv /\ ToldInv
      /\ ClosedIsRecorded /\ DenyInv /\ todo = {}
    BY QuietIdle DEF IInv
<1>2. a \in 1..Len(journal) /\ journal[a].row = s /\ journal[a].run = run /\ a \in Attempts
    BY <1>1, Facts DEF WorkInv
<1>3. /\ journal' \in Seq(Entries) /\ Len(journal') = Len(journal)
      /\ \A b \in 1..Len(journal) :
             /\ journal'[b].row = journal[b].row /\ journal'[b].run = journal[b].run
             /\ journal'[b].noted = journal[b].noted
             /\ b # a => journal'[b].outcome = journal[b].outcome
      /\ \/ journal' = journal /\ a \in spoiled'
         \/ /\ journal'[a].outcome \in Outcomes
            /\ row[s] = "gone" \/ a \in spoiled' \/ rec[s].at >= a
            /\ journal'[a].outcome = "failed" => ~journal[a].noted \/ a \in spoiled'
    <2>1. CASE journal' = journal /\ a \in spoiled'
        BY <1>1, <2>1, Facts
    <2>2. ASSUME NEW out \in Outcomes, journal' = Closed(a, out),
                 row[s] = "gone" \/ a \in spoiled' \/ rec[s].at >= a,
                 out = "failed" => ~journal[a].noted \/ a \in spoiled'
          PROVE  /\ journal' \in Seq(Entries) /\ Len(journal') = Len(journal)
                 /\ \A b \in 1..Len(journal) :
                        /\ journal'[b].row = journal[b].row /\ journal'[b].run = journal[b].run
                        /\ journal'[b].noted = journal[b].noted
                        /\ b # a => journal'[b].outcome = journal[b].outcome
                 /\ journal'[a].outcome = out
        BY <1>1, <1>2, <2>2, ClosedFacts
    <2> QED BY <2>1, <2>2
<1>4. \A b \in 1..Len(journal) : Open(b)' => Open(b)
    BY <1>2, <1>3 DEF Open, Outcomes
<1>5. /\ work' \in [Sessions -> Works] /\ work'[s] = Idle
      /\ \A other \in Sessions : other # s => work'[other] = work[other]
      /\ Idle.at = "idle" /\ Idle.attempt = 0
    BY <1>1 DEF TypeOK, Works, Idle
<1>6. /\ UNCHANGED <<row, rec, alive, app, run, resolved, todo, spoken, due, list, told,
                     crashes>>
      /\ spoiled' \subseteq Attempts /\ \A b \in spoiled : b \in spoiled'
    BY <1>1, <1>2 DEF resolver, refresh, TypeOK
<1> HIDE DEF a
<1>7. TypeOK'
    <2>1. /\ Len(journal') <= MaxAttempts /\ alive' \subseteq 1..Len(journal')
        BY <1>1, <1>3, <1>6 DEF TypeOK
    <2> QED BY <1>1, <1>3, <1>5, <1>6, <2>1 DEF TypeOK, Works
<1>8. AppInv'
    BY <1>1, <1>5, <1>6 DEF AppInv
<1>9. WorkInv'
    BY <1>1, <1>3, <1>5, <1>6 DEF WorkInv
<1>10. JournalInv'
    <2>1. /\ \A b \in 1..Len(journal') : journal'[b].run <= run'
          /\ \A other \in Sessions : rec'[other].at <= Len(journal')
        BY <1>1, <1>3, <1>6 DEF JournalInv
    <2>2. ASSUME NEW b \in 1..Len(journal'), Open(b)', journal'[b].run = run', app' # "down",
                 b \notin spoiled'
          PROVE  work'[journal'[b].row].attempt = b
        <3>1. b # a
            BY <1>3, <2>2 DEF Open, Outcomes
        <3>2. b \in 1..Len(journal) /\ Open(b) /\ journal[b].run = run /\ app # "down"
              /\ b \notin spoiled /\ journal[b].row \in Sessions
            BY <1>1, <1>3, <1>4, <1>6, <2>2, Facts
        <3>3. work[journal[b].row].attempt = b
            BY <1>1, <3>2 DEF JournalInv
        <3>4. journal[b].row # s
            BY <3>1, <3>3 DEF a
        <3> QED BY <1>3, <1>5, <3>2, <3>3, <3>4
    <2> QED BY <2>1, <2>2 DEF JournalInv
<1>11. TodoInv' /\ SeenInv'
    BY <1>1, <1>3, <1>6, Facts DEF TodoInv, SeenInv, TypeOK
<1>12. LeftInv' /\ ToldInv'
    BY <1>1, <1>3, <1>4, <1>6 DEF LeftInv, ToldInv
<1>13. ClosedIsRecorded'
    BY <1>1, <1>2, <1>3, <1>6 DEF ClosedIsRecorded, Open
<1>14. DenyInv'
    <2> SUFFICES ASSUME NEW b \in 1..Len(journal'), journal'[b].run = run', app' # "down",
                        journal'[b].noted, b \notin spoiled',
                        work'[journal'[b].row].attempt # b
                 PROVE  journal'[b].outcome # "failed"
        BY DEF DenyInv
    <2>1. b \in 1..Len(journal) /\ journal[b].run = run /\ app # "down" /\ journal[b].noted
          /\ b \notin spoiled /\ journal[b].row \in Sessions
        BY <1>1, <1>3, <1>6, Facts
    <2>2. CASE b = a
        BY <1>3, <2>1, <2>2
    <2>3. CASE b # a
        <3>1. work[journal[b].row].attempt # b
            BY <1>3, <1>5, <2>1, <2>3 DEF a
        <3> QED BY <1>1, <1>3, <2>1, <2>3, <3>1 DEF DenyInv
    <2> QED BY <2>2, <2>3
<1> QED BY <1>7, <1>8, <1>9, <1>10, <1>11, <1>12, <1>13, <1>14 DEF IInv

-----------------------------------------------------------------------------
(* A restore *)

LEMMA RestoreSessionKeeps ==
    ASSUME IInv, NEW s \in Sessions, RestoreSession(s)
    PROVE  IInv'
<1> DEFINE n == Len(journal)
           e == [row |-> s, run |-> run, noted |-> FALSE, outcome |-> "open"]
           w == [at |-> "asked", attempt |-> n + 1]
<1>1. /\ TypeOK /\ AppInv /\ WorkInv /\ JournalInv /\ SeenInv /\ LeftInv /\ ToldInv
      /\ ClosedIsRecorded /\ DenyInv /\ todo = {} /\ list.at # "judging"
      /\ work[s].at = "idle" /\ app = "up" /\ n < MaxAttempts /\ n \in Nat
    BY QuietIdle, Facts DEF IInv, RestoreSession
<1>2. /\ journal' = Append(journal, e) /\ work' = [work EXCEPT ![s] = w]
      /\ UNCHANGED <<row, rec, alive, app, run, resolved, todo, spoken, due, list, told,
                     spoiled, crashes, faults>>
    BY DEF RestoreSession, resolver, refresh, history
<1>3. e \in Entries /\ e.row = s /\ e.run = run /\ ~e.noted /\ e.outcome = "open"
    BY <1>1 DEF Entries, TypeOK
<1>4. w \in Works /\ w.at = "asked" /\ w.attempt = n + 1 /\ n + 1 \in Attempts
    BY <1>1, Facts DEF Works, Attempts
<1> HIDE DEF e, w
<1>5. /\ journal' \in Seq(Entries) /\ Len(journal') = n + 1 /\ journal'[n + 1] = e
      /\ \A b \in 1..n : journal'[b] = journal[b]
    BY <1>1, <1>2, <1>3, Facts, AppendProperties
<1> HIDE DEF n
<1>6. /\ work' \in [Sessions -> Works] /\ work'[s] = w
      /\ \A other \in Sessions : other # s => work'[other] = work[other]
    BY <1>1, <1>2, <1>4 DEF TypeOK, Works
<1>7. 1..(n + 1) = 1..n \cup {n + 1} /\ n + 1 \notin 1..n
    BY <1>1
<1>8. TypeOK'
    <2>1. /\ Len(journal') <= MaxAttempts /\ alive' \subseteq 1..Len(journal')
        BY <1>1, <1>2, <1>5, <1>7, Facts DEF TypeOK, n
    <2> QED BY <1>1, <1>2, <1>5, <1>6, <2>1 DEF TypeOK, Works
<1>9. AppInv'
    BY <1>1, <1>2, <1>4, <1>6 DEF AppInv
<1>10. WorkInv'
    <2>1. ASSUME NEW other \in Sessions, other # s
          PROVE  LET a == work'[other].attempt IN
                 /\ work'[other].at = "idle" <=> a = 0
                 /\ work'[other].at # "idle" =>
                        /\ a \in 1..Len(journal')
                        /\ journal'[a].row = other /\ journal'[a].run = run'
                 /\ work'[other].at \in {"asked", "spawned", "failed"} => ~journal'[a].noted
                 /\ work'[other].at \in {"mirroring", "failed"}
                        => row'[other] = "gone" \/ rec'[other].at >= a
        <3>1. work'[other] = work[other]
            BY <1>6, <2>1
        <3>2. work[other].at # "idle" => work[other].attempt \in 1..n
            BY <1>1 DEF WorkInv, n
        <3> QED BY <1>1, <1>2, <1>5, <1>7, <3>1, <3>2 DEF WorkInv
    <2>2. /\ work'[s].at = "asked" /\ work'[s].attempt = n + 1 /\ n + 1 # 0
          /\ n + 1 \in 1..Len(journal') /\ journal'[n + 1].row = s
          /\ journal'[n + 1].run = run' /\ ~journal'[n + 1].noted
        BY <1>1, <1>2, <1>3, <1>4, <1>5, <1>6
    <2> QED BY <2>1, <2>2 DEF WorkInv
<1>11. JournalInv'
    <2>1. \A b \in 1..Len(journal') : journal'[b].run <= run'
        BY <1>1, <1>2, <1>3, <1>5, <1>7, Facts DEF JournalInv, n
    <2>2. \A other \in Sessions : rec'[other].at <= Len(journal')
        BY <1>1, <1>2, <1>5, Facts DEF JournalInv, n
    <2>3. ASSUME NEW b \in 1..Len(journal'), Open(b)', journal'[b].run = run', app' # "down",
                 b \notin spoiled'
          PROVE  work'[journal'[b].row].attempt = b
        <3>1. CASE b = n + 1
            BY <1>3, <1>4, <1>5, <1>6, <3>1
        <3>2. CASE b \in 1..n
            <4>1. work[journal[b].row].attempt = b
                BY <1>1, <1>2, <1>5, <2>3, <3>2 DEF JournalInv, Open, n
            <4>2. journal[b].row # s /\ journal[b].row \in Sessions
                BY <1>1, <3>2, <4>1, Facts DEF WorkInv, n
            <4> QED BY <1>5, <1>6, <3>2, <4>1, <4>2
        <3> QED BY <1>5, <1>7, <3>1, <3>2
    <2> QED BY <2>1, <2>2, <2>3 DEF JournalInv
<1>12. TodoInv'
    BY <1>1, <1>2 DEF TodoInv
<1>13. SeenInv'
    BY <1>1, <1>2, <1>5, <1>7 DEF SeenInv, TypeOK, n
<1>14. LeftInv'
    BY <1>1, <1>2, <1>3, <1>5, <1>7 DEF LeftInv, Open, n
<1>15. ToldInv'
    BY <1>1, <1>2, <1>5, <1>7 DEF ToldInv, Open, n
<1>16. ClosedIsRecorded'
    BY <1>1, <1>2, <1>3, <1>5, <1>7 DEF ClosedIsRecorded, Open, n
<1>17. DenyInv'
    <2> SUFFICES ASSUME NEW b \in 1..Len(journal'), journal'[b].run = run', app' # "down",
                        journal'[b].noted, b \notin spoiled',
                        work'[journal'[b].row].attempt # b
                 PROVE  journal'[b].outcome # "failed"
        BY DEF DenyInv
    <2>1. b \in 1..n /\ journal'[b] = journal[b] /\ journal[b].row \in Sessions
        BY <1>1, <1>3, <1>5, <1>7, Facts DEF n
    <2>2. work[journal[b].row].attempt # b
        BY <1>1, <1>6, <2>1 DEF WorkInv
    <2> QED BY <1>1, <1>2, <2>1, <2>2 DEF DenyInv, n
<1> QED BY <1>8, <1>9, <1>10, <1>11, <1>12, <1>13, <1>14, <1>15, <1>16, <1>17 DEF IInv

LEMMA SpawnKeeps ==
    ASSUME IInv, NEW s \in Sessions, Spawn(s)
    PROVE  IInv'
<1> DEFINE a == work[s].attempt
           w == [work[s] EXCEPT !.at = "spawned"]
<1>1. /\ TypeOK /\ AppInv /\ WorkInv /\ JournalInv /\ TodoInv /\ SeenInv /\ LeftInv
      /\ ToldInv /\ ClosedIsRecorded /\ DenyInv /\ work[s].at = "asked"
    BY DEF IInv, Spawn
<1>2. a \in 1..Len(journal) /\ journal[a].row = s /\ journal[a].run = run /\ a # 0
    BY <1>1, Facts DEF WorkInv
<1>3. /\ alive' = alive \cup {a} /\ work' = [work EXCEPT ![s] = w]
      /\ UNCHANGED <<row, rec, journal, app, run, resolved, todo, spoken, due, list, told,
                     spoiled, crashes, faults>>
    BY DEF Spawn, durable, resolver, refresh, history
<1>4. w \in Works /\ w.at = "spawned" /\ w.attempt = a
    BY <1>1, Facts DEF Works
<1> HIDE DEF w, a
<1>5. /\ work' \in [Sessions -> Works] /\ work'[s] = w
      /\ \A other \in Sessions : other # s => work'[other] = work[other]
      /\ \A other \in Sessions : work'[other].attempt = work[other].attempt
    BY <1>1, <1>3, <1>4 DEF TypeOK, Works, a
<1>6. TypeOK'
    BY <1>1, <1>2, <1>3, <1>5 DEF TypeOK, Works
<1>7. AppInv'
    BY <1>1, <1>3, <1>4, <1>5, InFlight DEF AppInv
<1>8. WorkInv'
    BY <1>1, <1>2, <1>3, <1>4, <1>5 DEF WorkInv, a
<1>9. JournalInv'
    BY <1>1, <1>3, <1>5, Facts DEF JournalInv, Open
<1>10. TodoInv'
    BY <1>1, <1>3, <1>5, Facts DEF TodoInv, Open
<1>11. SeenInv'
    BY <1>1, <1>2, <1>3 DEF SeenInv
<1>12. LeftInv' /\ ToldInv' /\ ClosedIsRecorded'
    BY <1>1, <1>3 DEF LeftInv, ToldInv, ClosedIsRecorded, Open
<1>13. DenyInv'
    BY <1>1, <1>3, <1>5, Facts DEF DenyInv
<1> QED BY <1>6, <1>7, <1>8, <1>9, <1>10, <1>11, <1>12, <1>13 DEF IInv

\* The $-id is noted in the journal, or the note is lost.
LEMMA NoteTmuxIdKeeps ==
    ASSUME IInv, NEW s \in Sessions, NoteTmuxId(s)
    PROVE  IInv'
<1> DEFINE a == work[s].attempt
           w == [work[s] EXCEPT !.at = "created"]
           e == [journal[a] EXCEPT !.noted = TRUE]
<1>1. /\ TypeOK /\ AppInv /\ WorkInv /\ JournalInv /\ SeenInv /\ LeftInv /\ ToldInv
      /\ ClosedIsRecorded /\ DenyInv /\ todo = {} /\ list.at # "judging"
      /\ work[s].at = "spawned"
    BY QuietIdle DEF IInv, NoteTmuxId
<1>2. a \in 1..Len(journal) /\ journal[a].row = s /\ journal[a].run = run /\ a # 0
      /\ a \in Attempts
    BY <1>1, Facts DEF WorkInv
<1>3. /\ work' = [work EXCEPT ![s] = w]
      /\ \/ journal' = [journal EXCEPT ![a] = e] /\ UNCHANGED <<spoiled, faults>>
         \/ journal' = journal /\ spoiled' = spoiled \cup {a} /\ faults' \in 0..MaxFaults
      /\ UNCHANGED <<row, rec, alive, app, run, resolved, todo, spoken, due, list, told,
                     crashes>>
    <2>1. /\ work' = [work EXCEPT ![s] = w]
          /\ UNCHANGED <<row, rec, alive, app, run, resolved, todo, spoken, due, list, told,
                         crashes>>
          /\ \/ journal' = [journal EXCEPT ![a] = e] /\ NoFault
             \/ journal' = journal /\ Faulty(a, 1)
        BY DEF NoteTmuxId, resolver, refresh
    <2>2. Faulty(a, 1) => spoiled' = spoiled \cup {a} /\ faults' \in 0..MaxFaults
        BY <1>1, Facts DEF Faulty
    <2> QED BY <2>1, <2>2 DEF NoFault
<1>4. w \in Works /\ w.at = "created" /\ w.attempt = a
    BY <1>1, Facts DEF Works
<1>5. /\ e \in Entries /\ e.row = journal[a].row /\ e.run = journal[a].run
      /\ e.outcome = journal[a].outcome
    BY <1>1, <1>2, Facts DEF Entries
<1> HIDE DEF w, a, e
<1>6. /\ journal' \in Seq(Entries) /\ Len(journal') = Len(journal)
      /\ \A b \in 1..Len(journal) :
             /\ journal'[b].row = journal[b].row /\ journal'[b].run = journal[b].run
             /\ journal'[b].outcome = journal[b].outcome
             /\ b # a => journal'[b].noted = journal[b].noted
    <2>1. CASE journal' = journal
        BY <1>1, <2>1, Facts
    <2>2. CASE journal' = [journal EXCEPT ![a] = e]
        <3>1. journal \in Seq(Entries)
            BY <1>1, Facts
        <3>2. /\ journal' \in Seq(Entries) /\ Len(journal') = Len(journal)
              /\ \A b \in 1..Len(journal) : journal'[b] = IF b = a THEN e ELSE journal[b]
            BY <1>2, <1>5, <2>2, <3>1, ExceptSeq
        <3> QED BY <1>5, <3>2
    <2> QED BY <1>3, <2>1, <2>2
<1>7. /\ work' \in [Sessions -> Works] /\ work'[s] = w
      /\ \A other \in Sessions : other # s => work'[other] = work[other]
      /\ \A other \in Sessions : work'[other].attempt = work[other].attempt
    BY <1>1, <1>3, <1>4 DEF TypeOK, Works, a
<1>8. TypeOK'
    <2>1. spoiled' \subseteq Attempts /\ faults' \in 0..MaxFaults
        BY <1>1, <1>2, <1>3 DEF TypeOK
    <2> QED BY <1>1, <1>3, <1>6, <1>7, <2>1 DEF TypeOK, Works
<1>9. AppInv'
    BY <1>1, <1>3, <1>4, <1>7, InFlight DEF AppInv
<1>10. WorkInv'
    <2>1. \A other \in Sessions : work[other].attempt = a => other = s \/ work[other].at = "idle"
        BY <1>1, <1>2 DEF WorkInv
    <2> QED BY <1>1, <1>2, <1>3, <1>4, <1>6, <1>7, <2>1 DEF WorkInv
<1>11. \A b \in 1..Len(journal) : Open(b)' <=> Open(b)
    BY <1>6 DEF Open
<1>12. JournalInv'
    <2>1. \A b : b \notin spoiled' => b \notin spoiled
        BY <1>3
    <2>2. \A b \in 1..Len(journal) : journal[b].row \in Sessions
        BY <1>1, Facts
    <2> QED BY <1>1, <1>3, <1>6, <1>7, <1>11, <2>1, <2>2 DEF JournalInv
<1>13. TodoInv' /\ SeenInv'
    BY <1>1, <1>3, <1>6 DEF TodoInv, SeenInv, TypeOK
<1>14. LeftInv' /\ ToldInv' /\ ClosedIsRecorded'
    BY <1>1, <1>3, <1>6, <1>11 DEF LeftInv, ToldInv, ClosedIsRecorded
<1>15. DenyInv'
    <2>1. work[s].attempt = a /\ \A b \in 1..Len(journal) : journal[b].row \in Sessions
        BY <1>1, Facts DEF a
    <2> QED BY <1>1, <1>2, <1>3, <1>6, <1>7, <2>1 DEF DenyInv
<1> QED BY <1>8, <1>9, <1>10, <1>12, <1>13, <1>14, <1>15 DEF IInv

\* The outcome of a restore is on its row, and its attempt has yet to be closed.
LEMMA OutcomeKeeps ==
    ASSUME IInv, NEW s \in Sessions, Quiet, work[s].at # "idle", row[s] # "gone",
           NEW kind \in Outcomes, Recorded(s, kind, "restore"),
           NEW at \in {"mirroring", "failed"}, work' = [work EXCEPT ![s].at = at],
           at = "failed" => work[s].at \in {"asked", "spawned"},
           row' = row \/ row' = [row EXCEPT ![s] = "live"],
           list' = list \/ list' = [list EXCEPT !.newer = @ \cup {s}],
           UNCHANGED <<journal, alive, app, run, resolved, todo, spoken, due, told, spoiled,
                       crashes, faults>>
    PROVE  IInv'
<1> DEFINE a == work[s].attempt
           w == [work[s] EXCEPT !.at = at]
<1>1. /\ TypeOK /\ AppInv /\ WorkInv /\ JournalInv /\ SeenInv /\ LeftInv /\ ToldInv
      /\ ClosedIsRecorded /\ DenyInv /\ todo = {} /\ list.at # "judging"
    BY QuietIdle DEF IInv
<1>2. a \in 1..Len(journal) /\ journal[a].row = s /\ journal[a].run = run /\ a # 0
      /\ Len(journal) # 0 /\ Len(journal) \in Nat /\ a <= Len(journal)
    BY <1>1, Facts DEF WorkInv
<1>3. w \in Works /\ w.at = at /\ w.attempt = a
    BY <1>1, Facts DEF Works
<1> HIDE DEF w, a
<1>4. /\ work' \in [Sessions -> Works] /\ work'[s] = w
      /\ \A other \in Sessions : other # s => work'[other] = work[other]
      /\ \A other \in Sessions : work'[other].attempt = work[other].attempt
    BY <1>1, <1>3 DEF TypeOK, Works, a, w
<1>5. /\ rec' \in [Sessions -> Records] /\ rec'[s].at = Len(journal)
      /\ \A other \in Sessions : other # s => rec'[other] = rec[other]
    BY <1>1, <1>2, RecordedFacts
<1>6. /\ row' \in [Sessions -> {"gone", "restorable", "live", "removed"}]
      /\ \A other \in Sessions : row'[other] = "gone" <=> row[other] = "gone"
    BY <1>1 DEF TypeOK
<1>7. list' \in Lists /\ list'.at = list.at /\ list'.seen = list.seen
    BY <1>1 DEF TypeOK, Lists
<1>8. \A other \in Sessions : rec'[other].at >= rec[other].at /\ rec'[other].at <= Len(journal)
    BY <1>1, <1>2, <1>5, Facts DEF JournalInv
<1>9. TypeOK'
    BY <1>1, <1>4, <1>5, <1>6, <1>7 DEF TypeOK, Works
<1>10. AppInv'
    <2>1. app # "down"
        BY <1>1 DEF AppInv, Idle
    <2> QED BY <1>1, <1>4, <1>7, <2>1 DEF AppInv
<1>11. WorkInv'
    <2>1. at = "failed" => ~journal[a].noted
        BY <1>1 DEF WorkInv, a
    <2>2. \A other \in Sessions : other # s =>
              (row'[other] = "gone" <=> row[other] = "gone") /\ rec'[other] = rec[other]
              /\ work'[other] = work[other]
        BY <1>4, <1>5, <1>6
    <2> QED BY <1>1, <1>2, <1>3, <1>4, <1>5, <2>1, <2>2 DEF WorkInv
<1>12. JournalInv'
    BY <1>1, <1>4, <1>8, Facts DEF JournalInv, Open
<1>13. TodoInv' /\ SeenInv'
    BY <1>1, <1>7 DEF TodoInv, SeenInv
<1>14. LeftInv' /\ ToldInv'
    BY <1>1 DEF LeftInv, ToldInv, Open
<1>15. ClosedIsRecorded'
    <2> SUFFICES ASSUME NEW b \in 1..Len(journal), ~Open(b), b \notin spoiled,
                        row'[journal[b].row] # "gone"
                 PROVE  rec'[journal[b].row].at >= b
        BY DEF ClosedIsRecorded, Open
    <2>1. journal[b].row \in Sessions /\ b \in Nat
        BY <1>1, Facts
    <2>2. rec[journal[b].row].at >= b
        BY <1>1, <1>6, <2>1 DEF ClosedIsRecorded
    <2>3. rec[journal[b].row].at \in Nat /\ rec'[journal[b].row].at >= rec[journal[b].row].at
        BY <1>1, <1>8, <2>1, Facts
    <2>4. rec'[journal[b].row].at \in Nat
        BY <1>2, <1>5, <2>1, <2>3
    <2> QED BY <2>1, <2>2, <2>3, <2>4
<1>16. DenyInv'
    BY <1>1, <1>4, Facts DEF DenyInv
<1> QED BY <1>9, <1>10, <1>11, <1>12, <1>13, <1>14, <1>15, <1>16 DEF IInv

\* The ways out of a restore: what is closed, and what failed.
LEMMA InterruptedOver ==
    ASSUME IInv, NEW s \in Sessions, work[s].at # "idle", list.at # "judging",
           NEW n \in Nat, Interrupted(s, n), n = 0 => row[s] = "gone",
           UNCHANGED <<row, rec, alive, app, run, resolver, refresh, told, crashes>>
    PROVE  IInv'
<1> DEFINE a == work[s].attempt
<1>1. TypeOK /\ faults \in Nat /\ MaxFaults \in Nat
    BY Facts DEF IInv
<1>2. \A k \in Nat : Faulty(a, k) => /\ spoiled' = spoiled \cup {a}
                                     /\ faults' \in 0..MaxFaults
    BY <1>1 DEF Faulty
<1>3. NoFault => spoiled' = spoiled /\ faults' \in 0..MaxFaults
    BY <1>1 DEF NoFault, TypeOK
<1>4. work' = [work EXCEPT ![s] = Idle]
      /\ \/ /\ journal' = Closed(a, "interrupted")
            /\ IF n = 0 THEN NoFault ELSE Faulty(a, n)
         \/ Faulty(a, n + 1) /\ journal' = journal
    BY DEF Interrupted
<1>5. CASE /\ journal' = Closed(a, "interrupted")
           /\ IF n = 0 THEN NoFault ELSE Faulty(a, n)
    <2>1. row[s] = "gone" \/ a \in spoiled'
        BY <1>2, <1>5
    <2>2. (spoiled' = spoiled \/ spoiled' = spoiled \cup {a}) /\ faults' \in 0..MaxFaults
        BY <1>2, <1>3, <1>5
    <2>3. "interrupted" \in Outcomes
        BY DEF Outcomes
    <2> QED BY <1>4, <1>5, <2>1, <2>2, <2>3, WorkOver
<1>6. CASE Faulty(a, n + 1) /\ journal' = journal
    <2>1. spoiled' = spoiled \cup {a} /\ faults' \in 0..MaxFaults
        BY <1>2, <1>6
    <2> QED BY <1>4, <1>6, <2>1, WorkOver
<1> QED BY <1>4, <1>5, <1>6

\* The attempt is closed with the outcome that the row has.
LEMMA ClosedOver ==
    ASSUME IInv, NEW s \in Sessions, work[s].at \in {"mirroring", "failed"},
           list.at # "judging", NEW out \in {"restored", "failed"},
           out = "failed" => work[s].at = "failed",
           journal' = Closed(work[s].attempt, out),
           work' = [work EXCEPT ![s] = Idle], NoFault,
           UNCHANGED <<row, rec, alive, app, run, resolver, refresh, told, crashes>>
    PROVE  IInv'
<1>1. row[s] = "gone" \/ rec[s].at >= work[s].attempt
    BY DEF IInv, WorkInv
<1>2. out = "failed" => ~journal[work[s].attempt].noted
    BY DEF IInv, WorkInv
<1>3. spoiled' = spoiled /\ faults' \in 0..MaxFaults
    BY DEF NoFault, IInv, TypeOK
<1>4. out \in Outcomes /\ work[s].at # "idle"
    BY DEF Outcomes
<1> QED BY <1>1, <1>2, <1>3, <1>4, WorkOver

LEMMA RestoringKeeps ==
    ASSUME IInv, NEW s \in Sessions, Restoring(s)
    PROVE  IInv'
<1>1. Quiet => list.at # "judging"
    BY DEF Quiet
<1>2. CASE CreateFails(s)
    <2>1. /\ Quiet /\ work[s].at \in {"asked", "spawned"}
          /\ UNCHANGED <<row, alive, app, run, resolver, refresh, told, crashes>>
          /\ \/ /\ row[s] # "gone" /\ Recorded(s, "failed", "restore")
                /\ work' = [work EXCEPT ![s].at = "failed"] /\ NoFault
                /\ journal' = journal
             \/ Interrupted(s, IF row[s] = "gone" THEN 0 ELSE 1) /\ rec' = rec
        BY <1>2 DEF CreateFails
    <2>2. CASE /\ row[s] # "gone" /\ Recorded(s, "failed", "restore")
               /\ work' = [work EXCEPT ![s].at = "failed"] /\ NoFault
               /\ journal' = journal
        <3>1. "failed" \in Outcomes /\ work[s].at # "idle"
            BY <2>1 DEF Outcomes
        <3> QED BY <2>1, <2>2, <3>1, OutcomeKeeps DEF resolver, refresh, NoFault
    <2>3. CASE Interrupted(s, IF row[s] = "gone" THEN 0 ELSE 1) /\ rec' = rec
        <3> DEFINE n == IF row[s] = "gone" THEN 0 ELSE 1
        <3>1. n \in Nat /\ (n = 0 => row[s] = "gone") /\ Interrupted(s, n)
            BY <2>3
        <3> HIDE DEF n
        <3> QED BY <1>1, <2>1, <2>3, <3>1, InterruptedOver
    <2> QED BY <2>1, <2>2, <2>3
<1>3. CASE SetRestoreResult(s)
    <2>1. /\ Quiet /\ work[s].at = "created"
          /\ UNCHANGED <<alive, app, run, resolver, due, told, crashes>>
          /\ \/ /\ row[s] # "gone" /\ row' = [row EXCEPT ![s] = "live"]
                /\ Recorded(s, "restored", "restore")
                /\ list' = list \/ list' = [list EXCEPT !.newer = @ \cup {s}]
                /\ work' = [work EXCEPT ![s].at = "mirroring"] /\ NoFault
                /\ journal' = journal
             \/ /\ Interrupted(s, IF row[s] = "gone" THEN 0 ELSE 1)
                /\ UNCHANGED <<row, rec, list>>
        BY <1>3 DEF SetRestoreResult
    <2>2. CASE /\ row[s] # "gone" /\ row' = [row EXCEPT ![s] = "live"]
               /\ Recorded(s, "restored", "restore")
               /\ list' = list \/ list' = [list EXCEPT !.newer = @ \cup {s}]
               /\ work' = [work EXCEPT ![s].at = "mirroring"] /\ NoFault
               /\ journal' = journal
        <3>1. "restored" \in Outcomes /\ work[s].at # "idle"
            BY <2>1 DEF Outcomes
        <3> QED BY <2>1, <2>2, <3>1, OutcomeKeeps DEF resolver, NoFault
    <2>3. CASE /\ Interrupted(s, IF row[s] = "gone" THEN 0 ELSE 1)
               /\ UNCHANGED <<row, rec, list>>
        <3> DEFINE n == IF row[s] = "gone" THEN 0 ELSE 1
        <3>1. n \in Nat /\ (n = 0 => row[s] = "gone") /\ Interrupted(s, n)
            BY <2>3
        <3> HIDE DEF n
        <3> QED BY <1>1, <2>1, <2>3, <3>1, InterruptedOver DEF refresh
    <2> QED BY <2>1, <2>2, <2>3
<1>4. CASE CloseFailed(s)
    <2>1. list.at # "judging"
        BY <1>4 DEF CloseFailed, IInv, AppInv
    <2>2. CASE Interrupted(s, 1)
        BY <1>4, <2>1, <2>2, InterruptedOver DEF CloseFailed
    <2>3. CASE journal' = Closed(work[s].attempt, "failed")
               /\ work' = [work EXCEPT ![s] = Idle] /\ NoFault
        BY <1>4, <2>1, <2>3, ClosedOver DEF CloseFailed
    <2> QED BY <1>4, <2>2, <2>3 DEF CloseFailed
<1>5. CASE FinishRestore(s)
    <2>1. list.at # "judging"
        BY <1>1, <1>5 DEF FinishRestore
    <2>2. CASE Interrupted(s, 1)
        BY <1>5, <2>1, <2>2, InterruptedOver DEF FinishRestore
    <2>3. CASE journal' = Closed(work[s].attempt, "restored")
               /\ work' = [work EXCEPT ![s] = Idle] /\ NoFault
        BY <1>5, <2>1, <2>3, ClosedOver DEF FinishRestore
    <2> QED BY <1>5, <2>2, <2>3 DEF FinishRestore
<1> QED BY <1>2, <1>3, <1>4, <1>5, SpawnKeeps, NoteTmuxIdKeeps DEF Restoring

-----------------------------------------------------------------------------
(* The rows, the refresh, tmux and the application *)

\* Other verbs and reconcile write rows, none of which comes back once it is gone, and
\* a refresh begins or ends, while nobody judges.
LEMMA RowsKeep ==
    ASSUME IInv, list.at # "judging", app # "down", app' \in {"booting", "up"},
           row' \in [Sessions -> {"gone", "restorable", "live", "removed"}],
           \A s \in Sessions : row[s] = "gone" => row'[s] = "gone",
           rec' \in [Sessions -> Records],
           \A s \in Sessions : rec'[s] = rec[s] \/ (row'[s] = "gone" /\ rec'[s].at = 0),
           due' \in BOOLEAN, list' \in Lists, list' = list \/ list'.at \in {"none", "asked"},
           UNCHANGED <<journal, alive, run, resolver, work, history, crashes, faults>>
    PROVE  IInv'
<1>1. /\ TypeOK /\ AppInv /\ WorkInv /\ JournalInv /\ SeenInv /\ LeftInv /\ ToldInv
      /\ ClosedIsRecorded /\ DenyInv /\ todo = {} /\ Len(journal) \in Nat
    BY QuietIdle, Facts DEF IInv
<1>2. UNCHANGED <<journal, alive, run, resolved, todo, spoken, work, told, spoiled, crashes,
                  faults>>
    BY DEF resolver, history
<1>3. TypeOK'
    BY <1>1, <1>2 DEF TypeOK
<1>4. AppInv'
    BY <1>1, <1>2 DEF AppInv
<1>5. WorkInv'
    BY <1>1, <1>2 DEF WorkInv
<1>6. JournalInv'
    <2>1. \A s \in Sessions : rec'[s].at <= Len(journal)
        BY <1>1 DEF JournalInv
    <2> QED BY <1>1, <1>2, <2>1 DEF JournalInv, Open
<1>7. TodoInv' /\ SeenInv'
    BY <1>1, <1>2 DEF TodoInv, SeenInv
<1>8. LeftInv' /\ ToldInv' /\ DenyInv'
    BY <1>1, <1>2 DEF LeftInv, ToldInv, DenyInv, Open
<1>9. ClosedIsRecorded'
    <2>1. \A a \in 1..Len(journal) : journal[a].row \in Sessions
        BY <1>1, Facts
    <2> QED BY <1>1, <1>2, <2>1 DEF ClosedIsRecorded, Open
<1> QED BY <1>3, <1>4, <1>5, <1>6, <1>7, <1>8, <1>9 DEF IInv

\* A refresh is asked for, or nothing happens.
LEMMA DueKeeps ==
    ASSUME IInv, due' \in BOOLEAN,
           UNCHANGED <<durable, alive, app, run, resolver, work, list, history, crashes,
                       faults>>
    PROVE  IInv'
<1>1. /\ TypeOK /\ AppInv /\ WorkInv /\ JournalInv /\ TodoInv /\ SeenInv /\ LeftInv
      /\ ToldInv /\ ClosedIsRecorded /\ DenyInv
    BY DEF IInv
<1>2. UNCHANGED <<row, rec, journal, alive, app, run, resolved, todo, spoken, work, list,
                  told, spoiled, crashes, faults>>
    BY DEF durable, resolver, history
<1>3. TypeOK' /\ AppInv' /\ WorkInv'
    BY <1>1, <1>2 DEF TypeOK, AppInv, WorkInv
<1>4. JournalInv' /\ TodoInv' /\ SeenInv'
    BY <1>1, <1>2 DEF JournalInv, TodoInv, SeenInv, Open
<1>5. LeftInv' /\ ToldInv' /\ ClosedIsRecorded' /\ DenyInv'
    BY <1>1, <1>2 DEF LeftInv, ToldInv, ClosedIsRecorded, DenyInv, Open
<1> QED BY <1>3, <1>4, <1>5 DEF IInv

LEMMA RefreshListsKeeps ==
    ASSUME IInv, RefreshLists
    PROVE  IInv'
<1>1. /\ TypeOK /\ AppInv /\ WorkInv /\ JournalInv /\ SeenInv /\ LeftInv /\ ToldInv
      /\ ClosedIsRecorded /\ DenyInv /\ todo = {} /\ app # "down" /\ list.at = "asked"
    BY QuietIdle DEF IInv, RefreshLists, AppInv, NoList
<1>2. /\ list' = [list EXCEPT !.at = "taken", !.seen = alive]
      /\ UNCHANGED <<row, rec, journal, alive, app, run, resolved, todo, spoken, work, due,
                     told, spoiled, crashes, faults>>
    BY DEF RefreshLists, durable, resolver, history
<1>3. list' \in Lists /\ list'.at = "taken" /\ list'.seen = alive
    <2>1. alive \in SUBSET Attempts
        BY <1>1, Facts DEF TypeOK
    <2> QED BY <1>1, <1>2, <2>1 DEF TypeOK, Lists
<1>4. TypeOK' /\ AppInv' /\ WorkInv'
    BY <1>1, <1>2, <1>3 DEF TypeOK, AppInv, WorkInv
<1>5. JournalInv' /\ TodoInv'
    BY <1>1, <1>2 DEF JournalInv, TodoInv, Open
<1>6. SeenInv'
    BY <1>1, <1>2, <1>3 DEF SeenInv, TypeOK
<1>7. LeftInv' /\ ToldInv' /\ ClosedIsRecorded' /\ DenyInv'
    BY <1>1, <1>2 DEF LeftInv, ToldInv, ClosedIsRecorded, DenyInv, Open
<1> QED BY <1>4, <1>5, <1>6, <1>7 DEF IInv

\* reconcile judges each row by what was listed.
LEMMA JudgedTyped ==
    ASSUME TypeOK
    PROVE  /\ Judged \in [Sessions -> {"gone", "restorable", "live", "removed"}]
           /\ \A s \in Sessions : row[s] = "gone" => Judged[s] = "gone"
BY DEF Judged, TypeOK

LEMMA RefreshKeeps ==
    ASSUME IInv, RefreshBegins \/ RefreshUnreachable \/ Reconcile \/ ScheduleRefresh
    PROVE  IInv'
<1>1. TypeOK /\ AppInv /\ TodoInv
    BY DEF IInv
<1>2. /\ NoList \in Lists /\ NoList.at = "none"
      /\ [NoList EXCEPT !.at = "asked"] \in Lists
      /\ [NoList EXCEPT !.at = "asked"].at = "asked"
    BY DEF NoList, Lists
<1>3. CASE ScheduleRefresh
    BY <1>3, DueKeeps DEF ScheduleRefresh
<1>4. CASE RefreshBegins
    BY <1>1, <1>2, <1>4, RowsKeep DEF RefreshBegins, durable, TypeOK
<1>5. CASE RefreshUnreachable
    <2>1. app # "down"
        BY <1>1, <1>5 DEF RefreshUnreachable, AppInv, NoList
    <2> QED BY <1>1, <1>2, <1>5, <2>1, RowsKeep DEF RefreshUnreachable, durable, TypeOK
<1>6. CASE Reconcile
    <2>1. list.at \in {"judging", "taken"} /\ todo = {}
        BY <1>1, <1>6, QuietIdle DEF Reconcile
    <2>2. app # "down"
        BY <1>1, <2>1 DEF AppInv, NoList
    <2>3. /\ row' = Judged /\ list' = NoList /\ app' = "up"
          /\ UNCHANGED <<rec, journal, alive, run, resolver, work, due, history, crashes,
                         faults>>
        BY <1>6 DEF Reconcile
    <2>4. /\ TypeOK /\ AppInv /\ WorkInv /\ JournalInv /\ LeftInv /\ ToldInv
          /\ ClosedIsRecorded /\ DenyInv
        BY DEF IInv
    <2>5. UNCHANGED <<rec, journal, alive, run, resolved, todo, spoken, work, due, told,
                      spoiled, crashes, faults>>
        BY <2>3 DEF resolver, history
    <2>6. /\ row' \in [Sessions -> {"gone", "restorable", "live", "removed"}]
          /\ \A s \in Sessions : row[s] = "gone" => row'[s] = "gone"
        BY <1>1, <2>3, JudgedTyped
    <2>7. TypeOK'
        BY <1>1, <1>2, <2>3, <2>5, <2>6 DEF TypeOK
    <2>8. AppInv' /\ WorkInv'
        BY <1>2, <2>1, <2>2, <2>3, <2>4, <2>5, <2>6 DEF AppInv, WorkInv
    <2>9. JournalInv' /\ TodoInv' /\ SeenInv'
        BY <1>2, <2>1, <2>2, <2>3, <2>4, <2>5 DEF JournalInv, TodoInv, SeenInv, Open
    <2>10. LeftInv' /\ ToldInv' /\ DenyInv'
        BY <2>2, <2>4, <2>5 DEF LeftInv, ToldInv, DenyInv, Open
    <2>11. ClosedIsRecorded'
        <3>1. \A a \in 1..Len(journal) : journal[a].row \in Sessions
            BY <1>1, Facts
        <3> QED BY <2>4, <2>5, <2>6, <3>1 DEF ClosedIsRecorded, Open
    <2> QED BY <2>7, <2>8, <2>9, <2>10, <2>11 DEF IInv
<1> QED BY <1>3, <1>4, <1>5, <1>6

LEMMA RowVerbKeeps ==
    ASSUME IInv, NEW s \in Sessions, RemoveSession(s) \/ DiscardSession(s)
    PROVE  IInv'
<1>1. TypeOK /\ Quiet /\ app = "up" /\ list.at # "judging"
    BY DEF IInv, RemoveSession, DiscardSession, Quiet
<1>2. CASE RemoveSession(s)
    BY <1>1, <1>2, RowsKeep DEF RemoveSession, TypeOK, refresh
<1>3. CASE DiscardSession(s)
    <2>1. NoRecord \in Records /\ NoRecord.at = 0
        BY DEF NoRecord, Records
    <2>2. /\ row' = [row EXCEPT ![s] = "gone"] /\ rec' = [rec EXCEPT ![s] = NoRecord]
          /\ UNCHANGED <<journal, alive, app, run, resolver, work, refresh, history, crashes,
                         faults>>
        BY <1>3 DEF DiscardSession
    <2>3. /\ rec' \in [Sessions -> Records]
          /\ row' \in [Sessions -> {"gone", "restorable", "live", "removed"}]
          /\ \A other \in Sessions : row[other] = "gone" => row'[other] = "gone"
          /\ \A other \in Sessions :
                 rec'[other] = rec[other] \/ (row'[other] = "gone" /\ rec'[other].at = 0)
        BY <1>1, <2>1, <2>2 DEF TypeOK
    <2>4. list' = list /\ due' \in BOOLEAN /\ list' \in Lists /\ app' \in {"booting", "up"}
        BY <1>1, <2>2 DEF refresh, TypeOK
    <2> QED BY <1>1, <2>2, <2>3, <2>4, RowsKeep
<1> QED BY <1>2, <1>3

LEMMA SessionClosesKeeps ==
    ASSUME IInv, NEW t \in alive, SessionCloses(t)
    PROVE  IInv'
<1>1. /\ TypeOK /\ AppInv /\ WorkInv /\ JournalInv /\ TodoInv /\ SeenInv /\ LeftInv
      /\ ToldInv /\ ClosedIsRecorded /\ DenyInv
    BY DEF IInv
<1>2. /\ alive' = alive \ {t}
      /\ UNCHANGED <<row, rec, journal, app, run, resolved, todo, spoken, work, list, due,
                     told, spoiled, crashes, faults>>
    BY DEF SessionCloses, durable, resolver, refresh, history
<1>3. TypeOK' /\ AppInv' /\ WorkInv'
    BY <1>1, <1>2 DEF TypeOK, AppInv, WorkInv
<1>4. JournalInv' /\ TodoInv' /\ SeenInv'
    BY <1>1, <1>2 DEF JournalInv, TodoInv, SeenInv, Open
<1>5. LeftInv' /\ ToldInv' /\ ClosedIsRecorded' /\ DenyInv'
    BY <1>1, <1>2 DEF LeftInv, ToldInv, ClosedIsRecorded, DenyInv, Open
<1> QED BY <1>3, <1>4, <1>5 DEF IInv

LEMMA LifeKeeps ==
    ASSUME IInv, AppDies \/ Boot
    PROVE  IInv'
<1>1. /\ TypeOK /\ AppInv /\ WorkInv /\ JournalInv /\ SeenInv /\ LeftInv /\ ToldInv
      /\ ClosedIsRecorded /\ DenyInv /\ run \in Nat /\ crashes \in Nat /\ MaxCrashes \in Nat
    BY Facts DEF IInv
<1>2. /\ NoList \in Lists /\ NoList.at = "none" /\ [NoList EXCEPT !.at = "asked"] \in Lists
      /\ [NoList EXCEPT !.at = "asked"].at = "asked"
      /\ Idle \in Works /\ Idle.at = "idle" /\ Idle.attempt = 0
    BY DEF NoList, Lists, Idle, Works
<1>3. UNCHANGED <<row, rec, journal, alive, told, spoiled, faults>>
    BY DEF AppDies, Boot, durable, history
<1>4. /\ app' \in {"down", "booting"} /\ run' = crashes' + (IF app' = "down" THEN 0 ELSE 1)
      /\ run' \in Runs /\ crashes' \in 0..MaxCrashes
      /\ resolved' = FALSE /\ todo' = {} /\ spoken' \in BOOLEAN /\ due' \in BOOLEAN
      /\ \A s \in Sessions : work'[s] = Idle
      /\ work' \in [Sessions -> Works]
      /\ list' = IF app' = "down" THEN NoList ELSE [NoList EXCEPT !.at = "asked"]
      /\ app' # "down" => run' = run + 1
      /\ run' >= run
    <2>1. CASE AppDies
        <3>1. /\ app # "down" /\ crashes < MaxCrashes /\ crashes' = crashes + 1
              /\ app' = "down" /\ resolved' = FALSE /\ todo' = {} /\ spoken' = FALSE
              /\ work' = [s \in Sessions |-> Idle] /\ due' = FALSE /\ list' = NoList
              /\ run' = run
            BY <2>1 DEF AppDies
        <3>2. run = crashes + 1 /\ run \in Runs
            BY <1>1, <3>1 DEF AppInv, TypeOK
        <3>3. crashes' \in 0..MaxCrashes /\ run' >= run
            BY <1>1, <3>1
        <3>4. work' \in [Sessions -> Works] /\ \A s \in Sessions : work'[s] = Idle
            BY <1>2, <3>1
        <3>5. run' = crashes' + (IF app' = "down" THEN 0 ELSE 1) /\ run' \in Runs
            BY <1>1, <3>1, <3>2
        <3> QED BY <3>1, <3>3, <3>4, <3>5
    <2>2. CASE Boot
        <3>1. /\ todo = {} /\ resolved = FALSE /\ run = crashes /\ \A s \in Sessions : work[s] = Idle
            BY <1>1, <2>2 DEF AppInv, Boot, TypeOK
        <3>2. /\ app' = "booting" /\ run' = run + 1 /\ due' = TRUE
              /\ list' = [NoList EXCEPT !.at = "asked"]
              /\ UNCHANGED <<resolved, todo, spoken, work, crashes>>
            BY <2>2 DEF Boot, resolver
        <3>3. run + 1 \in Runs
            BY <1>1, <3>1 DEF TypeOK, Runs
        <3> QED BY <1>1, <3>1, <3>2, <3>3 DEF TypeOK, Works
    <2> QED BY <2>1, <2>2
<1>5. TypeOK'
    <2>1. list' \in Lists /\ todo' \subseteq Resolutions /\ resolved' \in BOOLEAN
        BY <1>2, <1>4
    <2> HIDE DEF Works
    <2>2. work' \in [Sessions -> [at : {"idle", "asked", "spawned", "created", "mirroring",
                                       "failed"},
                                 attempt : Attempts \cup {0}]]
        BY <1>4 DEF Works
    <2>3. alive' \subseteq 1..Len(journal') /\ Len(journal') <= MaxAttempts
        BY <1>1, <1>3 DEF TypeOK
    <2>4. app' \in {"down", "booting", "up"}
        BY <1>4
    <2> QED BY <1>1, <1>3, <1>4, <2>1, <2>2, <2>3, <2>4 DEF TypeOK
<1>6. AppInv'
    BY <1>2, <1>4 DEF AppInv
<1>7. WorkInv'
    BY <1>2, <1>4 DEF WorkInv
<1>8. \A a \in 1..Len(journal) : journal[a].run <= run /\ journal[a].run \in Nat
    BY <1>1, Facts DEF JournalInv
<1>9. \A a \in 1..Len(journal) : app' = "down" \/ journal[a].run # run'
    BY <1>1, <1>4, <1>8
<1>10. JournalInv' /\ DenyInv'
    <2>1. \A a \in 1..Len(journal) : journal[a].run <= run'
        BY <1>1, <1>4, <1>8 DEF TypeOK, Runs
    <2> QED BY <1>1, <1>3, <1>9, <2>1 DEF JournalInv, DenyInv
<1>11. TodoInv' /\ SeenInv' /\ LeftInv'
    BY <1>2, <1>4 DEF TodoInv, SeenInv, LeftInv
<1>12. ToldInv' /\ ClosedIsRecorded'
    BY <1>1, <1>3 DEF ToldInv, ClosedIsRecorded, Open
<1> QED BY <1>5, <1>6, <1>7, <1>10, <1>11, <1>12 DEF IInv

-----------------------------------------------------------------------------
(* The resolver *)

\* What a resolution of an open attempt owes.
LEMMA ResolutionFacts ==
    ASSUME TypeOK, NEW a \in 1..Len(journal)
    PROVE  LET r == Resolution(a)
               s == journal[a].row
           IN  /\ r \in Resolutions /\ r.attempt = a /\ "close" \in r.owes
               /\ "record" \in r.owes => row[s] # "gone"
               /\ "record" \notin r.owes => row[s] = "gone" \/ rec[s].at >= a
               /\ "tell" \in r.owes => \A t \in list.seen : journal[t].row # s
               /\ r.verdict = "already" => rec[s].kind # "none"
<1> DEFINE s == journal[a].row
           v == Verdict(a)
           there == row[s] # "gone"
           o == {"close"} \cup (IF there /\ v # "already" THEN {"record"} ELSE {})
                          \cup (IF there /\ v = "notBack" THEN {"tell"} ELSE {})
<1>1. Resolution(a) = [attempt |-> a, verdict |-> v, owes |-> o]
    BY DEF Resolution
<1>2. /\ v \in Verdicts
      /\ v = "already" => rec[s].kind # "none" /\ rec[s].at >= a
      /\ v = "notBack" => \A t \in list.seen : journal[t].row # s
    BY DEF Verdict, Verdicts, AlreadyRecorded, IdentityLives
<1>3. a \in Attempts
    BY Facts
<1> HIDE DEF v
<1>4. /\ o \in SUBSET Steps /\ "close" \in o
      /\ "record" \in o => there
      /\ "record" \notin o => ~there \/ v = "already"
      /\ "tell" \in o => v = "notBack"
    BY DEF Steps
<1> HIDE DEF o
<1>5. /\ Resolution(a) \in Resolutions /\ Resolution(a).attempt = a
      /\ Resolution(a).owes = o /\ Resolution(a).verdict = v
    BY <1>1, <1>2, <1>3, <1>4 DEF Resolutions
<1> QED BY <1>2, <1>4, <1>5

LEMMA ResolveJournalKeeps ==
    ASSUME IInv, ResolveJournal
    PROVE  IInv'
<1>1. /\ TypeOK /\ AppInv /\ WorkInv /\ JournalInv /\ SeenInv /\ LeftInv /\ ToldInv
      /\ ClosedIsRecorded /\ DenyInv /\ list.at = "taken"
      /\ \A s \in Sessions : work[s].at # "failed"
    BY DEF IInv, ResolveJournal, Quiet
<1>2. /\ todo' = {Resolution(a) : a \in OpenAttempts} /\ resolved' = TRUE
      /\ list' = [list EXCEPT !.at = "judging"]
      /\ UNCHANGED <<row, rec, journal, alive, app, run, spoken, work, due, told, spoiled,
                     crashes, faults>>
    BY DEF ResolveJournal, durable, history
<1>3. list' \in Lists /\ list'.at = "judging" /\ list'.seen = list.seen
    BY <1>1, <1>2 DEF TypeOK, Lists
<1>4. app # "down" /\ list'.at # "none"
    BY <1>1, <1>3 DEF AppInv, NoList
<1>5. ASSUME NEW r \in todo'
      PROVE  /\ r.attempt \in 1..Len(journal) /\ Open(r.attempt)
             /\ r = Resolution(r.attempt)
    <2>1. PICK a \in OpenAttempts : r = Resolution(a)
        BY <1>2, <1>5
    <2>2. a \in 1..Len(journal) /\ Open(a)
        BY <2>1 DEF OpenAttempts
    <2> QED BY <1>1, <2>1, <2>2, ResolutionFacts
<1>6. TypeOK'
    <2>1. todo' \subseteq Resolutions
        BY <1>1, <1>5, ResolutionFacts
    <2> QED BY <1>1, <1>2, <1>3, <2>1 DEF TypeOK
<1>7. AppInv' /\ WorkInv' /\ SeenInv'
    BY <1>1, <1>2, <1>3, <1>4 DEF AppInv, WorkInv, SeenInv
<1>8. JournalInv' /\ ToldInv' /\ ClosedIsRecorded' /\ DenyInv'
    BY <1>1, <1>2 DEF JournalInv, ToldInv, ClosedIsRecorded, DenyInv, Open
<1>9. TodoInv'
    <2> SUFFICES ASSUME NEW r \in todo'
                 PROVE  LET a == r.attempt
                            s == journal[a].row
                        IN  /\ a \in 1..Len(journal)
                            /\ \A other \in todo' : other.attempt = a => other = r
                            /\ r.owes # {}
                            /\ "record" \in r.owes => "close" \in r.owes /\ row[s] # "gone"
                            /\ "record" \notin r.owes => row[s] = "gone" \/ rec[s].at >= a
                            /\ "close" \in r.owes <=> Open(a)
                            /\ "tell" \in r.owes =>
                                   told[a] = 0 /\ \A t \in list.seen : journal[t].row # s
                            /\ r.verdict = "already" => rec[s].kind # "none"
                            /\ (journal[a].run = run /\ a \notin spoiled) =>
                                   work[s].attempt = a
        BY <1>2, <1>3 DEF TodoInv, Open
    <2> DEFINE a == r.attempt
               s == journal[a].row
    <2>1. a \in 1..Len(journal) /\ Open(a) /\ r = Resolution(a)
        BY <1>5
    <2>2. \A other \in todo' : other.attempt = a => other = r
        BY <1>5
    <2>3. /\ "close" \in r.owes
          /\ "record" \in r.owes => row[s] # "gone"
          /\ "record" \notin r.owes => row[s] = "gone" \/ rec[s].at >= a
          /\ "tell" \in r.owes => \A t \in list.seen : journal[t].row # s
          /\ r.verdict = "already" => rec[s].kind # "none"
        BY <1>1, <2>1, ResolutionFacts
    <2>4. told[a] = 0
        BY <1>1, <2>1, Facts DEF ToldInv
    <2>5. (journal[a].run = run /\ a \notin spoiled) => work[s].attempt = a
        BY <1>1, <1>4, <2>1 DEF JournalInv
    <2> QED BY <2>1, <2>2, <2>3, <2>4, <2>5
<1>10. LeftInv'
    <2>1. ASSUME NEW a \in 1..Len(journal), Open(a)
          PROVE  \E r \in todo' : r.attempt = a /\ "close" \in r.owes
        <3>1. Resolution(a) \in todo'
            BY <1>2, <2>1 DEF OpenAttempts
        <3> QED BY <1>1, <3>1, ResolutionFacts
    <2> QED BY <1>2, <2>1 DEF LeftInv, Open
<1> QED BY <1>6, <1>7, <1>8, <1>9, <1>10 DEF IInv

\* While the resolver is at work: its launch has judged, and no restore is between the
\* record of a failure and its close.
LEMMA ResolvingFacts ==
    ASSUME IInv, NEW r \in todo
    PROVE  /\ TypeOK /\ AppInv /\ WorkInv /\ JournalInv /\ TodoInv /\ SeenInv /\ LeftInv
           /\ ToldInv /\ ClosedIsRecorded /\ DenyInv
           /\ resolved /\ list.at = "judging" /\ app # "down"
           /\ r \in Resolutions /\ r.attempt \in 1..Len(journal) /\ r.attempt \in Attempts
           /\ journal[r.attempt].row \in Sessions /\ Len(journal) # 0
<1>1. TypeOK /\ AppInv /\ TodoInv
    BY DEF IInv
<1>2. resolved /\ list.at = "judging" /\ app # "down"
    BY <1>1 DEF AppInv, NoList
<1>3. r \in Resolutions /\ r.attempt \in 1..Len(journal)
    BY <1>1 DEF TypeOK, TodoInv
<1>4. r.attempt \in Attempts /\ journal[r.attempt].row \in Sessions /\ Len(journal) # 0
    BY <1>1, <1>3, Facts
<1> QED BY <1>2, <1>3, <1>4 DEF IInv

\* What a resolution stores is an outcome.
LEMMA RecordKindTyped ==
    ASSUME IInv, NEW r \in todo
    PROVE  RecordKind(r) \in Outcomes
<1>1. r.verdict \in Verdicts
    BY ResolvingFacts DEF Resolutions
<1>2. r.verdict = "already" => rec[journal[r.attempt].row].kind \in Outcomes
    BY ResolvingFacts, Facts DEF TodoInv, Records, Outcomes
<1> QED BY <1>1, <1>2 DEF RecordKind, Verdicts, Outcomes

\* The steps of a resolution come in their order.
LEMMA DueFacts ==
    ASSUME NEW r \in Resolutions
    PROVE  /\ Due(r, "record") => "record" \in r.owes
           /\ Due(r, "close") => "close" \in r.owes /\ "record" \notin r.owes
           /\ Due(r, "tell") => r.owes = {"tell"}
<1>1. r.owes \subseteq Steps
    BY DEF Resolutions
<1>2. Order["record"] = 1 /\ Order["close"] = 2 /\ Order["tell"] = 3
    BY DEF Order
<1> HIDE DEF Order
<1>3. Due(r, "record") => "record" \in r.owes
    BY DEF Due
<1>4. Due(r, "close") => "close" \in r.owes /\ "record" \notin r.owes
    BY <1>2 DEF Due
<1>5. Due(r, "tell") => "tell" \in r.owes /\ "record" \notin r.owes /\ "close" \notin r.owes
    BY <1>2 DEF Due
<1> QED BY <1>1, <1>3, <1>4, <1>5 DEF Steps

\* A step takes itself off its resolution and leaves the others as they are.
LEMMA SteppedFacts ==
    ASSUME IInv, NEW r \in todo, NEW step \in Steps, step \in r.owes
    PROVE  /\ \A q \in Stepped(r, step) :
                  /\ q \in Resolutions /\ q.owes # {}
                  /\ \/ q \in todo /\ q.attempt # r.attempt
                     \/ /\ q.attempt = r.attempt /\ q.verdict = r.verdict
                        /\ q.owes = r.owes \ {step}
           /\ \A q \in Stepped(r, step) : \A p \in Stepped(r, step) :
                  q.attempt = p.attempt => q = p
           /\ \A q \in todo : q.attempt # r.attempt => q \in Stepped(r, step)
           /\ r.owes # {step} => \E q \in Stepped(r, step) :
                  q.attempt = r.attempt /\ q.owes = r.owes \ {step}
<1> DEFINE l == [r EXCEPT !.owes = @ \ {step}]
<1>1. /\ r \in Resolutions
      /\ \A q \in todo : q \in Resolutions /\ q.owes # {}
      /\ \A q \in todo : \A p \in todo : q.attempt = p.attempt => q = p
    BY ResolvingFacts DEF TypeOK, TodoInv
<1>2. /\ l \in Resolutions /\ l.attempt = r.attempt /\ l.verdict = r.verdict
      /\ l.owes = r.owes \ {step}
    BY <1>1 DEF Resolutions
<1>3. Stepped(r, step) = (todo \ {r}) \cup (IF r.owes = {step} THEN {} ELSE {l})
    BY DEF Stepped
<1>4. r.owes # {step} => l.owes # {}
    BY <1>2
<1> HIDE DEF l
<1> QED BY <1>1, <1>2, <1>3, <1>4

LEMMA RecordStepKeeps ==
    ASSUME IInv, NEW r \in todo, Due(r, "record"),
           Recorded(journal[r.attempt].row, RecordKind(r), "resolver"),
           todo' = Stepped(r, "record"), NoFault,
           UNCHANGED <<row, journal, alive, app, run, resolved, spoken, work, refresh, told,
                       crashes>>
    PROVE  IInv'
<1> DEFINE a == r.attempt
           s == journal[a].row
<1>1. /\ TypeOK /\ AppInv /\ WorkInv /\ JournalInv /\ TodoInv /\ SeenInv /\ LeftInv
      /\ ToldInv /\ ClosedIsRecorded /\ DenyInv
      /\ resolved /\ list.at = "judging" /\ app # "down"
      /\ r \in Resolutions /\ a \in 1..Len(journal) /\ a \in Attempts
      /\ s \in Sessions /\ Len(journal) # 0
    BY ResolvingFacts
<1>2. UNCHANGED <<row, journal, alive, app, run, resolved, spoken, work, due, list, told,
                  spoiled, crashes, faults>>
    BY DEF refresh, NoFault
<1>3. /\ "record" \in r.owes /\ "close" \in r.owes /\ row[s] # "gone"
      /\ "record" \in Steps /\ r.owes # {"record"}
    BY <1>1, DueFacts DEF TodoInv, Steps
<1>4. /\ rec' \in [Sessions -> Records] /\ rec'[s].at = Len(journal)
      /\ rec'[s].kind \in Outcomes
      /\ \A other \in Sessions : other # s => rec'[other] = rec[other]
    BY <1>1, RecordKindTyped, RecordedFacts
<1>5. /\ \A other \in Sessions : rec'[other].at >= rec[other].at
      /\ \A other \in Sessions : rec'[other].at <= Len(journal)
      /\ \A other \in Sessions : rec[other].kind # "none" => rec'[other].kind # "none"
      /\ \A other \in Sessions : rec[other].at \in Nat /\ rec'[other].at \in Nat
    <2>1. /\ Len(journal) \in Nat
          /\ \A other \in Sessions : rec[other].at \in Nat /\ rec[other].at <= Len(journal)
        BY <1>1, Facts DEF JournalInv
    <2>2. rec'[s].kind # "none"
        BY <1>4 DEF Outcomes
    <2> QED BY <1>1, <1>4, <2>1, <2>2
<1>6. \A b \in 1..Len(journal) : journal[b].row \in Sessions /\ b \in Nat
    BY <1>1, Facts
<1>7. Len(journal) \in Nat /\ \A c \in Sessions : work[c].attempt \in Nat
    BY <1>1, Facts
<1>8. TypeOK'
    <2>1. todo' \subseteq Resolutions
        BY <1>3, SteppedFacts
    <2> QED BY <1>1, <1>2, <1>4, <2>1 DEF TypeOK
<1>9. AppInv' /\ SeenInv' /\ ToldInv' /\ DenyInv'
    BY <1>1, <1>2 DEF AppInv, SeenInv, ToldInv, DenyInv, Open
<1>10. WorkInv'
    BY <1>1, <1>2, <1>5, <1>7 DEF WorkInv
<1>11. JournalInv'
    BY <1>1, <1>2, <1>5 DEF JournalInv, Open
<1>12. ClosedIsRecorded'
    <2> SUFFICES ASSUME NEW b \in 1..Len(journal), ~Open(b), b \notin spoiled,
                        row[journal[b].row] # "gone"
                 PROVE  rec'[journal[b].row].at >= b
        BY <1>2 DEF ClosedIsRecorded, Open
    <2>1. rec[journal[b].row].at >= b
        BY <1>1 DEF ClosedIsRecorded
    <2> QED BY <1>5, <1>6, <2>1
<1>13. TodoInv'
    <2> SUFFICES ASSUME NEW q \in todo'
                 PROVE  LET b == q.attempt
                            c == journal[b].row
                        IN  /\ b \in 1..Len(journal)
                            /\ \A other \in todo' : other.attempt = b => other = q
                            /\ q.owes # {}
                            /\ "record" \in q.owes => "close" \in q.owes /\ row[c] # "gone"
                            /\ "record" \notin q.owes => row[c] = "gone" \/ rec'[c].at >= b
                            /\ "close" \in q.owes <=> Open(b)
                            /\ "tell" \in q.owes =>
                                   told[b] = 0 /\ \A t \in list.seen : journal[t].row # c
                            /\ q.verdict = "already" => rec'[c].kind # "none"
                            /\ (journal[b].run = run /\ b \notin spoiled) =>
                                   work[c].attempt = b
        BY <1>2 DEF TodoInv, Open
    <2>1. q.owes # {} /\ \A other \in todo' : other.attempt = q.attempt => other = q
        BY <1>3, SteppedFacts
    <2>2. CASE q \in todo
        <3>1. q.attempt \in 1..Len(journal)
            BY <1>1, <2>2 DEF TodoInv
        <3> QED BY <1>1, <1>5, <1>6, <2>1, <2>2, <3>1 DEF TodoInv
    <2>3. CASE q.attempt = a /\ q.verdict = r.verdict /\ q.owes = r.owes \ {"record"}
        BY <1>1, <1>3, <1>4, <1>6, <1>7, <2>1, <2>3 DEF TodoInv, Outcomes
    <2> QED BY <1>3, <2>2, <2>3, SteppedFacts
<1>14. LeftInv'
    <2>1. ASSUME NEW b \in 1..Len(journal), NEW q \in todo, q.attempt = b, "close" \in q.owes
          PROVE  \E p \in todo' : p.attempt = b /\ "close" \in p.owes
        <3>1. CASE b = a
            <4>1. \E p \in todo' : p.attempt = a /\ p.owes = r.owes \ {"record"}
                BY <1>3, SteppedFacts
            <4> QED BY <1>3, <3>1, <4>1
        <3>2. CASE b # a
            BY <1>3, <2>1, <3>2, SteppedFacts
        <3> QED BY <3>1, <3>2
    <2> QED BY <1>1, <1>2, <2>1 DEF LeftInv, Open
<1> QED BY <1>8, <1>9, <1>10, <1>11, <1>12, <1>13, <1>14 DEF IInv

LEMMA CloseStepKeeps ==
    ASSUME IInv, NEW r \in todo, Due(r, "close"),
           journal' = Closed(r.attempt, ClosesWith(r)),
           todo' = Stepped(r, "close"), NoFault,
           UNCHANGED <<row, rec, alive, app, run, resolved, spoken, work, refresh, told,
                       crashes>>
    PROVE  IInv'
<1> DEFINE a == r.attempt
           s == journal[a].row
<1>1. /\ TypeOK /\ AppInv /\ WorkInv /\ JournalInv /\ TodoInv /\ SeenInv /\ LeftInv
      /\ ToldInv /\ ClosedIsRecorded /\ DenyInv
      /\ resolved /\ list.at = "judging" /\ app # "down"
      /\ r \in Resolutions /\ a \in 1..Len(journal) /\ a \in Attempts
      /\ s \in Sessions
    BY ResolvingFacts
<1>2. UNCHANGED <<row, rec, alive, app, run, resolved, spoken, work, due, list, told,
                  spoiled, crashes, faults>>
    BY DEF refresh, NoFault
<1>3. "close" \in r.owes /\ "record" \notin r.owes /\ "close" \in Steps
    BY <1>1, DueFacts DEF Steps
<1>4. ClosesWith(r) \in Outcomes
    BY RecordKindTyped DEF ClosesWith
<1>5. /\ journal' \in Seq(Entries) /\ Len(journal') = Len(journal)
      /\ \A b \in 1..Len(journal) :
             /\ journal'[b].row = journal[b].row /\ journal'[b].run = journal[b].run
             /\ journal'[b].noted = journal[b].noted
             /\ b # a => journal'[b].outcome = journal[b].outcome
      /\ journal'[a].outcome \in Outcomes
    BY <1>1, <1>4, ClosedFacts
<1>6. \A b \in 1..Len(journal) : Open(b)' <=> Open(b) /\ b # a
    BY <1>5 DEF Open, Outcomes
<1>7. \A b \in 1..Len(journal) : journal[b].row \in Sessions
    BY <1>1, Facts
<1>8. row[s] = "gone" \/ rec[s].at >= a
    BY <1>1, <1>3 DEF TodoInv
<1>9. TypeOK'
    <2>1. todo' \subseteq Resolutions
        BY <1>3, SteppedFacts
    <2>2. Len(journal') <= MaxAttempts /\ alive' \subseteq 1..Len(journal')
        BY <1>1, <1>2, <1>5 DEF TypeOK
    <2> QED BY <1>1, <1>2, <1>5, <2>1, <2>2 DEF TypeOK
<1>10. AppInv'
    BY <1>1, <1>2 DEF AppInv
<1>11. SeenInv'
    BY <1>1, <1>2, <1>5 DEF SeenInv, TypeOK
<1>12. WorkInv'
    BY <1>1, <1>2, <1>5 DEF WorkInv
<1>13. JournalInv' /\ ToldInv'
    BY <1>1, <1>2, <1>5, <1>6 DEF JournalInv, ToldInv
<1>14. ClosedIsRecorded'
    BY <1>1, <1>2, <1>5, <1>6, <1>8 DEF ClosedIsRecorded
<1>15. DenyInv'
    <2>1. (journal[a].run = run /\ a \notin spoiled) => work[s].attempt = a
        BY <1>1 DEF TodoInv
    <2> QED BY <1>1, <1>2, <1>5, <2>1 DEF DenyInv
<1>16. TodoInv'
    <2> SUFFICES ASSUME NEW q \in todo'
                 PROVE  LET b == q.attempt
                            c == journal'[b].row
                        IN  /\ b \in 1..Len(journal)
                            /\ \A other \in todo' : other.attempt = b => other = q
                            /\ q.owes # {}
                            /\ "record" \in q.owes => "close" \in q.owes /\ row[c] # "gone"
                            /\ "record" \notin q.owes => row[c] = "gone" \/ rec[c].at >= b
                            /\ "close" \in q.owes <=> Open(b)'
                            /\ "tell" \in q.owes =>
                                   told[b] = 0 /\ \A t \in list.seen : journal'[t].row # c
                            /\ q.verdict = "already" => rec[c].kind # "none"
                            /\ (journal'[b].run = run /\ b \notin spoiled) =>
                                   work[c].attempt = b
        BY <1>2, <1>5 DEF TodoInv, Open
    <2>1. q.owes # {} /\ \A other \in todo' : other.attempt = q.attempt => other = q
        BY <1>3, SteppedFacts
    <2>2. list.seen \subseteq 1..Len(journal)
        BY <1>1 DEF SeenInv
    <2>3. CASE q \in todo /\ q.attempt # a
        <3>1. q.attempt \in 1..Len(journal)
            BY <1>1, <2>3 DEF TodoInv
        <3> QED BY <1>1, <1>5, <1>6, <2>1, <2>2, <2>3, <3>1 DEF TodoInv
    <2>4. CASE q.attempt = a /\ q.verdict = r.verdict /\ q.owes = r.owes \ {"close"}
        BY <1>1, <1>3, <1>5, <1>6, <2>1, <2>2, <2>4 DEF TodoInv
    <2> QED BY <1>3, <2>3, <2>4, SteppedFacts
<1>17. LeftInv'
    <2>1. ASSUME NEW b \in 1..Len(journal), b # a, NEW q \in todo, q.attempt = b
          PROVE  q \in todo'
        BY <1>3, <2>1, SteppedFacts
    <2> QED BY <1>1, <1>2, <1>5, <1>6, <2>1 DEF LeftInv
<1> QED BY <1>9, <1>10, <1>11, <1>12, <1>13, <1>14, <1>15, <1>16, <1>17 DEF IInv

LEMMA TellStepKeeps ==
    ASSUME IInv, NEW r \in todo, Due(r, "tell"), spoken' = TRUE,
           told' = IF spoken THEN told ELSE [told EXCEPT ![r.attempt] = @ + 1],
           todo' = Stepped(r, "tell"), NoFault,
           UNCHANGED <<row, rec, journal, alive, app, run, resolved, work, refresh, crashes>>
    PROVE  IInv'
<1> DEFINE a == r.attempt
<1>1. /\ TypeOK /\ AppInv /\ WorkInv /\ JournalInv /\ TodoInv /\ SeenInv /\ LeftInv
      /\ ToldInv /\ ClosedIsRecorded /\ DenyInv
      /\ resolved /\ list.at = "judging" /\ app # "down"
      /\ r \in Resolutions /\ a \in 1..Len(journal) /\ a \in Attempts
    BY ResolvingFacts
<1>2. UNCHANGED <<row, rec, journal, alive, app, run, resolved, work, due, list, spoiled,
                  crashes, faults>>
    BY DEF refresh, NoFault
<1>3. r.owes = {"tell"} /\ "tell" \in Steps
    BY <1>1, DueFacts DEF Steps
<1>4. todo' = todo \ {r}
    BY <1>3 DEF Stepped
<1>5. ~Open(a) /\ told[a] = 0
    BY <1>1, <1>3 DEF TodoInv
<1>6. /\ told' \in [Attempts -> Nat] /\ told'[a] \in {0, 1}
      /\ \A b \in Attempts : b # a => told'[b] = told[b]
    BY <1>1, <1>5 DEF TypeOK
<1>7. \A q \in todo' : q \in todo /\ q.attempt # a /\ q.attempt \in Attempts
    <2>1. \A q \in todo : q \in Resolutions /\ (q.attempt = a => q = r)
        BY <1>1 DEF TypeOK, TodoInv
    <2> QED BY <1>4, <2>1 DEF Resolutions
<1>8. TypeOK'
    BY <1>1, <1>2, <1>4, <1>6 DEF TypeOK
<1>9. AppInv' /\ WorkInv' /\ SeenInv'
    BY <1>1, <1>2, <1>4 DEF AppInv, WorkInv, SeenInv
<1>10. JournalInv' /\ ClosedIsRecorded' /\ DenyInv'
    BY <1>1, <1>2 DEF JournalInv, ClosedIsRecorded, DenyInv, Open
<1>11. ToldInv'
    BY <1>1, <1>2, <1>5, <1>6 DEF ToldInv, Open
<1>12. TodoInv'
    BY <1>1, <1>2, <1>6, <1>7 DEF TodoInv, Open
<1>13. LeftInv'
    BY <1>1, <1>2, <1>4, <1>5 DEF LeftInv, Open
<1> QED BY <1>8, <1>9, <1>10, <1>11, <1>12, <1>13 DEF IInv

LEMMA FaultStepKeeps ==
    ASSUME IInv, NEW r \in todo, Faulty(r.attempt, 1), todo' = todo \ {r},
           UNCHANGED <<row, rec, journal, alive, app, run, resolved, spoken, work, refresh,
                       told, crashes>>
    PROVE  IInv'
<1> DEFINE a == r.attempt
<1>1. /\ TypeOK /\ AppInv /\ WorkInv /\ JournalInv /\ TodoInv /\ SeenInv /\ LeftInv
      /\ ToldInv /\ ClosedIsRecorded /\ DenyInv
      /\ resolved /\ list.at = "judging" /\ app # "down"
      /\ a \in 1..Len(journal) /\ a \in Attempts
    BY ResolvingFacts
<1>2. /\ UNCHANGED <<row, rec, journal, alive, app, run, resolved, spoken, work, due, list,
                     told, crashes>>
      /\ spoiled' = spoiled \cup {a} /\ faults' = faults + 1 /\ faults + 1 <= MaxFaults
    BY DEF refresh, Faulty
<1>3. faults' \in 0..MaxFaults
    BY <1>1, <1>2, Facts
<1>4. TypeOK'
    BY <1>1, <1>2, <1>3 DEF TypeOK
<1>5. AppInv' /\ WorkInv' /\ SeenInv'
    BY <1>1, <1>2 DEF AppInv, WorkInv, SeenInv
<1>6. JournalInv' /\ ClosedIsRecorded' /\ DenyInv' /\ ToldInv'
    BY <1>1, <1>2 DEF JournalInv, ClosedIsRecorded, DenyInv, ToldInv, Open
<1>7. TodoInv'
    BY <1>1, <1>2 DEF TodoInv, Open
<1>8. LeftInv'
    <2>1. \A q \in todo : q.attempt # a => q \in todo'
        BY <1>1
    <2> QED BY <1>1, <1>2, <2>1 DEF LeftInv, Open
<1> QED BY <1>4, <1>5, <1>6, <1>7, <1>8 DEF IInv

LEMMA ResolverStepsKeeps ==
    ASSUME IInv, ResolverSteps
    PROVE  IInv'
<1>1. PICK r \in todo :
          \/ /\ Due(r, "record")
             /\ Recorded(journal[r.attempt].row, RecordKind(r), "resolver")
             /\ todo' = Stepped(r, "record") /\ NoFault
             /\ UNCHANGED <<journal, spoken, told>>
          \/ /\ Due(r, "close") /\ journal' = Closed(r.attempt, ClosesWith(r))
             /\ todo' = Stepped(r, "close") /\ NoFault
             /\ UNCHANGED <<rec, spoken, told>>
          \/ /\ Due(r, "tell") /\ spoken' = TRUE
             /\ told' = IF spoken THEN told ELSE [told EXCEPT ![r.attempt] = @ + 1]
             /\ todo' = Stepped(r, "tell") /\ NoFault
             /\ UNCHANGED <<rec, journal>>
          \/ /\ Faulty(r.attempt, 1) /\ todo' = todo \ {r}
             /\ UNCHANGED <<rec, journal, spoken, told>>
    BY DEF ResolverSteps
<1>2. UNCHANGED <<row, alive, app, run, resolved, work, refresh, crashes>>
    BY DEF ResolverSteps
<1> QED BY <1>1, <1>2, RecordStepKeeps, CloseStepKeeps, TellStepKeeps, FaultStepKeeps

-----------------------------------------------------------------------------
(* The theorems *)

LEMMA InvariantInit ==
    ASSUME Init
    PROVE  IInv
<1>1. /\ MaxAttempts \in Nat /\ MaxCrashes \in Nat /\ MaxFaults \in Nat
      /\ <<>> \in Seq(Entries) /\ Len(<<>>) = 0
    BY BoundsAssumption
<1>2. /\ NoRecord \in Records /\ NoRecord.at = 0
      /\ Idle \in Works /\ Idle.at = "idle" /\ Idle.attempt = 0
      /\ [NoList EXCEPT !.at = "asked"] \in Lists
      /\ [NoList EXCEPT !.at = "asked"].at = "asked"
    BY DEF NoRecord, Records, Idle, Works, NoList, Lists
<1>3. /\ journal = <<>> /\ Len(journal) = 0 /\ 1..Len(journal) = {} /\ todo = {}
      /\ app = "booting" /\ run = 1 /\ crashes = 0 /\ alive = {} /\ resolved = FALSE
      /\ list.at = "asked" /\ list \in Lists
      /\ \A s \in Sessions : work[s] = Idle /\ rec[s] = NoRecord
      /\ \A a \in Attempts : told[a] = 0
    BY <1>1, <1>2 DEF Init
<1>4. TypeOK
    <2>1. /\ 1 \in Runs /\ 0 \in 0..MaxCrashes /\ 0 \in 0..MaxFaults
        BY <1>1 DEF Runs
    <2>2. /\ rec \in [Sessions -> Records] /\ work \in [Sessions -> Works]
          /\ told \in [Attempts -> Nat]
        BY <1>2 DEF Init
    <2>3. /\ row \in [Sessions -> {"gone", "restorable", "live", "removed"}]
          /\ spoken \in BOOLEAN /\ due \in BOOLEAN /\ spoiled \subseteq Attempts
          /\ run \in Runs /\ crashes \in 0..MaxCrashes /\ faults \in 0..MaxFaults
        BY <2>1 DEF Init
    <2>4. work \in [Sessions -> [at : {"idle", "asked", "spawned", "created", "mirroring",
                                      "failed"},
                                attempt : Attempts \cup {0}]]
        BY <2>2 DEF Works
    <2>5. journal \in Seq(Entries) /\ Len(journal) <= MaxAttempts
        BY <1>1, <1>3
    <2>6. alive \subseteq 1..Len(journal) /\ todo \subseteq Resolutions
        BY <1>3
    <2>7. app \in {"down", "booting", "up"} /\ resolved \in BOOLEAN
        BY <1>3
    <2> QED BY <1>3, <2>2, <2>3, <2>4, <2>5, <2>6, <2>7 DEF TypeOK
<1>5. AppInv /\ WorkInv
    BY <1>1, <1>2, <1>3 DEF AppInv, WorkInv
<1>6. JournalInv /\ TodoInv /\ SeenInv /\ LeftInv
    BY <1>1, <1>2, <1>3 DEF JournalInv, TodoInv, SeenInv, LeftInv
<1>7. ToldInv /\ ClosedIsRecorded /\ DenyInv
    BY <1>3 DEF ToldInv, ClosedIsRecorded, DenyInv
<1> QED BY <1>4, <1>5, <1>6, <1>7 DEF IInv

LEMMA InvariantStep ==
    ASSUME IInv, [Next]_vars
    PROVE  IInv'
<1>1. ASSUME NEW s \in Sessions, Verb(s) \/ Restoring(s)
      PROVE  IInv'
    BY <1>1, RestoreSessionKeeps, RowVerbKeeps, RestoringKeeps DEF Verb
<1>2. CASE Resolving
    BY <1>2, ResolveJournalKeeps, ResolverStepsKeeps, RefreshKeeps DEF Resolving
<1>3. CASE RefreshBegins \/ RefreshLists \/ RefreshUnreachable \/ ScheduleRefresh
    BY <1>3, RefreshListsKeeps, RefreshKeeps
<1>4. ASSUME NEW t \in alive, SessionCloses(t)
      PROVE  IInv'
    BY <1>4, SessionClosesKeeps
<1>5. CASE AppDies \/ Boot
    BY <1>5, LifeKeeps
<1>6. CASE UNCHANGED vars
    <2>1. due \in BOOLEAN
        BY DEF IInv, TypeOK
    <2> QED BY <1>6, <2>1, DueKeeps DEF vars, refresh
<1> QED BY <1>1, <1>2, <1>3, <1>4, <1>5, <1>6 DEF Next

\* The inductive invariant: what a restore in flight, the journal, the rows, the list of
\* tmux and the resolutions owed know of each other, whatever fails or dies in between.
THEOREM JournalInvariant == Spec => []IInv
BY InvariantInit, InvariantStep, PTL DEF Spec

\* Every variable keeps its type: in particular every session that lives in tmux and every
\* resolution is of an attempt of the journal, for every bound.
THEOREM TypeCorrect == Spec => []TypeOK
<1>1. IInv => TypeOK
    BY DEF IInv
<1> QED BY <1>1, JournalInvariant, PTL

\* Once the boot has resolved the journal, what is open in it is of this launch or of an
\* attempt a write failed for.
THEOREM NoneLeftBehindAlways == Spec => []NoneLeftBehind
<1>1. IInv => NoneLeftBehind
    BY DEF IInv, LeftInv, NoneLeftBehind
<1> QED BY <1>1, JournalInvariant, PTL

\* A person is told of an attempt at most once, and only of one that is closed.
THEOREM ToldOnceAlways == Spec => []ToldOnce
<1>1. ASSUME IInv
      PROVE  ToldOnce
    <2>1. /\ ToldInv /\ 1..Len(journal) \subseteq Attempts
          /\ \A a \in Attempts : told[a] \in Nat
        BY <1>1, Facts DEF IInv
    <2> QED BY <2>1 DEF ToldInv, ToldOnce
<1> QED BY <1>1, JournalInvariant, PTL

\* No crash leaves an attempt closed of which the row does not know.
THEOREM ClosedIsRecordedAlways == Spec => []ClosedIsRecorded
<1>1. IInv => ClosedIsRecorded
    BY DEF IInv
<1> QED BY <1>1, JournalInvariant, PTL

\* A restore of this run that heard of its session is not down as failed.
THEOREM NotDeniedAlways == Spec => []NotDenied
<1>1. IInv => NotDenied
    BY DEF IInv, DenyInv, NotDenied
<1> QED BY <1>1, JournalInvariant, PTL

\* When a person is told that a session did not come back, what lives of it is of this run.
LEMMA ToldTrulyStep ==
    ASSUME IInv, Next, NEW a \in 1..Len(journal), told'[a] > told[a], NEW t \in alive,
           journal[t].row = journal[a].row
    PROVE  journal[t].run = run
<1>1. TypeOK /\ told[a] \in Nat
    BY Facts DEF IInv
<1>2. told' # told
    BY <1>1
<1>3. PICK r \in todo : /\ Due(r, "tell")
                        /\ told' = [told EXCEPT ![r.attempt] = @ + 1]
    <2>1. ResolverSteps
        BY <1>2 DEF Next, Verb, Restoring, Resolving, RestoreSession, RemoveSession,
                    DiscardSession, Spawn, NoteTmuxId, CreateFails, CloseFailed,
                    SetRestoreResult, FinishRestore, ResolveJournal, Reconcile,
                    RefreshBegins, RefreshLists, RefreshUnreachable, ScheduleRefresh,
                    SessionCloses, AppDies, Boot, history
    <2> QED BY <1>2, <2>1 DEF ResolverSteps
<1>4. /\ "tell" \in r.owes /\ TodoInv /\ SeenInv /\ list.at = "judging"
      /\ told \in [Attempts -> Nat]
    BY <1>1, <1>3, ResolvingFacts, DueFacts DEF TypeOK
<1>5. r.attempt = a
    <2>1. r.attempt # a => told'[a] = told[a]
        BY <1>3, <1>4
    <2> QED BY <1>1, <2>1
<1>6. t \notin list.seen
    BY <1>4, <1>5 DEF TodoInv
<1> QED BY <1>4, <1>6 DEF SeenInv

\* Nobody is told that a session of an earlier run did not come back while it lives.
THEOREM ToldTrulyAlways == Spec => ToldTruly
<1>1. IInv /\ [Next]_vars =>
          [\A a \in 1..Len(journal) :
              told'[a] > told[a] =>
                  \A t \in alive : journal[t].row = journal[a].row => journal[t].run = run]_vars
    BY ToldTrulyStep
<1> QED BY <1>1, JournalInvariant, PTL DEF Spec, ToldTruly

=============================================================================
