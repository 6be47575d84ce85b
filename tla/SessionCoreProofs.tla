-------------------------- MODULE SessionCoreProofs --------------------------
(***************************************************************************)
(* Proofs about SessionCore, for every set of sessions and calls and for   *)
(* every value of the bounds, by two inductive invariants.  Own: as long   *)
(* as no tmux server has died, every place that holds a $-id (liveIds, a   *)
(* call in flight, a list taken by a refresh) holds it together with the   *)
(* session it was minted for.  Flow, across the deaths of both processes:  *)
(* the guards against a second Restore and against judging a create answer *)
(* to the calls at work, and no list misses a restore without knowing it.  *)
(***************************************************************************)
EXTENDS SessionCore, TLAPS

\* A call record can be built from the idle one.
LEMMA IdleType == Idle \in CallRecords
  BY DEF Idle, CallRecords, Kinds, Rowless, TmuxIds, NoTmux

\* A working call about a session, or about none, is a call.
LEMMA WorkingType ==
  ASSUME NEW k \in Kinds \ {"swap"}, NEW s \in Sessions \cup {NoSession},
         NEW t \in TmuxIds \cup {NoTmux}, k \in Rowless \/ s # NoSession
  PROVE  Working(k, s, t) \in CallRecords
  BY DEF Working, Idle, CallRecords, Kinds, Rowless

\* Stamping rows keeps call well typed.
LEMMA StampType ==
  ASSUME call \in [Calls -> CallRecords], NEW W \in SUBSET Sessions
  PROVE  Stamp(call, W) \in [Calls -> CallRecords]
<1>1. ASSUME NEW d \in Calls
      PROVE  (IF call[d].kind \in Refreshing
              THEN [call[d] EXCEPT !.newer = @ \cup W] ELSE call[d]) \in CallRecords
  BY DEF CallRecords
<1>2. QED BY <1>1 DEF Stamp

\* So does stamping rows while one call moves on.
LEMMA BecomesType ==
  ASSUME call \in [Calls -> CallRecords], NEW c \in Calls,
         NEW r \in CallRecords, NEW W \in SUBSET Sessions
  PROVE  Becomes(c, r, W) \in [Calls -> CallRecords]
  BY StampType DEF Becomes

\* Unbinding writes the two maps and keeps their types.
LEMMA UnbindType ==
  ASSUME TypeOK, NEW s \in Sessions, NEW t \in TmuxIds \cup {NoTmux}, Unbind(s, t)
  PROVE  /\ bound' \in [Sessions -> TmuxIds \cup {NoTmux}]
         /\ boundBy' \in [TmuxIds -> Sessions \cup {NoSession}]
  BY DEF TypeOK, Unbind

\* So does what an End or a reap does past its guard.
LEMMA BeginEndType ==
  ASSUME TypeOK, NEW c \in Calls, NEW k \in Kinds \ {"swap"}, NEW s \in Sessions,
         NEW next \in CallRecords, BeginEnd(c, k, s, next)
  PROVE  /\ row' \in [Sessions -> Statuses \cup {"none"}]
         /\ bound' \in [Sessions -> TmuxIds \cup {NoTmux}]
         /\ boundBy' \in [TmuxIds -> Sessions \cup {NoSession}]
         /\ call' \in [Calls -> CallRecords]
<1>1. CASE bound[s] = NoTmux /\ MarkExited(s, NoTmux) /\ call' = Becomes(c, next, {s})
  <2>1. call' \in [Calls -> CallRecords]
    BY <1>1, BecomesType DEF TypeOK
  <2>2. QED
    BY <1>1, <2>1, UnbindType DEF TypeOK, MarkExited, WriteStatus, Statuses
<1>2. CASE /\ bound[s] # NoTmux
           /\ call' = [call EXCEPT ![c] = [next EXCEPT !.kind = k, !.row = s,
                                                       !.tmux = bound[s]]]
           /\ UNCHANGED <<row, maps>>
  <2>1. [next EXCEPT !.kind = k, !.row = s, !.tmux = bound[s]] \in CallRecords
    BY NamesAssumption DEF TypeOK, CallRecords
  <2>2. QED
    BY <1>2, <2>1 DEF TypeOK, maps
<1>3. QED BY <1>1, <1>2 DEF BeginEnd

-----------------------------------------------------------------------------
(* Type correctness *)

LEMMA TypeInit == Init => TypeOK
<1> SUFFICES ASSUME Init PROVE TypeOK
  OBVIOUS
<1> USE DEF Init
<1>1. /\ row \in [Sessions -> Statuses \cup {"none"}]
      /\ sample \in [Sessions -> {"none", "alive", "dead"}]
      /\ minted \in [TmuxIds -> Sessions \cup {Stranger, NoSession}]
  OBVIOUS
<1>2. /\ bound \in [Sessions -> TmuxIds \cup {NoTmux}]
      /\ boundBy \in [TmuxIds -> Sessions \cup {NoSession}]
      /\ call \in [Calls -> CallRecords]
  BY IdleType
<1>3. /\ nextId \in 1..(MaxTmuxId + 1)
      /\ asks \in 0..MaxAsks /\ restarts \in 0..MaxRestarts
      /\ deaths \in 0..MaxServerDeaths /\ crashes \in 0..MaxCrashes
  BY BoundsAssumption
<1>4. /\ removed \subseteq Sessions /\ revived \subseteq TmuxIds
      /\ alive \subseteq TmuxIds /\ husk \subseteq alive
      /\ creating \subseteq Sessions /\ restoring \subseteq Sessions
      /\ fresh \subseteq Sessions
  OBVIOUS
<1>5. up \in {"down", "booting", "up"} /\ refreshDue \in BOOLEAN
  OBVIOUS
<1>6. QED
  BY <1>1, <1>2, <1>3, <1>4, <1>5 DEF TypeOK

\* Declaring a create keeps the types of what it writes.
LEMMA DeclareType ==
  ASSUME TypeOK, NEW c \in Calls, NEW s \in Sessions, Declare(c, s)
  PROVE  /\ row' \in [Sessions -> Statuses \cup {"none"}]
         /\ fresh' \subseteq Sessions
         /\ creating' \subseteq Sessions
<1>1. row' \in [Sessions -> Statuses \cup {"none"}]
  BY DEF TypeOK, Declare, InsertRow, Statuses
<1>2. fresh' \subseteq Sessions
  BY DEF TypeOK, Declare
<1>3. creating' \subseteq Sessions
  BY DEF TypeOK, Declare
<1>4. QED BY <1>1, <1>2, <1>3

\* The verbs people ask for preserve the types.
LEMMA TypeVerb == TypeOK /\ Verb => TypeOK'
<1> SUFFICES ASSUME TypeOK, Verb PROVE TypeOK'
  OBVIOUS
<1> USE NamesAssumption, BoundsAssumption
<1>1. ASSUME NEW c \in Calls, NEW s \in Sessions, CreateSession(c, s) PROVE TypeOK'
  <2>1. Working("create", s, NoTmux) \in CallRecords
    BY WorkingType, NamesAssumption DEF Kinds
  <2>2. call' \in [Calls -> CallRecords]
    BY <1>1, <2>1, BecomesType DEF CreateSession, TypeOK
  <2>3. /\ row' \in [Sessions -> Statuses \cup {"none"}]
        /\ fresh' \subseteq Sessions
        /\ creating' \subseteq Sessions
    BY <1>1, DeclareType DEF CreateSession
  <2>4. asks' \in 0..MaxAsks /\ restarts' \in 0..MaxRestarts
    BY <1>1 DEF CreateSession, Asked, TypeOK
  <2>5. QED
    BY <1>1, <2>2, <2>3, <2>4 DEF TypeOK, CreateSession, Declare, tmux, maps
<1>2. ASSUME NEW c \in Calls, NEW s \in Sessions, RestoreSession(c, s) PROVE TypeOK'
  <2>1. Working("restore", s, NoTmux) \in CallRecords
    BY WorkingType, NamesAssumption DEF Kinds
  <2>2. call' \in [Calls -> CallRecords]
    BY <1>2, <2>1 DEF RestoreSession, TypeOK
  <2>3. QED
    BY <1>2, <2>2 DEF TypeOK, RestoreSession, Asked, manifest, tmux, maps
<1>3. ASSUME NEW c \in Calls, NEW s \in Sessions, KillSession(c, s) PROVE TypeOK'
  <2>1. BeginEnd(c, "end", s, Idle)
    BY <1>3 DEF KillSession
  <2>2. /\ row' \in [Sessions -> Statuses \cup {"none"}]
        /\ bound' \in [Sessions -> TmuxIds \cup {NoTmux}]
        /\ boundBy' \in [TmuxIds -> Sessions \cup {NoSession}]
        /\ call' \in [Calls -> CallRecords]
    BY <2>1, IdleType, BeginEndType DEF TypeOK, Kinds
  <2>3. QED
    BY <1>3, <2>2 DEF TypeOK, KillSession, Asked, tmux, flights
<1>4. ASSUME NEW c \in Calls, NEW old \in Sessions, NEW s \in Sessions,
             RestartSession(c, old, s) PROVE TypeOK'
  <2> DEFINE r == [Working("create", s, NoTmux) EXCEPT
                     !.old = old,
                     !.oldLive = row[old] \notin {"exited", "restorable"}]
  <2>1. r \in CallRecords
    <3>1. Working("create", s, NoTmux) \in CallRecords
      BY WorkingType, NamesAssumption DEF Kinds
    <3>2. QED BY <3>1 DEF CallRecords
  <2>2. call' \in [Calls -> CallRecords]
    <3>1. call' = Becomes(c, r, {s})
      BY <1>4 DEF RestartSession
    <3> HIDE DEF r
    <3>2. QED BY <2>1, <3>1, BecomesType DEF TypeOK
  <2>3. /\ row' \in [Sessions -> Statuses \cup {"none"}]
        /\ fresh' \subseteq Sessions
        /\ creating' \subseteq Sessions
    BY <1>4, DeclareType DEF RestartSession
  <2>4. asks' \in 0..MaxAsks /\ restarts' \in 0..MaxRestarts
    BY <1>4 DEF RestartSession, Asked, TypeOK
  <2>5. QED
    BY <1>4, <2>2, <2>3, <2>4 DEF TypeOK, RestartSession, Declare, tmux, maps
<1>5. ASSUME NEW s \in Sessions, RemoveSession(s) PROVE TypeOK'
  BY <1>5, UnbindType DEF TypeOK, RemoveSession, Release, Asked, Statuses, tmux, flights
<1>6. QED
  BY <1>1, <1>2, <1>3, <1>4, <1>5 DEF Verb

\* Creating a tmux session, for a row or by hand, keeps the server's types.
LEMMA MintType ==
  ASSUME TypeOK, nextId \in TmuxIds, NEW o \in Sessions \cup {Stranger, NoSession},
         minted' = [minted EXCEPT ![nextId] = o], revived' = revived \ {nextId},
         alive' = alive \cup {nextId}, nextId' = nextId + 1, husk' = husk
  PROVE  /\ minted' \in [TmuxIds -> Sessions \cup {Stranger, NoSession}]
         /\ revived' \subseteq TmuxIds /\ alive' \subseteq TmuxIds
         /\ husk' \subseteq alive' /\ nextId' \in 1..(MaxTmuxId + 1)
<1>1. minted' \in [TmuxIds -> Sessions \cup {Stranger, NoSession}]
  BY DEF TypeOK
<1>2. revived' \subseteq TmuxIds /\ alive' \subseteq TmuxIds /\ husk' \subseteq alive'
  BY DEF TypeOK
<1>3. nextId' \in 1..(MaxTmuxId + 1)
  BY BoundsAssumption DEF TypeOK, TmuxIds
<1>4. QED BY <1>1, <1>2, <1>3

\* A call about a row holds a session's id, once type correctness is known of it.
LEMMA CallFields ==
  ASSUME TypeOK, NEW c \in Calls
  PROVE  /\ call[c] \in CallRecords
         /\ call[c].kind \in Kinds
         /\ call[c].row \in Sessions \cup {NoSession}
         /\ call[c].tmux \in TmuxIds \cup {NoTmux}
         /\ call[c].list \subseteq TmuxIds \X Sessions
         /\ call[c].old \in Sessions \cup {NoSession}
         /\ call[c].kind \notin Rowless => call[c].row \in Sessions
         /\ call[c].kind = "swap" => call[c].old \in Sessions
  BY DEF TypeOK, CallRecords

LEMMA TypeSpawn == ASSUME TypeOK, NEW c \in Calls, Spawn(c) PROVE TypeOK'
<1>1. call[c].row \in Sessions \cup {Stranger, NoSession}
  BY CallFields
<1>2. /\ minted' \in [TmuxIds -> Sessions \cup {Stranger, NoSession}]
      /\ revived' \subseteq TmuxIds /\ alive' \subseteq TmuxIds
      /\ husk' \subseteq alive' /\ nextId' \in 1..(MaxTmuxId + 1)
  BY <1>1, MintType DEF Spawn
<1>3. call' \in [Calls -> CallRecords]
  <2>1. [call[c] EXCEPT !.tmux = nextId] \in CallRecords
    BY CallFields DEF Spawn, CallRecords
  <2>2. QED BY <2>1 DEF TypeOK, Spawn
<1>4. QED
  BY <1>2, <1>3 DEF TypeOK, Spawn, manifest, maps, flights, bounds

LEMMA TypeCreateDone == ASSUME TypeOK, NEW c \in Calls, CreateDone(c) PROVE TypeOK'
<1>1. /\ bound' \in [Sessions -> TmuxIds \cup {NoTmux}]
      /\ boundBy' \in [TmuxIds -> Sessions \cup {NoSession}]
  BY CallFields DEF TypeOK, CreateDone, Bind
<1>2. call' \in [Calls -> CallRecords]
  <2> DEFINE swap == [call[c] EXCEPT !.kind = "swap", !.tmux = NoTmux]
  <2>1. CASE call[c].old = NoSession \/ row[call[c].row] = "none"
    BY <2>1, IdleType DEF TypeOK, CreateDone
  <2>2. CASE ~(call[c].old = NoSession \/ row[call[c].row] = "none")
    <3>1. call[c].row \in Sessions
      BY CallFields DEF CreateDone, Rowless
    <3>2. swap \in CallRecords
      BY <2>2, <3>1, CallFields, NamesAssumption DEF CallRecords, Kinds
    <3>3. call' = [call EXCEPT ![c] = swap]
      BY <2>2 DEF CreateDone
    <3> HIDE DEF swap
    <3>4. QED BY <3>2, <3>3 DEF TypeOK
  <2>3. QED BY <2>1, <2>2
<1>3. creating' \subseteq Sessions
  BY DEF TypeOK, CreateDone
<1>4. QED
  BY <1>1, <1>2, <1>3 DEF TypeOK, CreateDone, manifest, tmux, bounds

LEMMA TypeCreateFails == ASSUME TypeOK, NEW c \in Calls, CreateFails(c) PROVE TypeOK'
<1>1. row' \in [Sessions -> Statuses \cup {"none"}] /\ removed' \subseteq Sessions
  BY DEF TypeOK, CreateFails, DeleteRow
<1>2. call' \in [Calls -> CallRecords]
  BY IdleType DEF TypeOK, CreateFails
<1>3. creating' \subseteq Sessions
  BY DEF TypeOK, CreateFails
<1>4. QED
  BY <1>1, <1>2, <1>3 DEF TypeOK, CreateFails, tmux, maps, bounds

LEMMA TypeRestoreDone == ASSUME TypeOK, NEW c \in Calls, RestoreDone(c) PROVE TypeOK'
<1> DEFINE s == call[c].row
<1>0. s \in Sessions
  BY CallFields DEF RestoreDone, Rowless
<1>1. /\ bound' \in [Sessions -> TmuxIds \cup {NoTmux}]
      /\ boundBy' \in [TmuxIds -> Sessions \cup {NoSession}]
  BY <1>0, CallFields DEF TypeOK, RestoreDone, Bind
<1>2. row' \in [Sessions -> Statuses \cup {"none"}]
  BY DEF TypeOK, RestoreDone, WriteStatus, Statuses
<1>3. restoring' \subseteq Sessions /\ removed' \subseteq Sessions
  BY DEF TypeOK, RestoreDone, DropsGuard
<1>4. revived' \subseteq TmuxIds
  BY CallFields DEF TypeOK, RestoreDone
<1>5. call' \in [Calls -> CallRecords]
  <2>1. call' = Becomes(c, Idle, {s})
    BY DEF RestoreDone
  <2>2. QED BY <1>0, <2>1, IdleType, BecomesType DEF TypeOK
<1>6. QED
  BY <1>1, <1>2, <1>3, <1>4, <1>5 DEF TypeOK, RestoreDone, bounds

LEMMA TypeRestoreFails == ASSUME TypeOK, NEW c \in Calls, RestoreFails(c) PROVE TypeOK'
<1>1. call' \in [Calls -> CallRecords] /\ restoring' \subseteq Sessions
  BY IdleType DEF TypeOK, RestoreFails, DropsGuard
<1>2. QED
  BY <1>1 DEF TypeOK, RestoreFails, manifest, tmux, maps, bounds

LEMMA TypeRestartEndsOld ==
  ASSUME TypeOK, NEW c \in Calls, RestartEndsOld(c) PROVE TypeOK'
<1> DEFINE waiting == [call[c] EXCEPT !.oldLive = FALSE]
<1>1. waiting \in CallRecords
  BY CallFields DEF CallRecords
<1>2. call[c].old \in Sessions
  BY CallFields DEF RestartEndsOld
<1>3. /\ row' \in [Sessions -> Statuses \cup {"none"}]
      /\ bound' \in [Sessions -> TmuxIds \cup {NoTmux}]
      /\ boundBy' \in [TmuxIds -> Sessions \cup {NoSession}]
      /\ call' \in [Calls -> CallRecords]
  <2>1. CASE EndRefused(call[c].old)
    <3>1. call' = [call EXCEPT ![c] = waiting] /\ UNCHANGED <<row, maps>>
      BY <2>1 DEF RestartEndsOld
    <3> HIDE DEF waiting
    <3>2. QED BY <1>1, <3>1 DEF TypeOK, maps
  <2>2. CASE ~EndRefused(call[c].old)
    <3>1. BeginEnd(c, "end", call[c].old, waiting)
      BY <2>2 DEF RestartEndsOld
    <3> HIDE DEF waiting
    <3>2. QED BY <1>1, <1>2, <3>1, BeginEndType DEF Kinds
  <2>3. QED BY <2>1, <2>2
<1>4. QED
  BY <1>3 DEF TypeOK, RestartEndsOld, tmux, flights, bounds

\* What is left of a call after its End is a call.
LEMMA AfterEndType == ASSUME TypeOK, NEW c \in Calls, call[c].kind \notin Rowless
                      PROVE  AfterEnd(c) \in CallRecords
<1>1. CASE call[c].old = NoSession
  BY <1>1, IdleType DEF AfterEnd
<1>2. CASE call[c].old # NoSession
  BY <1>2, CallFields, NamesAssumption DEF AfterEnd, CallRecords, Kinds
<1>3. QED BY <1>1, <1>2

LEMMA TypeHangUp == ASSUME TypeOK, NEW c \in Calls, HangUp(c) PROVE TypeOK'
<1> DEFINE k == IF call[c].kind = "end" THEN "hungEnd" ELSE "hungReap"
<1>1. [call[c] EXCEPT !.kind = k] \in CallRecords
  BY CallFields, NamesAssumption DEF HangUp, CallRecords, Kinds, Rowless
<1>2. call' \in [Calls -> CallRecords]
  BY <1>1 DEF TypeOK, HangUp
<1>3. alive' \subseteq TmuxIds /\ husk' \subseteq alive'
  BY DEF TypeOK, HangUp
<1>4. refreshDue' \in BOOLEAN
  BY DEF TypeOK, HangUp
<1>5. QED
  BY <1>2, <1>3, <1>4 DEF TypeOK, HangUp, manifest, maps, flights, bounds

LEMMA TypeHangUpFails == ASSUME TypeOK, NEW c \in Calls, HangUpFails(c) PROVE TypeOK'
<1>1. call' \in [Calls -> CallRecords]
  <2>1. CASE call[c].kind = "end" /\ call' = [call EXCEPT ![c] = AfterEnd(c)]
    BY <2>1, AfterEndType DEF TypeOK, Rowless
  <2>2. CASE call[c].kind = "reap" /\ call' = [call EXCEPT ![c].kind = "hungReap"]
    <3>1. [call[c] EXCEPT !.kind = "hungReap"] \in CallRecords
      BY <2>2, CallFields, NamesAssumption DEF CallRecords, Kinds, Rowless
    <3>2. QED BY <2>2, <3>1 DEF TypeOK
  <2>3. QED BY <2>1, <2>2 DEF HangUpFails
<1>2. QED
  BY <1>1 DEF TypeOK, HangUpFails, manifest, tmux, maps, flights, bounds

LEMMA TypeFinishEnd == ASSUME TypeOK, NEW c \in Calls, FinishEnd(c) PROVE TypeOK'
<1> DEFINE s == call[c].row
           W == IF row[s] = "none" THEN {} ELSE {s}
<1>1. s \in Sessions /\ call[c].tmux \in TmuxIds \cup {NoTmux}
  BY CallFields DEF FinishEnd, Rowless
<1>2. /\ bound' \in [Sessions -> TmuxIds \cup {NoTmux}]
      /\ boundBy' \in [TmuxIds -> Sessions \cup {NoSession}]
  BY <1>1, UnbindType DEF FinishEnd, MarkExited
<1>3. row' \in [Sessions -> Statuses \cup {"none"}]
  BY DEF TypeOK, FinishEnd, MarkExited, WriteStatus, Statuses
<1>4. call' \in [Calls -> CallRecords]
  <2>1. AfterEnd(c) \in CallRecords
    BY AfterEndType DEF FinishEnd, Rowless
  <2>2. call' = Becomes(c, AfterEnd(c), W) /\ W \in SUBSET Sessions
    BY <1>1 DEF FinishEnd
  <2> HIDE DEF W
  <2>3. QED BY <2>1, <2>2, BecomesType DEF TypeOK
<1>5. QED
  BY <1>2, <1>3, <1>4 DEF TypeOK, FinishEnd, tmux, flights, bounds

LEMMA TypeDiscardOld == ASSUME TypeOK, NEW c \in Calls, DiscardOld(c) PROVE TypeOK'
<1>1. call[c].old \in Sessions
  BY CallFields DEF DiscardOld
<1>2. /\ bound' \in [Sessions -> TmuxIds \cup {NoTmux}]
      /\ boundBy' \in [TmuxIds -> Sessions \cup {NoSession}]
  <2>1. bound[call[c].old] \in TmuxIds \cup {NoTmux}
    BY <1>1 DEF TypeOK
  <2>2. QED BY <1>1, <2>1, UnbindType DEF DiscardOld, Release
<1>3. row' \in [Sessions -> Statuses \cup {"none"}] /\ removed' \subseteq Sessions
  BY DEF TypeOK, DiscardOld, DeleteRow
<1>4. call' \in [Calls -> CallRecords]
  BY IdleType DEF TypeOK, DiscardOld
<1>5. QED
  BY <1>2, <1>3, <1>4 DEF TypeOK, DiscardOld, tmux, flights, bounds

\* The activity tick preserves the types.
LEMMA TypeTick == TypeOK /\ Tick => TypeOK'
<1> SUFFICES ASSUME TypeOK, Tick PROVE TypeOK'
  OBVIOUS
<1>1. CASE TickReads
  <2>1. sample' \in [Sessions -> {"none", "alive", "dead"}]
    BY <1>1 DEF TickReads
  <2>2. QED
    BY <1>1, <2>1 DEF TypeOK, TickReads, manifest, tmux, maps, flights, bounds
<1>2. ASSUME NEW s \in Sessions, TickDetects(s) PROVE TypeOK'
  <2>1. sample' \in [Sessions -> {"none", "alive", "dead"}]
    BY <1>2 DEF TickDetects, TypeOK
  <2>2. row' \in [Sessions -> Statuses \cup {"none"}]
    BY <1>2 DEF TickDetects, TypeOK, Statuses
  <2>3. call' \in [Calls -> CallRecords]
    <3>1. CASE UNCHANGED <<row, call>>
      BY <3>1 DEF TypeOK
    <3>2. CASE call' = Stamp(call, {s})
      BY <3>2, StampType DEF TypeOK
    <3>3. QED BY <1>2, <3>1, <3>2 DEF TickDetects
  <2>4. QED
    BY <1>2, <2>1, <2>2, <2>3 DEF TypeOK, TickDetects, tmux, maps, flights, bounds
<1>3. ASSUME NEW c \in Calls, NEW s \in Sessions, TickReaps(c, s) PROVE TypeOK'
  <2>1. sample' \in [Sessions -> {"none", "alive", "dead"}]
    BY <1>3 DEF TickReaps, TypeOK
  <2>2. /\ row' \in [Sessions -> Statuses \cup {"none"}]
        /\ bound' \in [Sessions -> TmuxIds \cup {NoTmux}]
        /\ boundBy' \in [TmuxIds -> Sessions \cup {NoSession}]
        /\ call' \in [Calls -> CallRecords]
    <3>1. CASE ReapRefused(s)
      BY <1>3, <3>1 DEF TickReaps, TypeOK, maps
    <3>2. CASE ~ReapRefused(s)
      BY <1>3, <3>2, IdleType, BeginEndType DEF TickReaps, Kinds
    <3>3. QED BY <3>1, <3>2
  <2>3. QED
    BY <1>3, <2>1, <2>2 DEF TypeOK, TickReaps, tmux, flights, bounds
<1>4. QED
  BY <1>1, <1>2, <1>3 DEF Tick

LEMMA TypeRefreshBegins ==
  ASSUME TypeOK, NEW c \in Calls, RefreshBegins(c) PROVE TypeOK'
<1>1. Working("listing", NoSession, NoTmux) \in CallRecords
  BY WorkingType DEF Kinds, Rowless
<1>2. call' \in [Calls -> CallRecords]
  BY <1>1 DEF TypeOK, RefreshBegins
<1>3. QED
  BY <1>2 DEF TypeOK, RefreshBegins, manifest, tmux, maps, flights, bounds

LEMMA TypeRefreshLists ==
  ASSUME TypeOK, NEW c \in Calls, RefreshLists(c) PROVE TypeOK'
<1> DEFINE r == [call[c] EXCEPT !.kind = "listed", !.list = LiveIdentities]
<1>1. LiveIdentities \subseteq TmuxIds \X Sessions
  BY DEF LiveIdentities
<1>2. r \in CallRecords
  BY <1>1, CallFields DEF CallRecords, Kinds, Rowless
<1>3. call' = [call EXCEPT ![c] = r]
  BY DEF RefreshLists, TypeOK
<1>4. call' \in [Calls -> CallRecords]
  <2> HIDE DEF r
  <2>1. QED BY <1>2, <1>3 DEF TypeOK
<1>5. QED
  BY <1>4 DEF TypeOK, RefreshLists, manifest, tmux, maps, flights, bounds

LEMMA TypeRefreshUnreachable ==
  ASSUME TypeOK, NEW c \in Calls, RefreshUnreachable(c) PROVE TypeOK'
<1>1. call' \in [Calls -> CallRecords]
  BY IdleType DEF TypeOK, RefreshUnreachable
<1>2. row' \in [Sessions -> Statuses \cup {"none"}]
  BY DEF TypeOK, RefreshUnreachable, Statuses
<1>3. up' \in {"down", "booting", "up"} /\ refreshDue' \in BOOLEAN
  BY DEF TypeOK, RefreshUnreachable, BootMoves, ScheduleRetry
<1>4. QED
  BY <1>1, <1>2, <1>3 DEF TypeOK, RefreshUnreachable, tmux, maps, flights, bounds

\* The sessions of a list are sessions.
LEMMA ClaimedType ==
  ASSUME TypeOK, NEW c \in Calls
  PROVE  Claimed(c) \subseteq Sessions
  BY CallFields DEF Claimed, Listed

LEMMA TypeRefreshApplies ==
  ASSUME TypeOK, NEW c \in Calls, RefreshApplies(c) PROVE TypeOK'
<1>1. PICK stale \in SUBSET (creating \cap SlowCreates), pick \in [Claimed(c) -> TmuxIds] :
        LET inFlight == (creating \ stale) \cup restoring
            taken == {pick[s] : s \in Claimed(c)}
            kept == {s \in Skipped(c, inFlight) : bound[s] \in TmuxIds \ taken}
        IN /\ \A s \in Claimed(c) : <<pick[s], s>> \in call[c].list
           /\ \E keep \in SUBSET kept :
                /\ \A s \in kept : \E u \in keep : bound[u] = bound[s]
                /\ \A s, u \in keep : bound[s] = bound[u] => s = u
                /\ bound' = Rebound(c, pick, keep)
                /\ boundBy' = [t \in TmuxIds |->
                     IF \E s \in Claimed(c) \cup keep : Rebound(c, pick, keep)[s] = t
                     THEN CHOOSE s \in Claimed(c) \cup keep :
                            Rebound(c, pick, keep)[s] = t
                     ELSE NoSession]
           /\ creating' = creating \ stale
           /\ row' = Judged(c, inFlight)
  BY DEF RefreshApplies
<1> DEFINE inFlight == (creating \ stale) \cup restoring
           taken == {pick[s] : s \in Claimed(c)}
           kept == {s \in Skipped(c, inFlight) : bound[s] \in TmuxIds \ taken}
<1>2. PICK keep \in SUBSET kept :
        /\ \A s \in kept : \E u \in keep : bound[u] = bound[s]
        /\ \A s, u \in keep : bound[s] = bound[u] => s = u
        /\ bound' = Rebound(c, pick, keep)
        /\ boundBy' = [t \in TmuxIds |->
             IF \E s \in Claimed(c) \cup keep : Rebound(c, pick, keep)[s] = t
             THEN CHOOSE s \in Claimed(c) \cup keep : Rebound(c, pick, keep)[s] = t
             ELSE NoSession]
  BY <1>1
<1>3. bound' \in [Sessions -> TmuxIds \cup {NoTmux}]
  BY <1>2 DEF Rebound, TypeOK
<1>4. Claimed(c) \cup keep \subseteq Sessions
  <2>1. creating \subseteq Sessions /\ restoring \subseteq Sessions
        /\ call[c].newer \subseteq Sessions
    BY CallFields DEF TypeOK, CallRecords
  <2>2. Skipped(c, inFlight) \subseteq Sessions
    BY <2>1 DEF Skipped, TooNew
  <2>3. QED BY <1>2, <2>2, ClaimedType
<1>5. boundBy' \in [TmuxIds -> Sessions \cup {NoSession}]
  <2> DEFINE Holds(s, t) == Rebound(c, pick, keep)[s] = t
  <2>1. boundBy' = [t \in TmuxIds |->
          IF \E s \in Claimed(c) \cup keep : Holds(s, t)
          THEN CHOOSE s \in Claimed(c) \cup keep : Holds(s, t) ELSE NoSession]
    BY <1>2
  <2> HIDE DEF Holds
  <2>2. ASSUME NEW t \in TmuxIds, \E s \in Claimed(c) \cup keep : Holds(s, t)
        PROVE  (CHOOSE s \in Claimed(c) \cup keep : Holds(s, t)) \in Sessions
    BY <1>4, <2>2
  <2>3. QED BY <2>1, <2>2
<1>6. row' \in [Sessions -> Statuses \cup {"none"}]
  BY <1>1 DEF Judged, TypeOK, Statuses
<1>7. creating' \subseteq Sessions
  BY <1>1 DEF TypeOK
<1>8. call' \in [Calls -> CallRecords]
  BY IdleType, ClaimedType, BecomesType DEF RefreshApplies, TypeOK
<1>9. up' \in {"down", "booting", "up"}
  BY DEF RefreshApplies, BootMoves, TypeOK
<1>10. QED
  BY <1>3, <1>5, <1>6, <1>7, <1>8, <1>9 DEF TypeOK, RefreshApplies, tmux, bounds

LEMMA TypeBoot == ASSUME TypeOK, NEW c \in Calls, Boot(c) PROVE TypeOK'
<1>1. Working("listing", NoSession, NoTmux) \in CallRecords
  BY WorkingType DEF Kinds, Rowless
<1>2. [Working("listing", NoSession, NoTmux) EXCEPT !.boot = TRUE] \in CallRecords
  BY <1>1 DEF CallRecords
<1>3. call' \in [Calls -> CallRecords]
  BY <1>2 DEF TypeOK, Boot
<1>4. QED
  BY <1>3 DEF TypeOK, Boot, manifest, tmux, maps, flights, bounds

\* What the sessions, the server and the application do preserves the types.
LEMMA TypeEnvironment == TypeOK /\ Environment => TypeOK'
<1> SUFFICES ASSUME TypeOK, Environment PROVE TypeOK'
  OBVIOUS
<1>1. CASE ScheduleRefresh
  BY <1>1 DEF TypeOK, ScheduleRefresh, manifest, tmux, maps, flights, bounds
<1>2. ASSUME NEW t \in TmuxIds, PaneFails(t) PROVE TypeOK'
  BY <1>2 DEF TypeOK, PaneFails, manifest, maps, flights, bounds
<1>3. ASSUME NEW t \in TmuxIds, SessionCloses(t) PROVE TypeOK'
  <2>1. alive' \subseteq TmuxIds /\ husk' \subseteq alive' /\ refreshDue' \in BOOLEAN
    BY <1>3 DEF TypeOK, SessionCloses
  <2>2. QED
    BY <1>3, <2>1 DEF TypeOK, SessionCloses, manifest, maps, flights, bounds
<1>4. CASE StrangerSpawns
  <2>1. /\ minted' \in [TmuxIds -> Sessions \cup {Stranger, NoSession}]
        /\ revived' \subseteq TmuxIds /\ alive' \subseteq TmuxIds
        /\ husk' \subseteq alive' /\ nextId' \in 1..(MaxTmuxId + 1)
    BY <1>4, MintType DEF StrangerSpawns
  <2>2. refreshDue' \in BOOLEAN
    BY <1>4 DEF TypeOK, StrangerSpawns
  <2>3. QED
    BY <1>4, <2>1, <2>2 DEF TypeOK, StrangerSpawns, manifest, maps, flights, bounds
<1>5. CASE ServerDies
  <2>1. nextId' \in 1..(MaxTmuxId + 1) /\ deaths' \in 0..MaxServerDeaths
    BY <1>5, BoundsAssumption DEF TypeOK, ServerDies
  <2>2. refreshDue' \in BOOLEAN
    BY <1>5 DEF TypeOK, ServerDies
  <2>3. alive' \subseteq TmuxIds /\ husk' \subseteq alive'
    BY <1>5 DEF ServerDies
  <2>4. QED
    BY <1>5, <2>1, <2>2, <2>3 DEF TypeOK, ServerDies, manifest, maps, flights
<1>6. CASE AppDies
  <2>1. crashes' \in 0..MaxCrashes
    BY <1>6, BoundsAssumption DEF TypeOK, AppDies
  <2>2. /\ bound' \in [Sessions -> TmuxIds \cup {NoTmux}]
        /\ boundBy' \in [TmuxIds -> Sessions \cup {NoSession}]
        /\ sample' \in [Sessions -> {"none", "alive", "dead"}]
        /\ call' \in [Calls -> CallRecords]
    BY <1>6, IdleType DEF AppDies
  <2>3. creating' \subseteq Sessions /\ restoring' \subseteq Sessions
        /\ refreshDue' \in BOOLEAN /\ up' \in {"down", "booting", "up"}
    BY <1>6 DEF AppDies
  <2>4. QED
    BY <1>6, <2>1, <2>2, <2>3 DEF TypeOK, AppDies, manifest, tmux
<1>7. QED
  BY <1>1, <1>2, <1>3, <1>4, <1>5, <1>6 DEF Environment

\* Every step preserves the types.
LEMMA TypeStep == TypeOK /\ [Next]_vars => TypeOK'
<1> SUFFICES ASSUME TypeOK, [Next]_vars PROVE TypeOK'
  OBVIOUS
<1>1. ASSUME NEW c \in Calls, Progress(c) PROVE TypeOK'
  BY <1>1, TypeSpawn, TypeCreateDone, TypeRestoreDone, TypeRestartEndsOld,
     TypeDiscardOld, TypeHangUp, TypeFinishEnd, TypeRefreshBegins,
     TypeRefreshLists, TypeRefreshApplies, TypeBoot DEF Progress
<1>2. ASSUME NEW c \in Calls, Failure(c) PROVE TypeOK'
  BY <1>2, TypeCreateFails, TypeRestoreFails, TypeHangUpFails,
     TypeRefreshUnreachable DEF Failure
<1>3. CASE UNCHANGED vars
  BY <1>3 DEF TypeOK, vars, manifest, tmux, maps, flights, bounds
<1>4. QED
  BY <1>1, <1>2, <1>3, TypeVerb, TypeTick, TypeEnvironment DEF Next

(* Type correctness: every variable of the core, the manifest and the server
   stays in its set, and a call about a row always names one. *)
THEOREM TypeCorrect == Spec => []TypeOK
  BY TypeInit, TypeStep, PTL DEF Spec

-----------------------------------------------------------------------------
(* Who holds which $-id *)

LEMMA OwnInit == Init => Own
<1> SUFFICES ASSUME Init PROVE Own
  OBVIOUS
<1>1. MapsOwn
  BY DEF Init, MapsOwn
<1>2. CallsOwn
  BY DEF Init, CallsOwn, OwnCall, Idle
<1>3. AliveMinted
  BY DEF Init, AliveMinted
<1>4. QED BY <1>1, <1>2, <1>3 DEF Own

LEMMA IdleOwn == OwnCall(Idle)
  BY DEF OwnCall, Idle

\* A call that replaces another, rows stamped or not, leaves every call own.
LEMMA CallsOwnKept ==
  ASSUME TypeOK, CallsOwn, minted' = minted, nextId' = nextId,
         NEW c \in Calls, NEW r \in CallRecords, OwnCall(r), NEW W,
         call' = Becomes(c, r, W) \/ call' = [call EXCEPT ![c] = r]
  PROVE  CallsOwn'
<1>1. ASSUME NEW d \in Calls
      PROVE  /\ call'[d].tmux = r.tmux /\ call'[d].row = r.row
                /\ call'[d].kind = r.kind /\ call'[d].list = r.list
             \/ /\ call'[d].tmux = call[d].tmux /\ call'[d].row = call[d].row
                /\ call'[d].kind = call[d].kind /\ call'[d].list = call[d].list
  <2>1. call \in [Calls -> CallRecords]
    BY DEF TypeOK
  <2>2. CASE call' = Becomes(c, r, W)
    <3>1. CASE d = c
      BY <2>2, <3>1 DEF Becomes, Stamp
    <3>2. CASE d # c
      <4>1. call'[d] = IF call[d].kind \in Refreshing
                       THEN [call[d] EXCEPT !.newer = @ \cup W] ELSE call[d]
        BY <2>2, <3>2 DEF Becomes, Stamp
      <4>2. QED BY <2>1, <4>1 DEF CallRecords
    <3>3. QED BY <3>1, <3>2
  <2>3. CASE call' = [call EXCEPT ![c] = r]
    BY <2>1, <2>3
  <2>4. QED BY <2>2, <2>3
<1>2. QED BY <1>1 DEF CallsOwn, OwnCall

\* Binding a session to the id minted for it.
LEMMA BindOwn ==
  ASSUME TypeOK, MapsOwn, minted' = minted, nextId' = nextId,
         NEW s \in Sessions, NEW t \in TmuxIds, t < nextId, minted[t] = s, Bind(s, t)
  PROVE  MapsOwn'
<1> SUFFICES ASSUME NEW u \in Sessions, bound'[u] # NoTmux
             PROVE  bound'[u] < nextId /\ minted[bound'[u]] = u /\ boundBy'[bound'[u]] = u
  BY DEF MapsOwn
<1>1. CASE u = s
  BY <1>1 DEF Bind, TypeOK
<1>2. CASE u # s
  <2>1. bound'[u] = bound[u] /\ bound[u] # NoTmux
    BY <1>2 DEF Bind, TypeOK
  <2>2. bound[u] < nextId /\ minted[bound[u]] = u /\ boundBy[bound[u]] = u
    BY <2>1 DEF MapsOwn
  <2>3. boundBy'[bound[u]] = boundBy[bound[u]]
    BY <1>2, <2>1, <2>2 DEF Bind, TypeOK
  <2>4. QED BY <2>1, <2>2, <2>3
<1>3. QED BY <1>1, <1>2

\* Unbinding a session from the id minted for it, or from none.
LEMMA UnbindOwn ==
  ASSUME TypeOK, MapsOwn, minted' = minted, nextId' = nextId,
         NEW s \in Sessions, NEW t \in TmuxIds \cup {NoTmux},
         t = NoTmux \/ minted[t] = s, Unbind(s, t)
  PROVE  MapsOwn'
<1> SUFFICES ASSUME NEW u \in Sessions, bound'[u] # NoTmux
             PROVE  bound'[u] < nextId /\ minted[bound'[u]] = u /\ boundBy'[bound'[u]] = u
  BY DEF MapsOwn
<1>1. u # s /\ bound'[u] = bound[u]
  BY DEF Unbind, TypeOK
<1>2. bound[u] < nextId /\ minted[bound[u]] = u /\ boundBy[bound[u]] = u
  BY <1>1 DEF MapsOwn
<1>3. bound[u] # t /\ bound[u] \in TmuxIds
  BY <1>1, <1>2 DEF TypeOK
<1>4. boundBy'[bound[u]] = boundBy[bound[u]]
  BY <1>3 DEF Unbind
<1>5. QED BY <1>1, <1>2, <1>4

\* Letting go of whatever a session holds.
LEMMA ReleaseOwn ==
  ASSUME TypeOK, MapsOwn, minted' = minted, nextId' = nextId,
         NEW s \in Sessions, Release(s)
  PROVE  MapsOwn'
<1>1. bound[s] \in TmuxIds \cup {NoTmux}
  BY DEF TypeOK
<1>2. bound[s] = NoTmux \/ minted[bound[s]] = s
  BY DEF MapsOwn
<1>3. QED BY <1>1, <1>2, UnbindOwn DEF Release

\* An End or a reap that begins holds the id liveIds has, or ends at once.
LEMMA BeginEndOwn ==
  ASSUME TypeOK, MapsOwn, CallsOwn, minted' = minted, nextId' = nextId,
         NEW c \in Calls, NEW k \in Kinds \ {"swap"}, NEW s \in Sessions,
         NEW next \in CallRecords, OwnCall(next), BeginEnd(c, k, s, next)
  PROVE  MapsOwn' /\ CallsOwn'
<1>1. CASE bound[s] = NoTmux /\ MarkExited(s, NoTmux) /\ call' = Becomes(c, next, {s})
  <2>1. MapsOwn'
    BY <1>1, UnbindOwn DEF MarkExited
  <2>2. CallsOwn'
    BY <1>1, CallsOwnKept
  <2>3. QED BY <2>1, <2>2
<1>2. CASE /\ bound[s] # NoTmux
           /\ call' = [call EXCEPT ![c] = [next EXCEPT !.kind = k, !.row = s,
                                                       !.tmux = bound[s]]]
           /\ UNCHANGED <<row, maps>>
  <2> DEFINE r == [next EXCEPT !.kind = k, !.row = s, !.tmux = bound[s]]
  <2>1. r \in CallRecords
    BY NamesAssumption DEF TypeOK, CallRecords
  <2>2. OwnCall(r)
    <3>1. r.tmux = bound[s] /\ r.row = s /\ r.list = next.list
      BY DEF CallRecords
    <3>2. bound[s] < nextId /\ minted[bound[s]] = s
      BY <1>2 DEF MapsOwn
    <3> HIDE DEF r
    <3>3. QED BY <1>2, <3>1, <3>2 DEF OwnCall
  <2>3. call' = [call EXCEPT ![c] = r]
    BY <1>2
  <2>4. CallsOwn'
    <3> HIDE DEF r
    <3>1. QED BY <2>1, <2>2, <2>3, CallsOwnKept
  <2>5. MapsOwn'
    BY <1>2 DEF MapsOwn, maps
  <2>6. QED BY <2>4, <2>5
<1>3. QED BY <1>1, <1>2 DEF BeginEnd

\* A fresh $-id is one nobody holds, so minting it takes it from nobody.
LEMMA MintOwn ==
  ASSUME TypeOK, MapsOwn, AliveMinted, nextId \in TmuxIds, NEW o,
         minted' = [minted EXCEPT ![nextId] = o], alive' = alive \cup {nextId},
         nextId' = nextId + 1, UNCHANGED maps
  PROVE  MapsOwn' /\ AliveMinted'
<1>1. \A t \in TmuxIds : t < nextId => minted'[t] = minted[t] /\ t < nextId'
  BY BoundsAssumption DEF TypeOK, TmuxIds
<1>2. ASSUME NEW s \in Sessions, bound'[s] # NoTmux
      PROVE  bound'[s] < nextId' /\ minted'[bound'[s]] = s /\ boundBy'[bound'[s]] = s
  <2>1. bound[s] \in TmuxIds /\ bound[s] < nextId
    BY <1>2 DEF MapsOwn, TypeOK, maps
  <2>2. QED BY <1>1, <1>2, <2>1 DEF MapsOwn, maps
<1>3. AliveMinted'
  BY BoundsAssumption DEF AliveMinted, TypeOK, TmuxIds
<1>4. QED BY <1>2, <1>3 DEF MapsOwn

\* The same for what a call holds.
LEMMA MintOwnCall ==
  ASSUME TypeOK, nextId \in TmuxIds, NEW o, NEW d \in Calls, OwnCall(call[d]),
         minted' = [minted EXCEPT ![nextId] = o], nextId' = nextId + 1
  PROVE  /\ call[d].tmux # NoTmux =>
              call[d].tmux < nextId' /\ minted'[call[d].tmux] = call[d].row
         /\ \A p \in call[d].list : p[1] < nextId' /\ minted'[p[1]] = p[2]
<1>1. \A t \in TmuxIds : t < nextId => minted'[t] = minted[t] /\ t < nextId'
  BY BoundsAssumption DEF TypeOK, TmuxIds
<1>2. ASSUME NEW p \in call[d].list PROVE p[1] < nextId' /\ minted'[p[1]] = p[2]
  <2>1. p[1] \in TmuxIds
    BY CallFields
  <2>2. p[1] < nextId /\ minted[p[1]] = p[2]
    BY DEF OwnCall
  <2>3. QED BY <1>1, <2>1, <2>2
<1>3. QED BY <1>1, <1>2, CallFields DEF OwnCall

\* What every lemma below assumes of the step and of the state before it.
Held == TypeOK /\ MapsOwn /\ CallsOwn /\ AliveMinted
SameIds == minted' = minted /\ nextId' = nextId
AllOwn == MapsOwn /\ CallsOwn /\ AliveMinted

\* Nothing changes hands in a step that leaves calls, maps and ids alone.
LEMMA StillOwn ==
  ASSUME CallsOwn, MapsOwn, SameIds, call' = call, UNCHANGED maps
  PROVE  MapsOwn' /\ CallsOwn'
<1>1. MapsOwn'
  BY DEF MapsOwn, SameIds, maps
<1>2. CallsOwn'
  <2>1. ASSUME NEW d \in Calls PROVE OwnCall(call[d])'
    <3>1. OwnCall(call[d])
      BY DEF CallsOwn
    <3>2. QED BY <3>1 DEF OwnCall, SameIds
  <2>2. QED BY <2>1 DEF CallsOwn
<1>3. QED BY <1>1, <1>2

\* The verbs keep every id with its session.
LEMMA OwnVerb == Held /\ Verb => AllOwn'
<1> SUFFICES ASSUME Held, Verb PROVE AllOwn'
  OBVIOUS
<1> USE DEF Held, AllOwn
<1>1. ASSUME NEW c \in Calls, NEW s \in Sessions, CreateSession(c, s) PROVE AllOwn'
  <2>1. Working("create", s, NoTmux) \in CallRecords
    BY WorkingType, NamesAssumption DEF Kinds
  <2>2. OwnCall(Working("create", s, NoTmux))
    BY DEF OwnCall, Working, Idle
  <2>3. SameIds /\ call' = Becomes(c, Working("create", s, NoTmux), {s})
    BY <1>1 DEF CreateSession, Declare, tmux, SameIds
  <2>4. CallsOwn'
    BY <2>1, <2>2, <2>3, CallsOwnKept DEF SameIds
  <2>5. MapsOwn' /\ AliveMinted'
    BY <1>1 DEF CreateSession, Declare, tmux, maps, MapsOwn, AliveMinted
  <2>6. QED BY <2>4, <2>5
<1>2. ASSUME NEW c \in Calls, NEW s \in Sessions, RestoreSession(c, s) PROVE AllOwn'
  <2>1. Working("restore", s, NoTmux) \in CallRecords
    BY WorkingType, NamesAssumption DEF Kinds
  <2>2. OwnCall(Working("restore", s, NoTmux))
    BY DEF OwnCall, Working, Idle
  <2>3. SameIds /\ call' = [call EXCEPT ![c] = Working("restore", s, NoTmux)]
    BY <1>2 DEF RestoreSession, tmux, SameIds
  <2>4. CallsOwn'
    BY <2>1, <2>2, <2>3, CallsOwnKept DEF SameIds
  <2>5. MapsOwn' /\ AliveMinted'
    BY <1>2 DEF RestoreSession, tmux, maps, MapsOwn, AliveMinted
  <2>6. QED BY <2>4, <2>5
<1>3. ASSUME NEW c \in Calls, NEW s \in Sessions, KillSession(c, s) PROVE AllOwn'
  <2>1. BeginEnd(c, "end", s, Idle) /\ SameIds /\ alive' = alive
    BY <1>3 DEF KillSession, tmux, SameIds
  <2>2. MapsOwn' /\ CallsOwn'
    BY <2>1, IdleOwn, IdleType, BeginEndOwn DEF Kinds, SameIds
  <2>3. AliveMinted'
    BY <2>1 DEF AliveMinted, SameIds
  <2>4. QED BY <2>2, <2>3
<1>4. ASSUME NEW c \in Calls, NEW old \in Sessions, NEW s \in Sessions,
             RestartSession(c, old, s) PROVE AllOwn'
  <2> DEFINE r == [Working("create", s, NoTmux) EXCEPT
                     !.old = old,
                     !.oldLive = row[old] \notin {"exited", "restorable"}]
  <2>1. r \in CallRecords
    <3>1. Working("create", s, NoTmux) \in CallRecords
      BY WorkingType, NamesAssumption DEF Kinds
    <3>2. QED BY <3>1, NamesAssumption DEF CallRecords
  <2>2. OwnCall(r)
    BY DEF OwnCall, Working, Idle
  <2>3. SameIds /\ call' = Becomes(c, r, {s})
    BY <1>4 DEF RestartSession, Declare, tmux, SameIds
  <2>4. CallsOwn'
    <3> HIDE DEF r
    <3>1. QED BY <2>1, <2>2, <2>3, CallsOwnKept DEF SameIds
  <2>5. MapsOwn' /\ AliveMinted'
    BY <1>4 DEF RestartSession, Declare, tmux, maps, MapsOwn, AliveMinted
  <2>6. QED BY <2>4, <2>5
<1>5. ASSUME NEW s \in Sessions, RemoveSession(s) PROVE AllOwn'
  <2>1. SameIds /\ alive' = alive /\ call' = call /\ Release(s)
    BY <1>5 DEF RemoveSession, tmux, SameIds
  <2>2. MapsOwn'
    BY <2>1, ReleaseOwn DEF SameIds
  <2>3. CallsOwn' /\ AliveMinted'
    BY <2>1 DEF SameIds, CallsOwn, OwnCall, AliveMinted
  <2>4. QED BY <2>2, <2>3
<1>6. QED
  BY <1>1, <1>2, <1>3, <1>4, <1>5 DEF Verb

\* A create or a restore that spawns holds the id minted for its row.
LEMMA OwnSpawn == ASSUME Held, NEW c \in Calls, Spawn(c) PROVE AllOwn'
<1> USE DEF Held
<1> DEFINE r == [call[c] EXCEPT !.tmux = nextId]
<1>1. MapsOwn' /\ AliveMinted'
  BY MintOwn DEF Spawn
<1>2. nextId \in TmuxIds /\ nextId < nextId' /\ minted'[nextId] = call[c].row
  BY BoundsAssumption DEF Spawn, TypeOK, TmuxIds
<1>3. ASSUME NEW d \in Calls PROVE OwnCall(call[d])'
  <2>1. CASE d # c
    <3>1. call'[d] = call[d] /\ call[d] \in CallRecords /\ OwnCall(call[d])
      BY <2>1, CallFields DEF Spawn, TypeOK, CallsOwn
    <3>2. /\ call[d].tmux # NoTmux =>
               call[d].tmux < nextId' /\ minted'[call[d].tmux] = call[d].row
          /\ \A p \in call[d].list : p[1] < nextId' /\ minted'[p[1]] = p[2]
      BY <3>1, MintOwnCall DEF Spawn
    <3>3. QED BY <3>1, <3>2 DEF OwnCall
  <2>2. CASE d = c
    <3>1. call'[c] = r /\ call[c] \in CallRecords /\ OwnCall(call[c])
      BY CallFields DEF Spawn, TypeOK, CallsOwn
    <3>2. r.tmux = nextId /\ r.row = call[c].row /\ r.list = call[c].list
      BY <3>1 DEF CallRecords
    <3>3. nextId # NoTmux
      BY <1>2 DEF TmuxIds, NoTmux
    <3>4. \A p \in call[c].list : p[1] < nextId' /\ minted'[p[1]] = p[2]
      BY <3>1, MintOwnCall DEF Spawn
    <3> HIDE DEF r
    <3>5. QED BY <1>2, <2>2, <3>1, <3>2, <3>3, <3>4 DEF OwnCall
  <2>3. QED BY <2>1, <2>2
<1>4. QED BY <1>1, <1>3 DEF CallsOwn, AllOwn

\* A create or a restore that ends binds its row to the id it holds.
LEMMA OwnDone ==
  ASSUME Held, NEW c \in Calls, CreateDone(c) \/ RestoreDone(c) PROVE AllOwn'
<1> USE DEF Held
<1> DEFINE t == call[c].tmux
<1>1. t \in TmuxIds /\ t < nextId /\ minted[t] = call[c].row /\ OwnCall(call[c])
  BY CallFields DEF CreateDone, RestoreDone, CallsOwn, OwnCall
<1>2. call[c].row \in Sessions /\ Bind(call[c].row, t)
  BY CallFields DEF CreateDone, RestoreDone, Rowless
<1>3. SameIds /\ alive' = alive
  BY DEF CreateDone, RestoreDone, tmux, SameIds
<1>4. MapsOwn'
  BY <1>1, <1>2, <1>3, BindOwn DEF SameIds
<1>5. CallsOwn'
  <2>1. CASE call' = [call EXCEPT ![c] = Idle] \/ call' = Becomes(c, Idle, {call[c].row})
    BY <1>3, <2>1, IdleOwn, IdleType, CallsOwnKept DEF SameIds
  <2>2. CASE /\ CreateDone(c)
             /\ call' = [call EXCEPT ![c] =
                            [call[c] EXCEPT !.kind = "swap", !.tmux = NoTmux]]
             /\ call[c].old # NoSession
    <3> DEFINE r == [call[c] EXCEPT !.kind = "swap", !.tmux = NoTmux]
    <3>1. r \in CallRecords
      BY <1>2, <2>2, CallFields, NamesAssumption DEF CallRecords, Kinds
    <3>2. r.kind = "swap" /\ r.tmux = NoTmux /\ r.list = call[c].list
      BY CallFields DEF CallRecords
    <3>3. OwnCall(r)
      <4> HIDE DEF r
      <4>1. QED BY <1>1, <3>2 DEF OwnCall
    <3>4. call' = [call EXCEPT ![c] = r]
      BY <2>2
    <3> HIDE DEF r
    <3>5. QED BY <1>3, <3>1, <3>3, <3>4, CallsOwnKept DEF SameIds
  <2>3. QED BY <2>1, <2>2 DEF CreateDone, RestoreDone
<1>6. QED BY <1>3, <1>4, <1>5 DEF AllOwn, AliveMinted, SameIds

\* The failures and the list requests that touch neither map.
LEMMA OwnUnbound ==
  ASSUME Held, NEW c \in Calls,
         \/ CreateFails(c) \/ RestoreFails(c) \/ RefreshUnreachable(c)
         \/ RefreshBegins(c) \/ Boot(c)
  PROVE  AllOwn'
<1> USE DEF Held
<1> DEFINE begun == Working("listing", NoSession, NoTmux)
<1>1. begun \in CallRecords
  BY WorkingType DEF Kinds, Rowless
<1>2. [begun EXCEPT !.boot = TRUE] \in CallRecords
  BY <1>1 DEF CallRecords
<1>3. OwnCall(begun) /\ OwnCall([begun EXCEPT !.boot = TRUE])
  BY DEF OwnCall, Working, Idle
<1>4. SameIds /\ alive' = alive /\ UNCHANGED maps
  BY DEF CreateFails, RestoreFails, RefreshUnreachable, RefreshBegins, Boot, tmux, SameIds
<1>5. \/ call' = [call EXCEPT ![c] = Idle]
      \/ call' = [call EXCEPT ![c] = begun]
      \/ call' = [call EXCEPT ![c] = [begun EXCEPT !.boot = TRUE]]
  BY DEF CreateFails, RestoreFails, RefreshUnreachable, RefreshBegins, Boot
<1>6. CallsOwn'
  <2> HIDE DEF begun
  <2>1. CASE call' = [call EXCEPT ![c] = Idle]
    BY <1>4, <2>1, IdleOwn, IdleType, CallsOwnKept DEF SameIds
  <2>2. CASE call' = [call EXCEPT ![c] = begun]
    BY <1>1, <1>3, <1>4, <2>2, CallsOwnKept DEF SameIds
  <2>3. CASE call' = [call EXCEPT ![c] = [begun EXCEPT !.boot = TRUE]]
    BY <1>2, <1>3, <1>4, <2>3, CallsOwnKept DEF SameIds
  <2>4. QED BY <1>5, <2>1, <2>2, <2>3
<1>7. MapsOwn' /\ AliveMinted'
  BY <1>4 DEF MapsOwn, AliveMinted, maps, SameIds
<1>8. QED BY <1>6, <1>7 DEF AllOwn

\* A list holds every live id under the identity it was minted for.
LEMMA OwnRefreshLists == ASSUME Held, NEW c \in Calls, RefreshLists(c) PROVE AllOwn'
<1> USE DEF Held
<1> DEFINE r == [call[c] EXCEPT !.kind = "listed", !.list = LiveIdentities]
<1>1. LiveIdentities \subseteq TmuxIds \X Sessions
  BY DEF LiveIdentities
<1>2. r \in CallRecords
  BY <1>1, CallFields DEF CallRecords, Kinds, Rowless
<1>3. call' = [call EXCEPT ![c] = r]
  BY DEF RefreshLists, TypeOK
<1>4. SameIds /\ alive' = alive /\ UNCHANGED maps
  BY DEF RefreshLists, tmux, SameIds
<1>5. OwnCall(r)
  <2>1. r.kind = "listed" /\ r.tmux = call[c].tmux /\ r.row = call[c].row
        /\ r.list = LiveIdentities
    BY CallFields DEF CallRecords
  <2>2. \A p \in LiveIdentities : p[1] < nextId /\ minted[p[1]] = p[2]
    BY DEF LiveIdentities, AliveMinted
  <2>3. OwnCall(call[c])
    BY DEF CallsOwn
  <2> HIDE DEF r
  <2>4. QED BY <2>1, <2>2, <2>3 DEF OwnCall
<1>6. CallsOwn'
  <2> HIDE DEF r
  <2>1. QED BY <1>2, <1>3, <1>4, <1>5, CallsOwnKept DEF SameIds
<1>7. MapsOwn' /\ AliveMinted'
  BY <1>4 DEF MapsOwn, AliveMinted, maps, SameIds
<1>8. QED BY <1>6, <1>7 DEF AllOwn

\* The steps of a restart past its create.
LEMMA OwnRestart ==
  ASSUME Held, NEW c \in Calls, RestartEndsOld(c) \/ DiscardOld(c) PROVE AllOwn'
<1> USE DEF Held
<1>1. SameIds /\ alive' = alive /\ call[c].old \in Sessions
  BY CallFields DEF RestartEndsOld, DiscardOld, tmux, SameIds
<1>2. OwnCall(call[c])
  BY DEF CallsOwn
<1>3. CASE DiscardOld(c)
  <2>1. MapsOwn'
    BY <1>1, <1>3, ReleaseOwn DEF DiscardOld, SameIds
  <2>2. CallsOwn'
    BY <1>1, <1>3, IdleOwn, IdleType, CallsOwnKept DEF DiscardOld, SameIds
  <2>3. QED BY <1>1, <2>1, <2>2 DEF AllOwn, AliveMinted, SameIds
<1>4. CASE RestartEndsOld(c)
  <2> DEFINE waiting == [call[c] EXCEPT !.oldLive = FALSE]
  <2>1. waiting \in CallRecords
    BY CallFields DEF CallRecords
  <2>2. OwnCall(waiting)
    <3>1. waiting.kind = call[c].kind /\ waiting.tmux = call[c].tmux
          /\ waiting.row = call[c].row /\ waiting.list = call[c].list
      BY CallFields DEF CallRecords
    <3> HIDE DEF waiting
    <3>2. QED BY <1>2, <3>1 DEF OwnCall
  <2>3. \/ call' = [call EXCEPT ![c] = waiting] /\ UNCHANGED maps
        \/ BeginEnd(c, "end", call[c].old, waiting)
    BY <1>4 DEF RestartEndsOld
  <2>4. MapsOwn' /\ CallsOwn'
    <3> HIDE DEF waiting
    <3>1. CASE call' = [call EXCEPT ![c] = waiting] /\ UNCHANGED maps
      <4>1. CallsOwn'
        BY <1>1, <2>1, <2>2, <3>1, CallsOwnKept DEF SameIds
      <4>2. MapsOwn'
        BY <1>1, <3>1 DEF MapsOwn, maps, SameIds
      <4>3. QED BY <4>1, <4>2
    <3>2. CASE BeginEnd(c, "end", call[c].old, waiting)
      BY <1>1, <2>1, <2>2, <3>2, BeginEndOwn DEF Kinds, SameIds
    <3>3. QED BY <2>3, <3>1, <3>2
  <2>5. QED BY <1>1, <2>4 DEF AllOwn, AliveMinted, SameIds
<1>5. QED BY <1>3, <1>4

\* What a call holds after its End, it held before.
LEMMA AfterEndOwn ==
  ASSUME Held, NEW c \in Calls
  PROVE  OwnCall(AfterEnd(c))
<1>1. CASE call[c].old = NoSession
  BY <1>1, IdleOwn DEF AfterEnd
<1>2. CASE call[c].old # NoSession
  <2>1. AfterEnd(c).tmux = NoTmux /\ AfterEnd(c).kind = "swap"
        /\ AfterEnd(c).list = call[c].list
    BY <1>2, CallFields DEF Held, AfterEnd, CallRecords
  <2>2. OwnCall(call[c])
    BY DEF Held, CallsOwn
  <2>3. QED BY <2>1, <2>2 DEF OwnCall
<1>3. QED BY <1>1, <1>2

\* The hang-up itself changes no binding, whether or not it got through.
LEMMA OwnHangUp ==
  ASSUME Held, NEW c \in Calls, HangUp(c) \/ HangUpFails(c) PROVE AllOwn'
<1> USE DEF Held
<1>1. SameIds /\ alive' \subseteq alive /\ UNCHANGED maps
  BY DEF HangUp, HangUpFails, tmux, SameIds
<1>2. MapsOwn' /\ AliveMinted'
  BY <1>1 DEF MapsOwn, AliveMinted, maps, SameIds
<1>3. call[c].kind \in {"end", "reap"} /\ OwnCall(call[c])
  BY DEF HangUp, HangUpFails, CallsOwn
<1>4. ASSUME NEW k \in {"hungEnd", "hungReap"},
             call' = [call EXCEPT ![c] = [call[c] EXCEPT !.kind = k]]
      PROVE  CallsOwn'
  <2> DEFINE r == [call[c] EXCEPT !.kind = k]
  <2>1. r \in CallRecords
    BY <1>3, CallFields, NamesAssumption DEF CallRecords, Kinds, Rowless
  <2>2. r.kind = k /\ r.tmux = call[c].tmux /\ r.row = call[c].row
        /\ r.list = call[c].list
    BY CallFields DEF CallRecords
  <2>3. call' = [call EXCEPT ![c] = r]
    BY <1>4
  <2> HIDE DEF r
  <2>4. OwnCall(r)
    BY <1>3, <2>2 DEF OwnCall
  <2>5. QED BY <1>1, <2>1, <2>3, <2>4, CallsOwnKept DEF SameIds
<1>5. ASSUME call' = [call EXCEPT ![c] = AfterEnd(c)] PROVE CallsOwn'
  <2>1. OwnCall(AfterEnd(c))
    BY AfterEndOwn
  <2>2. AfterEnd(c) \in CallRecords
    BY <1>3, AfterEndType DEF Rowless
  <2>3. QED BY <1>1, <1>5, <2>1, <2>2, CallsOwnKept DEF SameIds
<1>6. CallsOwn'
  <2>1. \/ call' = [call EXCEPT ![c] = [call[c] EXCEPT !.kind = "hungEnd"]]
        \/ call' = [call EXCEPT ![c] = [call[c] EXCEPT !.kind = "hungReap"]]
        \/ call' = [call EXCEPT ![c] = AfterEnd(c)]
    BY DEF HangUp, HangUpFails, TypeOK
  <2>2. CASE call' = [call EXCEPT ![c] = [call[c] EXCEPT !.kind = "hungEnd"]]
    BY <1>4, <2>2
  <2>3. CASE call' = [call EXCEPT ![c] = [call[c] EXCEPT !.kind = "hungReap"]]
    BY <1>4, <2>3
  <2>4. QED BY <1>5, <2>1, <2>2, <2>3
<1>7. QED BY <1>2, <1>6 DEF AllOwn

\* The id an End forgets is the one minted for the session it ended.
LEMMA OwnFinishEnd == ASSUME Held, NEW c \in Calls, FinishEnd(c) PROVE AllOwn'
<1> USE DEF Held
<1> DEFINE s == call[c].row
           W == IF row[s] = "none" THEN {} ELSE {s}
<1>1. s \in Sessions /\ call[c].tmux \in TmuxIds \cup {NoTmux} /\ OwnCall(call[c])
  BY CallFields DEF FinishEnd, Rowless, CallsOwn
<1>2. SameIds /\ alive' = alive /\ Unbind(s, call[c].tmux)
  BY DEF FinishEnd, MarkExited, tmux, SameIds
<1>3. MapsOwn'
  BY <1>1, <1>2, UnbindOwn DEF OwnCall, SameIds
<1>4. CallsOwn'
  <2>1. call' = Becomes(c, AfterEnd(c), W)
    BY DEF FinishEnd
  <2>2. AfterEnd(c) \in CallRecords /\ OwnCall(AfterEnd(c))
    BY AfterEndType, AfterEndOwn DEF FinishEnd, Rowless
  <2> HIDE DEF W
  <2>3. QED BY <1>2, <2>1, <2>2, CallsOwnKept DEF SameIds
<1>5. QED BY <1>2, <1>3, <1>4 DEF AllOwn, AliveMinted, SameIds

\* The tick begins a reap the way a person begins an End.
LEMMA OwnTick == Held /\ Tick => AllOwn'
<1> SUFFICES ASSUME Held, Tick PROVE AllOwn'
  OBVIOUS
<1> USE DEF Held
<1>1. CASE TickReads
  <2>1. SameIds /\ alive' = alive /\ call' = call /\ UNCHANGED maps
    BY <1>1 DEF TickReads, tmux, SameIds
  <2>2. QED BY <2>1, StillOwn DEF AllOwn, AliveMinted, SameIds
<1>2. ASSUME NEW s \in Sessions, TickDetects(s) PROVE AllOwn'
  <2>1. SameIds /\ alive' = alive /\ UNCHANGED maps
    BY <1>2 DEF TickDetects, tmux, SameIds
  <2>2. ASSUME NEW d \in Calls
        PROVE  /\ call'[d].tmux = call[d].tmux /\ call'[d].row = call[d].row
               /\ call'[d].kind = call[d].kind /\ call'[d].list = call[d].list
    BY <1>2, CallFields DEF TickDetects, Stamp, CallRecords
  <2>3. CallsOwn'
    BY <2>1, <2>2 DEF CallsOwn, OwnCall, SameIds
  <2>4. QED BY <2>1, <2>3 DEF AllOwn, MapsOwn, AliveMinted, maps, SameIds
<1>3. ASSUME NEW c \in Calls, NEW s \in Sessions, TickReaps(c, s) PROVE AllOwn'
  <2>1. SameIds /\ alive' = alive
    BY <1>3 DEF TickReaps, tmux, SameIds
  <2>2. MapsOwn' /\ CallsOwn'
    <3>1. CASE UNCHANGED <<row, maps, call>>
      BY <2>1, <3>1, StillOwn
    <3>2. CASE BeginEnd(c, "reap", s, Idle)
      BY <2>1, <3>2, IdleOwn, IdleType, BeginEndOwn DEF Kinds, SameIds
    <3>3. QED BY <1>3, <3>1, <3>2 DEF TickReaps
  <2>3. QED BY <2>1, <2>2 DEF AllOwn, AliveMinted, SameIds
<1>4. QED BY <1>1, <1>2, <1>3 DEF Tick

\* liveIds is rebuilt from the identities on the list and from bindings it had.
LEMMA OwnRefreshApplies == ASSUME Held, NEW c \in Calls, RefreshApplies(c) PROVE AllOwn'
<1> USE DEF Held
<1>1. PICK stale \in SUBSET (creating \cap SlowCreates), pick \in [Claimed(c) -> TmuxIds] :
        LET inFlight == (creating \ stale) \cup restoring
            taken == {pick[s] : s \in Claimed(c)}
            kept == {s \in Skipped(c, inFlight) : bound[s] \in TmuxIds \ taken}
        IN /\ \A s \in Claimed(c) : <<pick[s], s>> \in call[c].list
           /\ \E keep \in SUBSET kept :
                /\ \A s \in kept : \E u \in keep : bound[u] = bound[s]
                /\ \A s, u \in keep : bound[s] = bound[u] => s = u
                /\ bound' = Rebound(c, pick, keep)
                /\ boundBy' = [t \in TmuxIds |->
                     IF \E s \in Claimed(c) \cup keep : Rebound(c, pick, keep)[s] = t
                     THEN CHOOSE s \in Claimed(c) \cup keep :
                            Rebound(c, pick, keep)[s] = t
                     ELSE NoSession]
           /\ creating' = creating \ stale
           /\ row' = Judged(c, inFlight)
  BY DEF RefreshApplies
<1> DEFINE inFlight == (creating \ stale) \cup restoring
           taken == {pick[s] : s \in Claimed(c)}
           kept == {s \in Skipped(c, inFlight) : bound[s] \in TmuxIds \ taken}
<1>2. PICK keep \in SUBSET kept :
        /\ bound' = Rebound(c, pick, keep)
        /\ boundBy' = [t \in TmuxIds |->
             IF \E s \in Claimed(c) \cup keep : Rebound(c, pick, keep)[s] = t
             THEN CHOOSE s \in Claimed(c) \cup keep : Rebound(c, pick, keep)[s] = t
             ELSE NoSession]
  BY <1>1
<1> DEFINE Holds(s, t) == Rebound(c, pick, keep)[s] = t
<1>3. SameIds /\ alive' = alive /\ call' = Becomes(c, Idle, Claimed(c))
  BY DEF RefreshApplies, tmux, SameIds
<1>4. OwnCall(call[c])
  BY DEF CallsOwn
<1>5. ASSUME NEW s \in Sessions, NEW t \in TmuxIds, Holds(s, t)
      PROVE  s \in Claimed(c) \cup keep /\ t < nextId /\ minted[t] = s
  <2>1. CASE s \in Claimed(c)
    <3>1. pick[s] = t /\ <<pick[s], s>> \in call[c].list
      BY <1>1, <1>5, <2>1 DEF Rebound
    <3>2. QED BY <1>4, <2>1, <3>1 DEF OwnCall
  <2>2. CASE s \notin Claimed(c)
    <3>1. s \in keep /\ bound[s] = t /\ bound[s] # NoTmux
      BY <1>5, <2>2 DEF Rebound, TmuxIds, NoTmux
    <3>2. QED BY <3>1 DEF MapsOwn
  <2>3. QED BY <2>1, <2>2
<1>6. Claimed(c) \cup keep \subseteq Sessions
  <2>1. creating \subseteq Sessions /\ restoring \subseteq Sessions
        /\ call[c].newer \subseteq Sessions
    BY CallFields DEF TypeOK, CallRecords
  <2>2. Skipped(c, inFlight) \subseteq Sessions
    BY <2>1 DEF Skipped, TooNew
  <2>3. QED BY <1>2, <2>2, ClaimedType
<1>7. MapsOwn'
  <2>1. bound' \in [Sessions -> TmuxIds \cup {NoTmux}]
    BY <1>2 DEF Rebound, TypeOK
  <2>2. ASSUME NEW s \in Sessions, bound'[s] # NoTmux
        PROVE  bound'[s] < nextId' /\ minted'[bound'[s]] = s /\ boundBy'[bound'[s]] = s
    <3> DEFINE t == bound'[s]
               owner == CHOOSE u \in Claimed(c) \cup keep : Holds(u, t)
    <3>1. t \in TmuxIds /\ Holds(s, t)
      BY <1>2, <2>1, <2>2
    <3>2. t < nextId /\ minted[t] = s /\ s \in Claimed(c) \cup keep
      BY <1>5, <3>1
    <3>3. boundBy'[t] = owner
      BY <1>2, <3>1, <3>2
    <3> HIDE DEF Holds, t
    <3>4. owner \in Claimed(c) \cup keep /\ Holds(owner, t)
      BY <3>1, <3>2
    <3>5. minted[t] = owner
      BY <1>5, <1>6, <3>1, <3>4
    <3>6. boundBy'[t] = s
      BY <3>2, <3>3, <3>5
    <3>7. QED BY <1>3, <3>2, <3>6 DEF t, SameIds
  <2>3. QED BY <2>2 DEF MapsOwn
<1>8. CallsOwn'
  BY <1>3, IdleOwn, IdleType, CallsOwnKept DEF SameIds
<1>9. QED BY <1>3, <1>7, <1>8 DEF AllOwn, AliveMinted, SameIds

\* A death of the application frees every id, a hand-made session takes a new
\* one, and after a death of the server Own promises nothing.
LEMMA OwnEnvironment == Held /\ Environment /\ deaths' = deaths => AllOwn'
<1> SUFFICES ASSUME Held, Environment, deaths' = deaths PROVE AllOwn'
  OBVIOUS
<1> USE DEF Held
<1>1. ASSUME SameIds, alive' \subseteq alive, call' = call, UNCHANGED maps PROVE AllOwn'
  BY <1>1, StillOwn DEF AllOwn, AliveMinted, SameIds
<1>2. CASE ScheduleRefresh
  BY <1>1, <1>2 DEF ScheduleRefresh, tmux, SameIds
<1>3. ASSUME NEW t \in TmuxIds, PaneFails(t) \/ SessionCloses(t) PROVE AllOwn'
  BY <1>1, <1>3 DEF PaneFails, SessionCloses, SameIds
<1>4. CASE StrangerSpawns
  <2>1. MapsOwn' /\ AliveMinted'
    BY <1>4, MintOwn DEF StrangerSpawns
  <2>2. ASSUME NEW d \in Calls PROVE OwnCall(call[d])'
    <3>1. call' = call /\ OwnCall(call[d])
      BY <1>4 DEF StrangerSpawns, CallsOwn
    <3>2. /\ call[d].tmux # NoTmux =>
               call[d].tmux < nextId' /\ minted'[call[d].tmux] = call[d].row
          /\ \A p \in call[d].list : p[1] < nextId' /\ minted'[p[1]] = p[2]
      BY <1>4, <3>1, MintOwnCall DEF StrangerSpawns
    <3>3. QED BY <3>1, <3>2 DEF OwnCall
  <2>3. QED BY <2>1, <2>2 DEF CallsOwn, AllOwn
<1>5. CASE ServerDies
  BY <1>5, BoundsAssumption DEF ServerDies, TypeOK
<1>6. CASE AppDies
  <2>1. MapsOwn'
    BY <1>6 DEF AppDies, MapsOwn
  <2>2. CallsOwn'
    BY <1>6 DEF AppDies, CallsOwn, OwnCall, Idle
  <2>3. AliveMinted'
    BY <1>6 DEF AppDies, tmux, AliveMinted
  <2>4. QED BY <2>1, <2>2, <2>3 DEF AllOwn
<1>7. QED
  BY <1>2, <1>3, <1>4, <1>5, <1>6 DEF Environment

\* Every step of a server's life keeps every id with its session.
LEMMA OwnStep == TypeOK /\ Own /\ [Next]_vars => Own'
<1> SUFFICES ASSUME TypeOK, Own, [Next]_vars, deaths' = 0 PROVE AllOwn'
  BY DEF Own, AllOwn
<1>1. deaths = 0 /\ deaths' = deaths
  <2>1. deaths \in Nat
    BY BoundsAssumption DEF TypeOK
  <2>2. CASE Verb
    BY <2>2 DEF Verb, CreateSession, RestoreSession, KillSession, RestartSession,
                RemoveSession, Declare
  <2>3. ASSUME NEW c \in Calls, Progress(c) \/ Failure(c) PROVE deaths' = deaths
    BY <2>3
    DEF Progress, Failure, Spawn, CreateDone, RestoreDone, RestartEndsOld, DiscardOld,
        HangUp, FinishEnd, RefreshBegins, RefreshLists, RefreshApplies, Boot,
        CreateFails, RestoreFails, HangUpFails, RefreshUnreachable, bounds
  <2>4. CASE Tick
    BY <2>4 DEF Tick, TickReads, TickDetects, TickReaps, bounds
  <2>5. CASE Environment
    BY <2>1, <2>5
    DEF Environment, ScheduleRefresh, PaneFails, SessionCloses, StrangerSpawns,
        ServerDies, AppDies, bounds
  <2>6. CASE UNCHANGED vars
    BY <2>6 DEF vars, bounds
  <2>7. QED BY <2>2, <2>3, <2>4, <2>5, <2>6 DEF Next
<1>2. Held
  BY <1>1 DEF Own, Held
<1>3. ASSUME NEW c \in Calls, Progress(c) PROVE AllOwn'
  BY <1>2, <1>3, OwnSpawn, OwnDone, OwnRestart, OwnHangUp, OwnFinishEnd,
     OwnUnbound, OwnRefreshLists, OwnRefreshApplies DEF Progress
<1>4. ASSUME NEW c \in Calls, Failure(c) PROVE AllOwn'
  BY <1>2, <1>4, OwnUnbound, OwnHangUp DEF Failure
<1>5. CASE UNCHANGED vars
  <2>1. SameIds /\ alive' = alive /\ call' = call /\ UNCHANGED maps
    BY <1>5 DEF vars, tmux, SameIds
  <2>2. QED BY <1>2, <2>1, StillOwn DEF Held, AllOwn, AliveMinted, SameIds
<1>6. QED
  BY <1>1, <1>2, <1>3, <1>4, <1>5, OwnVerb, OwnTick, OwnEnvironment DEF Next

(* As long as one tmux server lives, liveIds, the calls in flight and the lists
   of the refreshes hold every $-id with the session it was minted for. *)
THEOREM OwnInvariant == Spec => []Own
<1>1. Init => TypeOK /\ Own
  BY TypeInit, OwnInit
<1>2. TypeOK /\ Own /\ [Next]_vars => (TypeOK /\ Own)'
  BY TypeStep, OwnStep
<1>3. QED BY <1>1, <1>2, PTL DEF Spec

(* While the server that handed out the ids lives, no End and no reap is ever
   about to hang up a session but the one of its own row. *)
THEOREM EndsOnlyItsOwnAlways == Spec => []EndsOnlyItsOwn
<1>1. TypeOK /\ Own => EndsOnlyItsOwn
  BY DEF Own, CallsOwn, OwnCall, EndsOnlyItsOwn
<1>2. QED BY <1>1, TypeCorrect, OwnInvariant, PTL

(* While the server that handed out the ids lives, liveIds and byTmuxId are
   inverse on everything liveIds binds. *)
THEOREM MapsInverseAlways == Spec => []MapsInverse
<1>1. Own => MapsInverse
  BY DEF Own, MapsOwn, MapsInverse
<1>2. QED BY <1>1, OwnInvariant, PTL

-----------------------------------------------------------------------------
(* The guards of the verbs, and what a refresh may offer.  The invariant is    *)
(* Flow: restoresInFlight and createsInFlight answer to the calls at work,     *)
(* creates keep their rows, and a list cannot miss a restored session unless   *)
(* it knows of the restore.                                                    *)

\* No call outlives its process, and the next process starts with none.
DownIsIdle ==
  up = "down" => /\ \A c \in Calls : call[c].kind = "idle"
                 /\ \A s \in Sessions : sample[s] = "none"

\* createsInFlight holds no session but those whose create is at work.
CreatingBusy == creating \subseteq {call[c].row : c \in Busy({"create"})}

\* Without restarts no call is about two rows, and a create has to itself a row
\* that no other create was given.
RowsOfCreates ==
  restarts = 0 =>
    /\ \A c \in Calls : call[c].kind # "swap" /\ call[c].old = NoSession
    /\ \A c \in Busy({"create"}) :
         row[call[c].row] # "none" /\ call[c].row \notin fresh
    /\ \A c, d \in Busy({"create"}) : call[c].row = call[d].row => c = d

\* A list that misses a session some restore brought back was taken before that
\* restore was over, and the refresh knows that the row is newer than its list.
RevivedSeen ==
  \A c \in Calls : call[c].kind = "listed" =>
    \A t \in alive \cap revived : minted[t] \in Sessions =>
      \/ <<t, minted[t]>> \in call[c].list
      \/ minted[t] \in call[c].newer

Flow == OneRestorer /\ CreatingBusy /\ RowsOfCreates /\ RevivedSeen

LEMMA FlowInit == Init => DownIsIdle /\ Flow
  BY DEF Init, DownIsIdle, Flow, OneRestorer, CreatingBusy, RowsOfCreates,
         RevivedSeen, Busy, Idle

\* A step that leaves call d at its place; its refresh may learn of newer rows.
SameCall(d) ==
  /\ call'[d].kind = call[d].kind /\ call'[d].row = call[d].row
  /\ call'[d].old = call[d].old /\ call'[d].list = call[d].list
  /\ call[d].newer \subseteq call'[d].newer

\* Stamping rows moves no call.
LEMMA StampStays ==
  ASSUME TypeOK, NEW W, NEW d \in Calls
  PROVE  /\ Stamp(call, W)[d].kind = call[d].kind
         /\ Stamp(call, W)[d].row = call[d].row
         /\ Stamp(call, W)[d].old = call[d].old
         /\ Stamp(call, W)[d].list = call[d].list
         /\ call[d].newer \subseteq Stamp(call, W)[d].newer
         /\ call[d].kind \in Refreshing => W \subseteq Stamp(call, W)[d].newer
<1>1. Stamp(call, W)[d] = IF call[d].kind \in Refreshing
                          THEN [call[d] EXCEPT !.newer = @ \cup W] ELSE call[d]
  BY DEF Stamp
<1>2. call[d] \in CallRecords
  BY DEF TypeOK
<1>3. QED BY <1>1, <1>2 DEF CallRecords

\* One call moves, rows stamped or not, and the others stay where they are.
LEMMA OthersStay ==
  ASSUME TypeOK, NEW c \in Calls, NEW r, NEW W,
         call' = Becomes(c, r, W) \/ call' = [call EXCEPT ![c] = r]
  PROVE  call'[c] = r /\ \A d \in Calls \ {c} : SameCall(d)
<1>1. CASE call' = Becomes(c, r, W)
  <2>1. call'[c] = r /\ \A d \in Calls \ {c} : call'[d] = Stamp(call, W)[d]
    BY <1>1 DEF Becomes, Stamp
  <2>2. QED BY <2>1, StampStays DEF SameCall
<1>2. CASE call' = [call EXCEPT ![c] = r]
  BY <1>2 DEF TypeOK, SameCall
<1>3. QED BY <1>1, <1>2

\* No row is deleted.
RowsStay == \A s \in Sessions : row[s] # "none" => row'[s] # "none"

\* Nothing that a guard, a create or a list in flight rests on is touched.
Rests ==
  /\ restoring' = restoring /\ creating' \subseteq creating
  /\ restarts' = restarts /\ fresh' = fresh /\ (restarts = 0 => RowsStay)
  /\ alive' \cap revived' \subseteq alive \cap revived
  /\ \A t \in alive' \cap revived' : minted'[t] = minted[t]

\* What a list in flight may miss, when no list is taken and no session revived.
LEMMA SeenStays ==
  ASSUME RevivedSeen, alive' \cap revived' \subseteq alive \cap revived,
         \A t \in alive' \cap revived' : minted'[t] = minted[t],
         \A d \in Calls : call'[d].kind = "listed" => SameCall(d)
  PROVE  RevivedSeen'
<1> SUFFICES ASSUME NEW d \in Calls, call'[d].kind = "listed",
                    NEW t \in alive' \cap revived', minted'[t] \in Sessions
             PROVE  \/ <<t, minted'[t]>> \in call'[d].list
                    \/ minted'[t] \in call'[d].newer
  BY DEF RevivedSeen
<1>1. SameCall(d) /\ t \in alive \cap revived /\ minted'[t] = minted[t]
  OBVIOUS
<1>2. QED BY <1>1 DEF RevivedSeen, SameCall

\* A call that leaves its place for one that holds no guard and no list.
Lets(c) ==
  /\ call[c].kind \notin {"create", "restore"}
  /\ call'[c].kind \notin {"create", "restore", "listed"}
  /\ restarts = 0 => call'[c].kind # "swap" /\ call'[c].old = NoSession

\* Such a step keeps the invariant.
LEMMA FlowRests ==
  ASSUME TypeOK, Flow, Rests, NEW c \in Calls,
         \A d \in Calls \ {c} : SameCall(d), SameCall(c) \/ Lets(c)
  PROVE  Flow'
<1> USE DEF Flow
<1>1. Busy({"create"})' = Busy({"create"}) /\ Busy({"restore"})' = Busy({"restore"})
  BY DEF Busy, SameCall, Lets
<1>2. \A d \in Busy({"create", "restore"}) : call'[d].row = call[d].row
  BY DEF Busy, SameCall, Lets
<1>3. OneRestorer'
  BY <1>1, <1>2 DEF OneRestorer, Busy, Rests
<1>4. CreatingBusy'
  BY <1>1, <1>2 DEF CreatingBusy, Busy, Rests
<1>5. RowsOfCreates'
  <2> SUFFICES ASSUME restarts' = 0 PROVE RowsOfCreates'
    BY DEF RowsOfCreates
  <2>0. restarts = 0 /\ fresh' = fresh
    BY DEF Rests
  <2>1. \A d \in Calls : call'[d].kind # "swap" /\ call'[d].old = NoSession
    BY <2>0 DEF RowsOfCreates, SameCall, Lets
  <2>2. \A d \in Busy({"create"}) : call[d].row \in Sessions
    BY CallFields DEF Busy, Rowless
  <2>3. \A d \in Busy({"create"})' :
          row'[call'[d].row] # "none" /\ call'[d].row \notin fresh'
    BY <1>1, <1>2, <2>0, <2>2 DEF RowsOfCreates, Busy, Rests, RowsStay
  <2>4. \A d, e \in Busy({"create"})' : call'[d].row = call'[e].row => d = e
    BY <1>1, <1>2, <2>0 DEF RowsOfCreates, Busy
  <2>5. QED BY <2>1, <2>3, <2>4 DEF RowsOfCreates
<1>6. RevivedSeen'
  BY SeenStays DEF Rests, Lets
<1>7. QED BY <1>3, <1>4, <1>5, <1>6

\* A step that moves no call at all.
LEMMA FlowStays ==
  ASSUME TypeOK, Flow, Rests, \A d \in Calls : SameCall(d)
  PROVE  Flow'
<1>1. CASE Calls = {}
  BY <1>1 DEF Flow, OneRestorer, CreatingBusy, RowsOfCreates, RevivedSeen, Busy, Rests
<1>2. CASE \E c \in Calls : TRUE
  BY <1>2, FlowRests
<1>3. QED BY <1>1, <1>2

\* The end or the reap a call begins, if its last call was of one row.
LEMMA BeginEndLets ==
  ASSUME TypeOK, NEW c \in Calls, NEW k \in {"end", "reap"}, NEW s \in Sessions,
         NEW next \in CallRecords, BeginEnd(c, k, s, next),
         next.kind \notin {"create", "restore", "listed"},
         restarts = 0 => next.kind # "swap" /\ next.old = NoSession,
         call[c].kind \notin {"create", "restore"}
  PROVE  Lets(c) /\ RowsStay /\ \A d \in Calls \ {c} : SameCall(d)
<1> DEFINE r == [next EXCEPT !.kind = k, !.row = s, !.tmux = bound[s]]
<1>1. CASE bound[s] = NoTmux /\ MarkExited(s, NoTmux) /\ call' = Becomes(c, next, {s})
  <2>1. call'[c] = next /\ \A d \in Calls \ {c} : SameCall(d)
    BY <1>1, OthersStay
  <2>2. RowsStay
    BY <1>1 DEF MarkExited, WriteStatus, RowsStay, TypeOK
  <2>3. QED BY <2>1, <2>2 DEF Lets
<1>2. CASE call' = [call EXCEPT ![c] = r] /\ UNCHANGED <<row, maps>>
  <2>1. r.kind = k /\ r.old = next.old
    BY DEF CallRecords
  <2> HIDE DEF r
  <2>2. call'[c] = r /\ \A d \in Calls \ {c} : SameCall(d)
    BY <1>2, OthersStay
  <2>3. RowsStay
    BY <1>2 DEF RowsStay
  <2>4. QED BY <2>1, <2>2, <2>3 DEF Lets
<1>3. QED BY <1>1, <1>2 DEF BeginEnd

\* A create declares the row first, a row that no create had before.
LEMMA FlowDeclare ==
  ASSUME TypeOK, Flow, NEW c \in Calls, NEW s \in Sessions, Declare(c, s),
         call'[c].kind = "create", call'[c].row = s,
         \A d \in Calls \ {c} : SameCall(d),
         restarts' = 0 => restarts = 0 /\ call'[c].old = NoSession
  PROVE  Flow'
<1> USE DEF Flow
<1>1. /\ call[c].kind = "idle"
      /\ \A d \in Calls \ {c} : call'[d].kind = call[d].kind /\ call'[d].row = call[d].row
  BY DEF SameCall, Declare
<1>2. \A d \in Calls : call[d].kind = "create" => d # c /\ call[d].row \in Sessions
  BY <1>1, CallFields DEF Rowless
<1>3. OneRestorer'
  <2>1. restoring' = restoring
    BY DEF Declare
  <2>2. QED BY <1>1, <2>1 DEF OneRestorer, Busy
<1>4. CreatingBusy'
  <2>1. ASSUME NEW u \in creating'
        PROVE  \E d \in Calls : call'[d].kind = "create" /\ u = call'[d].row
    <3>1. CASE u = s
      BY <1>1, <3>1
    <3>2. CASE u \in creating
      <4>1. PICK d \in Calls : call[d].kind = "create" /\ u = call[d].row
        BY <3>2 DEF CreatingBusy, Busy
      <4>2. QED BY <1>1, <1>2, <4>1
    <3>3. QED BY <2>1, <3>1, <3>2 DEF Declare
  <2>2. QED BY <2>1 DEF CreatingBusy, Busy
<1>5. RowsOfCreates'
  <2> SUFFICES ASSUME restarts' = 0 PROVE RowsOfCreates'
    BY DEF RowsOfCreates
  <2>0. restarts = 0 /\ s \in fresh /\ fresh' = fresh \ {s}
    BY DEF Declare
  <2>1. row' = [row EXCEPT ![s] = "running"]
    BY DEF Declare, InsertRow
  <2>2. \A d \in Calls : call'[d].kind # "swap" /\ call'[d].old = NoSession
    BY <1>1, <2>0 DEF RowsOfCreates, SameCall
  <2>3. \A d \in Calls : call[d].kind = "create" =>
          row[call[d].row] # "none" /\ call[d].row \notin fresh
    BY <2>0 DEF RowsOfCreates, Busy
  <2>4. \A d \in Calls : call[d].kind = "create" => call[d].row # s
    BY <2>0, <2>3
  <2>5. \A d \in Calls : call'[d].kind = "create" =>
          row'[call'[d].row] # "none" /\ call'[d].row \notin fresh'
    BY <1>1, <1>2, <2>0, <2>1, <2>3, <2>4 DEF TypeOK
  <2>6. \A d, e \in Calls :
          call[d].kind = "create" /\ call[e].kind = "create" /\ call[d].row = call[e].row
            => d = e
    BY <2>0 DEF RowsOfCreates, Busy
  <2>7. \A d, e \in Calls :
          call'[d].kind = "create" /\ call'[e].kind = "create" /\ call'[d].row = call'[e].row
            => d = e
    BY <1>1, <2>4, <2>6
  <2>8. QED BY <2>2, <2>5, <2>7 DEF RowsOfCreates, Busy
<1>6. RevivedSeen'
  BY SeenStays DEF Declare, tmux
<1>7. QED BY <1>3, <1>4, <1>5, <1>6

\* What people ask for.
LEMMA FlowVerb == TypeOK /\ Flow /\ Verb => Flow'
<1> SUFFICES ASSUME TypeOK, Flow, Verb PROVE Flow'
  OBVIOUS
<1>1. ASSUME NEW c \in Calls, NEW s \in Sessions, CreateSession(c, s) PROVE Flow'
  <2> DEFINE r == Working("create", s, NoTmux)
  <2>1. r.kind = "create" /\ r.row = s /\ r.old = NoSession
    BY DEF Working, Idle
  <2> HIDE DEF r
  <2>2. Declare(c, s) /\ call' = Becomes(c, r, {s}) /\ restarts' = restarts
    BY <1>1 DEF CreateSession, r
  <2>3. call'[c] = r /\ \A d \in Calls \ {c} : SameCall(d)
    BY <2>2, OthersStay
  <2>4. QED BY <2>1, <2>2, <2>3, FlowDeclare
<1>2. ASSUME NEW c \in Calls, NEW old \in Sessions, NEW s \in Sessions,
             RestartSession(c, old, s) PROVE Flow'
  <2> DEFINE r == [Working("create", s, NoTmux) EXCEPT
                     !.old = old,
                     !.oldLive = row[old] \notin {"exited", "restorable"}]
  <2>1. r.kind = "create" /\ r.row = s
    BY DEF Working, Idle
  <2>2. restarts' # 0
    BY <1>2, BoundsAssumption DEF RestartSession, TypeOK
  <2> HIDE DEF r
  <2>3. Declare(c, s) /\ call' = Becomes(c, r, {s})
    BY <1>2 DEF RestartSession, r
  <2>4. call'[c] = r /\ \A d \in Calls \ {c} : SameCall(d)
    BY <2>3, OthersStay
  <2>5. QED BY <2>1, <2>2, <2>3, <2>4, FlowDeclare
<1>3. ASSUME NEW c \in Calls, NEW s \in Sessions, RestoreSession(c, s) PROVE Flow'
  <2> USE DEF Flow
  <2> DEFINE r == Working("restore", s, NoTmux)
  <2>1. r.kind = "restore" /\ r.row = s /\ r.old = NoSession
    BY DEF Working, Idle
  <2> HIDE DEF r
  <2>2. call' = [call EXCEPT ![c] = r] /\ call[c].kind = "idle"
    BY <1>3 DEF RestoreSession, r
  <2>3. call'[c] = r /\ \A d \in Calls \ {c} : SameCall(d)
    BY <2>2, OthersStay
  <2>4. /\ Busy({"create"})' = Busy({"create"})
        /\ Busy({"restore"})' = Busy({"restore"}) \cup {c}
        /\ c \notin Busy({"create", "restore"})
    BY <2>1, <2>2, <2>3 DEF Busy, SameCall
  <2>5. \A d \in Busy({"create", "restore"}) : call'[d].row = call[d].row
    BY <2>3, <2>4 DEF SameCall, Busy
  <2>6. restoring' = restoring \cup {s} /\ s \notin restoring
    BY <1>3 DEF RestoreSession
  <2>7. OneRestorer'
    <3>1. {call'[d].row : d \in Busy({"restore"})'} = restoring \cup {s}
      BY <2>1, <2>3, <2>4, <2>5 DEF OneRestorer, Busy
    <3>2. \A d \in Busy({"restore"}) : call[d].row \in restoring
      BY DEF OneRestorer
    <3>3. \A d, e \in Busy({"restore"})' : call'[d].row = call'[e].row => d = e
      BY <2>1, <2>3, <2>4, <2>5, <2>6, <3>2 DEF OneRestorer, Busy
    <3>4. QED BY <2>6, <3>1, <3>3 DEF OneRestorer
  <2>8. creating' = creating /\ restarts' = restarts /\ fresh' = fresh
        /\ row' = row /\ UNCHANGED tmux
    BY <1>3 DEF RestoreSession, manifest
  <2>9. CreatingBusy'
    BY <2>4, <2>5, <2>8 DEF CreatingBusy, Busy
  <2>10. RowsOfCreates'
    <3>1. restarts = 0 => \A d \in Calls : call'[d].kind # "swap" /\ call'[d].old = NoSession
      BY <2>1, <2>3 DEF RowsOfCreates, SameCall
    <3>2. QED BY <2>4, <2>5, <2>8, <3>1 DEF RowsOfCreates, Busy
  <2>11. RevivedSeen'
    BY <2>1, <2>3, <2>8, SeenStays DEF tmux
  <2>12. QED BY <2>7, <2>9, <2>10, <2>11
<1>4. ASSUME NEW c \in Calls, NEW s \in Sessions, KillSession(c, s) PROVE Flow'
  <2>1. Lets(c) /\ RowsStay /\ \A d \in Calls \ {c} : SameCall(d)
    <3>1. Idle \in CallRecords /\ Idle.kind = "idle" /\ Idle.old = NoSession
      BY IdleType DEF Idle
    <3>2. BeginEnd(c, "end", s, Idle) /\ call[c].kind = "idle"
      BY <1>4 DEF KillSession
    <3>3. QED BY <3>1, <3>2, BeginEndLets
  <2>2. Rests
    BY <1>4, <2>1 DEF KillSession, Rests, tmux, flights
  <2>3. QED BY <2>1, <2>2, FlowRests
<1>5. ASSUME NEW s \in Sessions, RemoveSession(s) PROVE Flow'
  <2>1. RowsStay
    BY <1>5 DEF RemoveSession, RowsStay, TypeOK
  <2>2. Rests
    BY <1>5, <2>1 DEF RemoveSession, Rests, tmux, flights
  <2>3. \A d \in Calls : SameCall(d)
    BY <1>5 DEF RemoveSession, SameCall
  <2>4. QED BY <2>2, <2>3, FlowStays
<1>6. QED
  BY <1>1, <1>2, <1>3, <1>4, <1>5 DEF Verb

\* A new $-id is nobody's yet, so no restore has brought it back.
LEMMA FlowMint ==
  ASSUME TypeOK, Flow, NEW o, nextId \in TmuxIds,
         minted' = [minted EXCEPT ![nextId] = o], alive' = alive \cup {nextId},
         revived' = revived \ {nextId}, \A d \in Calls : SameCall(d),
         UNCHANGED <<row, creating, restoring, restarts, fresh>>
  PROVE  Flow'
<1>1. alive' \cap revived' \subseteq alive \cap revived
  OBVIOUS
<1>2. \A t \in alive' \cap revived' : minted'[t] = minted[t]
  BY DEF TypeOK
<1>3. Rests
  BY <1>1, <1>2 DEF Rests, RowsStay
<1>4. QED BY <1>3, FlowStays

LEMMA FlowSpawn == ASSUME TypeOK, Flow, NEW c \in Calls, Spawn(c) PROVE Flow'
<1> DEFINE r == [call[c] EXCEPT !.tmux = nextId]
<1>1. /\ r.kind = call[c].kind /\ r.row = call[c].row /\ r.old = call[c].old
      /\ r.list = call[c].list /\ r.newer = call[c].newer
  BY CallFields DEF CallRecords
<1>2. call' = [call EXCEPT ![c] = r]
  BY DEF Spawn
<1> HIDE DEF r
<1>3. call'[c] = r /\ \A d \in Calls \ {c} : SameCall(d)
  BY <1>2, OthersStay
<1>4. \A d \in Calls : SameCall(d)
  BY <1>1, <1>3 DEF SameCall
<1>5. /\ nextId \in TmuxIds /\ minted' = [minted EXCEPT ![nextId] = call[c].row]
      /\ alive' = alive \cup {nextId} /\ revived' = revived \ {nextId}
      /\ UNCHANGED <<row, creating, restoring, restarts, fresh>>
  BY DEF Spawn, manifest, flights, bounds
<1>6. QED BY <1>4, <1>5, FlowMint

\* A create that is over takes its record out of createsInFlight, and its row with
\* it when it failed: no other create is about that row.
LEMMA FlowCreateEnds ==
  ASSUME TypeOK, Flow, NEW c \in Calls, CreateDone(c) \/ CreateFails(c)
  PROVE  Flow'
<1> USE DEF Flow
<1> DEFINE s == call[c].row
<1>1. call[c].kind = "create" /\ s \in Sessions /\ creating' = creating \ {s}
  BY CallFields DEF CreateDone, CreateFails, Rowless
<1>2. call'[c].kind \in {"idle", "swap"} /\ \A d \in Calls \ {c} : SameCall(d)
  <2> DEFINE r == [call[c] EXCEPT !.kind = "swap", !.tmux = NoTmux]
  <2>1. r.kind = "swap" /\ Idle.kind = "idle"
    BY CallFields DEF CallRecords, Idle
  <2>2. call' = [call EXCEPT ![c] = Idle] \/ call' = [call EXCEPT ![c] = r]
    BY DEF CreateDone, CreateFails
  <2> HIDE DEF r
  <2>3. QED BY <2>1, <2>2, OthersStay
<1>3. \A d \in Calls \ {c} : call'[d].kind = call[d].kind /\ call'[d].row = call[d].row
  BY <1>2 DEF SameCall
<1>4. /\ restoring' = restoring /\ restarts' = restarts /\ fresh' = fresh
      /\ UNCHANGED tmux
  BY DEF CreateDone, CreateFails, bounds
<1>5. OneRestorer'
  BY <1>1, <1>2, <1>3, <1>4 DEF OneRestorer, Busy
<1>6. CreatingBusy'
  <2>1. ASSUME NEW u \in creating'
        PROVE  \E d \in Calls : call'[d].kind = "create" /\ u = call'[d].row
    <3>1. PICK d \in Calls : call[d].kind = "create" /\ u = call[d].row
      BY <1>1 DEF CreatingBusy, Busy
    <3>2. d # c
      BY <1>1, <3>1
    <3>3. QED BY <1>3, <3>1, <3>2
  <2>2. QED BY <2>1 DEF CreatingBusy, Busy
<1>7. RowsOfCreates'
  <2> SUFFICES ASSUME restarts' = 0 PROVE RowsOfCreates'
    BY DEF RowsOfCreates
  <2>0. restarts = 0 /\ call[c].old = NoSession
    BY <1>4 DEF RowsOfCreates
  <2>1. call' = [call EXCEPT ![c] = Idle]
    BY <2>0 DEF CreateDone, CreateFails
  <2>2. call'[c].kind = "idle" /\ call'[c].old = NoSession
    BY <2>1 DEF TypeOK, Idle
  <2>3. \A d \in Calls : call'[d].kind # "swap" /\ call'[d].old = NoSession
    BY <1>2, <2>0, <2>2 DEF RowsOfCreates, SameCall
  <2>4. \A d \in Calls \ {c} : call[d].kind = "create" =>
          /\ call[d].row \in Sessions /\ call[d].row # s
          /\ row[call[d].row] # "none" /\ call[d].row \notin fresh
    BY <1>1, <2>0, CallFields DEF RowsOfCreates, Busy, Rowless
  <2>5. \A u \in Sessions \ {s} : row'[u] = row[u]
    BY DEF CreateDone, CreateFails, DeleteRow, manifest, TypeOK
  <2>6. \A d \in Calls : call'[d].kind = "create" =>
          row'[call'[d].row] # "none" /\ call'[d].row \notin fresh'
    BY <1>3, <1>4, <2>2, <2>4, <2>5
  <2>7. \A d, e \in Calls :
          call'[d].kind = "create" /\ call'[e].kind = "create" /\ call'[d].row = call'[e].row
            => d = e
    BY <1>3, <2>0, <2>2 DEF RowsOfCreates, Busy
  <2>8. QED BY <2>3, <2>6, <2>7 DEF RowsOfCreates, Busy
<1>8. RevivedSeen'
  BY <1>2, <1>4, SeenStays DEF tmux
<1>9. QED BY <1>5, <1>6, <1>7, <1>8

\* A restore that is over lifts its guard, and every refresh in flight learns that
\* the row is newer than its list.
LEMMA FlowRestoreEnds ==
  ASSUME TypeOK, Flow, NEW c \in Calls, RestoreDone(c) \/ RestoreFails(c)
  PROVE  Flow'
<1> USE DEF Flow
<1> DEFINE s == call[c].row
<1>1. call[c].kind = "restore" /\ s \in Sessions /\ restoring' = restoring \ {s}
  BY CallFields DEF RestoreDone, RestoreFails, DropsGuard, Rowless
<1>2. call'[c] = Idle /\ \A d \in Calls \ {c} : SameCall(d)
  <2>1. call' = [call EXCEPT ![c] = Idle] \/ call' = Becomes(c, Idle, {s})
    BY DEF RestoreDone, RestoreFails
  <2>2. QED BY <2>1, OthersStay
<1>3. call'[c].kind = "idle" /\ call'[c].old = NoSession
  BY <1>2 DEF Idle
<1>4. \A d \in Calls \ {c} : call'[d].kind = call[d].kind /\ call'[d].row = call[d].row
  BY <1>2 DEF SameCall
<1>5. /\ creating' = creating /\ restarts' = restarts /\ fresh' = fresh
      /\ minted' = minted /\ alive' = alive
  BY DEF RestoreDone, RestoreFails, flights, bounds, tmux
<1>6. OneRestorer'
  <2>1. \A d, e \in Calls :
          call[d].kind = "restore" /\ call[e].kind = "restore" /\ call[d].row = call[e].row
            => d = e
    BY DEF OneRestorer, Busy
  <2>2. \A d, e \in Calls :
          call'[d].kind = "restore" /\ call'[e].kind = "restore" /\ call'[d].row = call'[e].row
            => d = e
    BY <1>3, <1>4, <2>1
  <2>3. ASSUME NEW d \in Calls, call'[d].kind = "restore" PROVE call'[d].row \in restoring'
    <3>1. d # c /\ call[d].kind = "restore" /\ call'[d].row = call[d].row
      BY <1>3, <1>4, <2>3
    <3>2. call[d].row # s /\ call[d].row \in restoring
      BY <1>1, <2>1, <3>1 DEF OneRestorer, Busy
    <3>3. QED BY <1>1, <3>1, <3>2
  <2>4. ASSUME NEW u \in restoring'
        PROVE  \E d \in Calls : call'[d].kind = "restore" /\ u = call'[d].row
    <3>1. PICK d \in Calls : call[d].kind = "restore" /\ u = call[d].row
      BY <1>1 DEF OneRestorer, Busy
    <3>2. d # c
      BY <1>1, <3>1
    <3>3. QED BY <1>4, <3>1, <3>2
  <2>5. QED BY <2>2, <2>3, <2>4 DEF OneRestorer, Busy
<1>7. CreatingBusy'
  <2>1. ASSUME NEW u \in creating'
        PROVE  \E d \in Calls : call'[d].kind = "create" /\ u = call'[d].row
    <3>1. PICK d \in Calls : call[d].kind = "create" /\ u = call[d].row
      BY <1>5 DEF CreatingBusy, Busy
    <3>2. QED BY <1>1, <1>4, <3>1
  <2>2. QED BY <2>1 DEF CreatingBusy, Busy
<1>8. RowsOfCreates'
  <2> SUFFICES ASSUME restarts' = 0 PROVE RowsOfCreates'
    BY DEF RowsOfCreates
  <2>1. restarts = 0
    BY <1>5
  <2>2. \A d \in Calls : call'[d].kind # "swap" /\ call'[d].old = NoSession
    BY <1>2, <1>3, <2>1 DEF RowsOfCreates, SameCall
  <2>3. \A d \in Calls : call[d].kind = "create" =>
          /\ call[d].row \in Sessions
          /\ row[call[d].row] # "none" /\ call[d].row \notin fresh
    BY <2>1, CallFields DEF RowsOfCreates, Busy, Rowless
  <2>4. \A u \in Sessions : row[u] # "none" => row'[u] # "none"
    BY DEF RestoreDone, RestoreFails, WriteStatus, manifest, TypeOK
  <2>5. \A d \in Calls : call'[d].kind = "create" =>
          row'[call'[d].row] # "none" /\ call'[d].row \notin fresh'
    BY <1>3, <1>4, <1>5, <2>3, <2>4
  <2>6. \A d, e \in Calls :
          call'[d].kind = "create" /\ call'[e].kind = "create" /\ call'[d].row = call'[e].row
            => d = e
    BY <1>3, <1>4, <2>1 DEF RowsOfCreates, Busy
  <2>7. QED BY <2>2, <2>5, <2>6 DEF RowsOfCreates, Busy
<1>9. RevivedSeen'
  <2>1. CASE RestoreFails(c)
    <3>1. revived' = revived
      BY <2>1 DEF RestoreFails, tmux
    <3>2. QED BY <1>2, <1>3, <1>5, <3>1, SeenStays
  <2>2. CASE RestoreDone(c)
    <3> SUFFICES ASSUME NEW d \in Calls, call'[d].kind = "listed",
                        NEW t \in alive' \cap revived', minted'[t] \in Sessions
                 PROVE  \/ <<t, minted'[t]>> \in call'[d].list
                        \/ minted'[t] \in call'[d].newer
      BY DEF RevivedSeen
    <3>1. d # c /\ SameCall(d) /\ call[d].kind = "listed"
      BY <1>2, <1>3 DEF SameCall
    <3>2. s \in call'[d].newer
      <4>1. call' = Becomes(c, Idle, {s})
        BY <2>2 DEF RestoreDone
      <4>2. call'[d] = Stamp(call, {s})[d]
        BY <3>1, <4>1 DEF Becomes, Stamp
      <4>3. QED BY <3>1, <4>2, StampStays DEF Refreshing
    <3>3. t \in revived \/ minted[t] = s
      BY <2>2 DEF RestoreDone
    <3>4. QED BY <1>5, <3>1, <3>2, <3>3 DEF RevivedSeen, SameCall
  <2>3. QED BY <2>1, <2>2
<1>10. QED BY <1>6, <1>7, <1>8, <1>9

\* The second half of a restart holds no guard, and only a restart has one.
LEMMA FlowRestart ==
  ASSUME TypeOK, Flow, NEW c \in Calls, RestartEndsOld(c) \/ DiscardOld(c)
  PROVE  Flow'
<1>1. call[c].kind = "swap" /\ restarts # 0 /\ call[c].old \in Sessions
  BY CallFields DEF RestartEndsOld, DiscardOld, Flow, RowsOfCreates
<1>2. Lets(c) /\ \A d \in Calls \ {c} : SameCall(d)
  <2> DEFINE waiting == [call[c] EXCEPT !.oldLive = FALSE]
  <2>1. waiting \in CallRecords /\ waiting.kind = "swap" /\ Idle.kind = "idle"
    BY <1>1, CallFields DEF CallRecords, Idle
  <2>2. \/ call' = [call EXCEPT ![c] = Idle]
        \/ call' = [call EXCEPT ![c] = waiting]
        \/ BeginEnd(c, "end", call[c].old, waiting)
    BY DEF RestartEndsOld, DiscardOld
  <2> HIDE DEF waiting
  <2>3. CASE call' = [call EXCEPT ![c] = Idle] \/ call' = [call EXCEPT ![c] = waiting]
    BY <1>1, <2>1, <2>3, OthersStay DEF Lets
  <2>4. CASE BeginEnd(c, "end", call[c].old, waiting)
    BY <1>1, <2>1, <2>4, BeginEndLets
  <2>5. QED BY <2>2, <2>3, <2>4
<1>3. Rests
  BY <1>1 DEF RestartEndsOld, DiscardOld, Rests, tmux, flights, bounds
<1>4. QED BY <1>2, <1>3, FlowRests

\* An End or a reap on its way.
LEMMA FlowEnds ==
  ASSUME TypeOK, Flow, NEW c \in Calls, HangUp(c) \/ HangUpFails(c) \/ FinishEnd(c)
  PROVE  Flow'
<1> DEFINE hung(k) == [call[c] EXCEPT !.kind = k]
           swap == [call[c] EXCEPT !.kind = "swap", !.tmux = NoTmux]
<1>1. /\ hung("hungEnd").kind = "hungEnd" /\ hung("hungReap").kind = "hungReap"
      /\ hung("hungEnd").old = call[c].old /\ hung("hungReap").old = call[c].old
      /\ swap.kind = "swap" /\ Idle.kind = "idle" /\ Idle.old = NoSession
  BY CallFields DEF CallRecords, Idle
<1>2. call[c].kind \in {"end", "reap", "hungEnd", "hungReap"}
  BY DEF HangUp, HangUpFails, FinishEnd
<1>3. restarts = 0 => call[c].old = NoSession
  BY DEF Flow, RowsOfCreates
<1>4. PICK r \in {hung("hungEnd"), hung("hungReap"), AfterEnd(c)} :
        \/ call' = [call EXCEPT ![c] = r]
        \/ call' = Becomes(c, r, IF row[call[c].row] = "none" THEN {} ELSE {call[c].row})
  <2>1. CASE HangUp(c)
    BY <2>1 DEF HangUp
  <2>2. CASE HangUpFails(c)
    BY <2>2 DEF HangUpFails
  <2>3. CASE FinishEnd(c)
    BY <2>3 DEF FinishEnd
  <2>4. QED BY <2>1, <2>2, <2>3
<1>5. AfterEnd(c) = IF call[c].old = NoSession THEN Idle ELSE swap
  BY DEF AfterEnd
<1> HIDE DEF hung, swap
<1>6. Lets(c) /\ \A d \in Calls \ {c} : SameCall(d)
  <2>1. call'[c] = r /\ \A d \in Calls \ {c} : SameCall(d)
    BY <1>4, OthersStay
  <2>2. QED BY <1>1, <1>2, <1>3, <1>5, <2>1 DEF Lets
<1>7. Rests
  <2>1. RowsStay
    BY DEF HangUp, HangUpFails, FinishEnd, MarkExited, WriteStatus, RowsStay, manifest,
           TypeOK
  <2>2. alive' \subseteq alive /\ minted' = minted /\ revived' = revived
        /\ UNCHANGED <<creating, restoring, restarts, fresh>>
    BY DEF HangUp, HangUpFails, FinishEnd, tmux, flights, bounds
  <2>3. QED BY <2>1, <2>2 DEF Rests
<1>8. QED BY <1>6, <1>7, FlowRests

\* The refreshes that take no list, and boot, whose process starts with no call.
LEMMA FlowRefresh ==
  ASSUME TypeOK, DownIsIdle, Flow, NEW c \in Calls,
         RefreshBegins(c) \/ RefreshUnreachable(c) \/ RefreshApplies(c) \/ Boot(c)
  PROVE  Flow'
<1> DEFINE w == Working("listing", NoSession, NoTmux)
           b == [w EXCEPT !.boot = TRUE]
<1>1. /\ Idle.kind = "idle" /\ Idle.old = NoSession
      /\ w.kind = "listing" /\ w.old = NoSession
      /\ b.kind = "listing" /\ b.old = NoSession
  BY DEF Working, Idle
<1>2. call[c].kind \in {"idle", "listing", "listed"}
  BY DEF RefreshBegins, RefreshUnreachable, RefreshApplies, Boot, DownIsIdle
<1>3. PICK r \in {Idle, w, b} :
        call' = [call EXCEPT ![c] = r] \/ call' = Becomes(c, r, Claimed(c))
  BY DEF RefreshBegins, RefreshUnreachable, RefreshApplies, Boot
<1> HIDE DEF w, b
<1>4. Lets(c) /\ \A d \in Calls \ {c} : SameCall(d)
  <2>1. call'[c] = r /\ \A d \in Calls \ {c} : SameCall(d)
    BY <1>3, OthersStay
  <2>2. QED BY <1>1, <1>2, <2>1 DEF Lets
<1>5. Rests
  <2>1. CASE RefreshBegins(c) \/ Boot(c)
    BY <2>1 DEF RefreshBegins, Boot, Rests, RowsStay, manifest, tmux, flights, bounds
  <2>2. CASE RefreshUnreachable(c)
    <3>1. RowsStay
      BY <2>2 DEF RefreshUnreachable, RowsStay
    <3>2. QED BY <2>2, <3>1 DEF RefreshUnreachable, Rests, tmux, flights, bounds
  <2>3. CASE RefreshApplies(c)
    <3>1. PICK stale \in SUBSET (creating \cap SlowCreates) :
            /\ creating' = creating \ stale
            /\ row' = Judged(c, (creating \ stale) \cup restoring)
      BY <2>3 DEF RefreshApplies
    <3>2. RowsStay
      BY <3>1 DEF RowsStay, Judged
    <3>3. QED BY <2>3, <3>1, <3>2 DEF RefreshApplies, Rests, tmux, bounds
  <2>4. QED BY <2>1, <2>2, <2>3
<1>6. QED BY <1>4, <1>5, FlowRests

\* A list that is taken holds every session that lives under its identity.
LEMMA FlowRefreshLists ==
  ASSUME TypeOK, Flow, NEW c \in Calls, RefreshLists(c)
  PROVE  Flow'
<1> USE DEF Flow
<1> DEFINE r == [call[c] EXCEPT !.kind = "listed", !.list = LiveIdentities]
<1>1. /\ r.kind = "listed" /\ r.row = call[c].row /\ r.old = call[c].old
      /\ r.list = LiveIdentities
  BY CallFields DEF CallRecords
<1>2. call' = [call EXCEPT ![c] = r] /\ call[c].kind = "listing"
  BY DEF RefreshLists
<1> HIDE DEF r
<1>3. call'[c] = r /\ \A d \in Calls \ {c} : SameCall(d)
  BY <1>2, OthersStay
<1>4. /\ call'[c].kind = "listed" /\ call'[c].old = call[c].old
      /\ call'[c].list = LiveIdentities
      /\ \A d \in Calls \ {c} : /\ call'[d].kind = call[d].kind
                                /\ call'[d].row = call[d].row
                                /\ call'[d].old = call[d].old
  BY <1>1, <1>3 DEF SameCall
<1>5. /\ row' = row /\ creating' = creating /\ restoring' = restoring
      /\ restarts' = restarts /\ fresh' = fresh /\ UNCHANGED tmux
  BY DEF RefreshLists, manifest, flights, bounds
<1>6. OneRestorer'
  BY <1>2, <1>4, <1>5 DEF OneRestorer, Busy
<1>7. CreatingBusy'
  BY <1>2, <1>4, <1>5 DEF CreatingBusy, Busy
<1>8. RowsOfCreates'
  BY <1>2, <1>4, <1>5 DEF RowsOfCreates, Busy
<1>9. RevivedSeen'
  <2> SUFFICES ASSUME NEW d \in Calls, call'[d].kind = "listed",
                      NEW t \in alive' \cap revived', minted'[t] \in Sessions
               PROVE  \/ <<t, minted'[t]>> \in call'[d].list
                      \/ minted'[t] \in call'[d].newer
    BY DEF RevivedSeen
  <2>1. t \in alive \cap revived /\ minted'[t] = minted[t]
    BY <1>5 DEF tmux
  <2>2. CASE d = c
    <3>1. t \in TmuxIds /\ minted[t] \in Sessions
      BY <2>1 DEF TypeOK
    <3>2. QED BY <1>4, <2>1, <2>2, <3>1 DEF LiveIdentities
  <2>3. CASE d # c
    BY <1>3, <2>1, <2>3 DEF RevivedSeen, SameCall
  <2>4. QED BY <2>2, <2>3
<1>10. QED BY <1>6, <1>7, <1>8, <1>9

LEMMA FlowTick == TypeOK /\ Flow /\ Tick => Flow'
<1> SUFFICES ASSUME TypeOK, Flow, Tick PROVE Flow'
  OBVIOUS
<1>1. CASE TickReads
  <2>1. Rests /\ \A d \in Calls : SameCall(d)
    BY <1>1 DEF TickReads, Rests, RowsStay, SameCall, manifest, tmux, flights, bounds
  <2>2. QED BY <2>1, FlowStays
<1>2. ASSUME NEW s \in Sessions, TickDetects(s) PROVE Flow'
  <2>1. \A d \in Calls : SameCall(d)
    <3>1. call' = call \/ call' = Stamp(call, {s})
      BY <1>2 DEF TickDetects
    <3>2. CASE call' = call
      BY <3>2 DEF SameCall
    <3>3. CASE call' = Stamp(call, {s})
      BY <3>3, StampStays DEF SameCall
    <3>4. QED BY <3>1, <3>2, <3>3
  <2>2. RowsStay
    BY <1>2 DEF TickDetects, RowsStay, TypeOK
  <2>3. Rests
    BY <1>2, <2>2 DEF TickDetects, Rests, tmux, flights, bounds
  <2>4. QED BY <2>1, <2>3, FlowStays
<1>3. ASSUME NEW c \in Calls, NEW s \in Sessions, TickReaps(c, s) PROVE Flow'
  <2>0. UNCHANGED <<tmux, flights, fresh, bounds>>
    BY <1>3 DEF TickReaps
  <2>1. CASE UNCHANGED <<row, call>>
    <3>1. Rests /\ \A d \in Calls : SameCall(d)
      BY <2>0, <2>1 DEF Rests, RowsStay, SameCall, tmux, flights, bounds
    <3>2. QED BY <3>1, FlowStays
  <2>2. CASE BeginEnd(c, "reap", s, Idle)
    <3>1. Idle \in CallRecords /\ Idle.kind = "idle" /\ Idle.old = NoSession
      BY IdleType DEF Idle
    <3>2. call[c].kind = "idle"
      BY <1>3 DEF TickReaps
    <3>3. Lets(c) /\ RowsStay /\ \A d \in Calls \ {c} : SameCall(d)
      BY <2>2, <3>1, <3>2, BeginEndLets
    <3>4. Rests
      BY <2>0, <3>3 DEF Rests, tmux, flights, bounds
    <3>5. QED BY <3>3, <3>4, FlowRests
  <2>3. QED BY <1>3, <2>1, <2>2 DEF TickReaps
<1>4. QED
  BY <1>1, <1>2, <1>3 DEF Tick

LEMMA FlowEnvironment == TypeOK /\ Flow /\ Environment => Flow'
<1> SUFFICES ASSUME TypeOK, Flow, Environment PROVE Flow'
  OBVIOUS
<1>1. ASSUME UNCHANGED <<row, minted, revived, creating, restoring, call, fresh, restarts>>,
             alive' \subseteq alive
      PROVE  Flow'
  <2>1. Rests /\ \A d \in Calls : SameCall(d)
    BY <1>1 DEF Rests, RowsStay, SameCall
  <2>2. QED BY <2>1, FlowStays
<1>2. CASE ScheduleRefresh
  BY <1>1, <1>2 DEF ScheduleRefresh, manifest, tmux, flights, bounds
<1>3. ASSUME NEW t \in TmuxIds, PaneFails(t) \/ SessionCloses(t) PROVE Flow'
  BY <1>1, <1>3 DEF PaneFails, SessionCloses, manifest, flights, bounds
<1>4. CASE StrangerSpawns
  <2>1. \A d \in Calls : SameCall(d)
    BY <1>4 DEF StrangerSpawns, SameCall
  <2>2. QED BY <1>4, <2>1, FlowMint DEF StrangerSpawns, manifest, flights, bounds
<1>5. CASE ServerDies
  BY <1>1, <1>5 DEF ServerDies, manifest, flights
<1>6. CASE AppDies
  <2>1. /\ restoring' = {} /\ creating' = {}
        /\ \A d \in Calls : call'[d].kind = "idle" /\ call'[d].old = NoSession
    BY <1>6 DEF AppDies, Idle
  <2>2. QED BY <2>1 DEF Flow, OneRestorer, CreatingBusy, RowsOfCreates, RevivedSeen, Busy
<1>7. QED
  BY <1>2, <1>3, <1>4, <1>5, <1>6 DEF Environment

\* A call moves only while its process runs, and the tick reads only then.
LEMMA DownStep == TypeOK /\ DownIsIdle /\ [Next]_vars => DownIsIdle'
<1> SUFFICES ASSUME TypeOK, DownIsIdle, [Next]_vars, up' = "down"
             PROVE  /\ \A c \in Calls : call'[c].kind = "idle"
                    /\ \A s \in Sessions : sample'[s] = "none"
  BY DEF DownIsIdle
<1> USE DEF DownIsIdle
<1>1. CASE Verb
  <2>1. ASSUME NEW c \in Calls, NEW s \in Sessions,
               CreateSession(c, s) \/ RestoreSession(c, s) \/ KillSession(c, s)
        PROVE  FALSE
    BY <2>1 DEF CreateSession, RestoreSession, KillSession, Declare, Asked
  <2>2. ASSUME NEW c \in Calls, NEW old \in Sessions, NEW s \in Sessions,
               RestartSession(c, old, s) PROVE FALSE
    BY <2>2 DEF RestartSession, Declare, Asked
  <2>3. ASSUME NEW s \in Sessions, RemoveSession(s) PROVE FALSE
    BY <2>3 DEF RemoveSession, Asked
  <2>4. QED BY <1>1, <2>1, <2>2, <2>3 DEF Verb
<1>2. ASSUME NEW c \in Calls, Progress(c) \/ Failure(c) PROVE FALSE
  <2>1. up = "down" \/ up' = up
    BY <1>2
    DEF Progress, Failure, Spawn, CreateDone, RestoreDone, RestartEndsOld, DiscardOld,
        HangUp, FinishEnd, RefreshBegins, RefreshLists, RefreshApplies, Boot,
        CreateFails, RestoreFails, HangUpFails, RefreshUnreachable, BootMoves
  <2>2. call[c].kind = "idle"
    BY <2>1
  <2>3. QED
    BY <1>2, <2>1, <2>2
    DEF Progress, Failure, Spawn, CreateDone, RestoreDone, RestartEndsOld, DiscardOld,
        HangUp, FinishEnd, RefreshBegins, RefreshLists, RefreshApplies, Boot,
        CreateFails, RestoreFails, HangUpFails, RefreshUnreachable
<1>3. CASE Tick
  BY <1>3 DEF Tick, TickReads, TickDetects, TickReaps
<1>4. CASE Environment
  BY <1>4
  DEF Environment, ScheduleRefresh, PaneFails, SessionCloses, StrangerSpawns,
      ServerDies, AppDies, Idle
<1>5. CASE UNCHANGED vars
  BY <1>5 DEF vars
<1>6. QED BY <1>1, <1>2, <1>3, <1>4, <1>5 DEF Next

\* Every step keeps the guards, the rows and the lists as they should be.
LEMMA FlowStep == TypeOK /\ DownIsIdle /\ Flow /\ [Next]_vars => Flow'
<1> SUFFICES ASSUME TypeOK, DownIsIdle, Flow, [Next]_vars PROVE Flow'
  OBVIOUS
<1>1. ASSUME NEW c \in Calls, Progress(c) \/ Failure(c) PROVE Flow'
  BY <1>1, FlowSpawn, FlowCreateEnds, FlowRestoreEnds, FlowRestart, FlowEnds,
     FlowRefresh, FlowRefreshLists DEF Progress, Failure
<1>2. CASE UNCHANGED vars
  <2>1. Rests /\ \A d \in Calls : SameCall(d)
    BY <1>2 DEF vars, Rests, RowsStay, SameCall, manifest, tmux, flights, bounds
  <2>2. QED BY <2>1, FlowStays
<1>3. QED BY <1>1, <1>2, FlowVerb, FlowTick, FlowEnvironment DEF Next

(* The guards of restores and creates answer to the calls at work, every create
   has its row, and no list misses a restored session without knowing it. *)
THEOREM FlowInvariant == Spec => [](DownIsIdle /\ Flow)
<1>1. Init => TypeOK /\ DownIsIdle /\ Flow
  BY TypeInit, FlowInit
<1>2. TypeOK /\ DownIsIdle /\ Flow /\ [Next]_vars => (TypeOK /\ DownIsIdle /\ Flow)'
  BY TypeStep, DownStep, FlowStep
<1>3. QED BY <1>1, <1>2, PTL DEF Spec

(* restoresInFlight holds exactly the sessions of the restores at work, and no two
   restores are about one session. *)
THEOREM OneRestorerAlways == Spec => []OneRestorer
<1>1. Flow => OneRestorer
  BY DEF Flow
<1>2. QED BY <1>1, FlowInvariant, PTL

(* Unless something was restarted, a session being created has its manifest row. *)
THEOREM CreateHasRowAlways == Spec => []CreateHasRow
<1>1. Flow => CreateHasRow
  BY DEF Flow, RowsOfCreates, CreateHasRow
<1>2. QED BY <1>1, FlowInvariant, PTL

-----------------------------------------------------------------------------
(* What a refresh may offer, and what it settles *)

\* An End or a reap that begins writes exited, or nothing yet.
LEMMA BeginEndRow ==
  ASSUME TypeOK, NEW c \in Calls, NEW k, NEW s \in Sessions, NEW next,
         BeginEnd(c, k, s, next), NEW u \in Sessions, row'[u] # row[u]
  PROVE  row'[u] = "exited"
  BY DEF BeginEnd, MarkExited, WriteStatus, TypeOK

\* Only a refresh offers Restore on a row.
LEMMA OfferedByRefresh ==
  ASSUME TypeOK, [Next]_vars, NEW s \in Sessions,
         row[s] # "restorable", row'[s] = "restorable"
  PROVE  \E c \in Calls : RefreshApplies(c)
<1>0. row'[s] # row[s] /\ row'[s] # "exited"
  OBVIOUS
<1>1. CASE Verb
  <2>1. ASSUME NEW c \in Calls, NEW u \in Sessions,
               CreateSession(c, u) \/ RestoreSession(c, u) PROVE FALSE
    BY <2>1 DEF CreateSession, RestoreSession, Declare, InsertRow, manifest, TypeOK
  <2>2. ASSUME NEW c \in Calls, NEW u \in Sessions, KillSession(c, u) PROVE FALSE
    BY <1>0, <2>2, BeginEndRow DEF KillSession
  <2>3. ASSUME NEW c \in Calls, NEW old \in Sessions, NEW u \in Sessions,
               RestartSession(c, old, u) PROVE FALSE
    BY <2>3 DEF RestartSession, Declare, InsertRow, TypeOK
  <2>4. ASSUME NEW u \in Sessions, RemoveSession(u) PROVE FALSE
    BY <2>4 DEF RemoveSession, TypeOK
  <2>5. QED BY <1>1, <2>1, <2>2, <2>3, <2>4 DEF Verb
<1>2. ASSUME NEW c \in Calls, Progress(c) \/ Failure(c) PROVE RefreshApplies(c)
  <2>1. CASE Spawn(c) \/ CreateDone(c) \/ HangUp(c) \/ RefreshBegins(c)
             \/ RefreshLists(c) \/ Boot(c) \/ RestoreFails(c) \/ HangUpFails(c)
    BY <2>1 DEF Spawn, CreateDone, HangUp, RefreshBegins, RefreshLists, Boot,
                RestoreFails, HangUpFails, manifest
  <2>2. CASE RestoreDone(c) \/ DiscardOld(c) \/ FinishEnd(c) \/ CreateFails(c)
    BY <2>2 DEF RestoreDone, DiscardOld, FinishEnd, CreateFails, MarkExited,
                WriteStatus, DeleteRow, TypeOK
  <2>3. CASE RestartEndsOld(c)
    <3>1. call[c].old \in Sessions
      BY <2>3, CallFields DEF RestartEndsOld
    <3>2. QED BY <1>0, <2>3, <3>1, BeginEndRow DEF RestartEndsOld
  <2>4. CASE RefreshUnreachable(c)
    BY <2>4 DEF RefreshUnreachable
  <2>5. QED BY <1>2, <2>1, <2>2, <2>3, <2>4 DEF Progress, Failure
<1>3. CASE Tick
  <2>1. CASE TickReads
    BY <2>1 DEF TickReads, manifest
  <2>2. ASSUME NEW u \in Sessions, TickDetects(u) PROVE FALSE
    BY <2>2 DEF TickDetects, TypeOK
  <2>3. ASSUME NEW c \in Calls, NEW u \in Sessions, TickReaps(c, u) PROVE FALSE
    BY <1>0, <2>3, BeginEndRow DEF TickReaps
  <2>4. QED BY <1>3, <2>1, <2>2, <2>3 DEF Tick
<1>4. CASE Environment
  BY <1>4 DEF Environment, ScheduleRefresh, PaneFails, SessionCloses, StrangerSpawns,
              ServerDies, AppDies, manifest
<1>5. CASE UNCHANGED vars
  BY <1>5 DEF vars, manifest
<1>6. QED BY <1>1, <1>2, <1>3, <1>4, <1>5 DEF Next

(* A refresh never offers Restore on a row whose session lives and came out of a
   restore, however old its list is, nor while a create is on record for the row. *)
THEOREM RestorableOnlyIfGoneAlways == Spec => RestorableOnlyIfGone
<1>1. ASSUME TypeOK, Flow, [Next]_vars, NEW s \in Sessions,
             row[s] # "restorable", row'[s] = "restorable",
             NEW t \in alive, minted[t] = s
      PROVE  t \notin revived /\ s \notin creating \ SlowCreates
  <2>1. PICK c \in Calls : RefreshApplies(c)
    BY <1>1, OfferedByRefresh
  <2>2. PICK stale \in SUBSET (creating \cap SlowCreates) :
          row' = Judged(c, (creating \ stale) \cup restoring)
    BY <2>1 DEF RefreshApplies
  <2>3. /\ s \notin Claimed(c) /\ row[s] \in {"running", "unknown"}
        /\ s \notin Skipped(c, (creating \ stale) \cup restoring)
    BY <1>1, <2>2 DEF Judged
  <2>4. s \notin (creating \ stale) /\ s \notin call[c].newer
    BY <2>3 DEF Skipped, TooNew
  <2>5. <<t, s>> \notin call[c].list
    BY <2>3 DEF Claimed, Claimable, Listed
  <2>6. t \notin revived
    BY <1>1, <2>1, <2>4, <2>5 DEF Flow, RevivedSeen, RefreshApplies
  <2>7. QED BY <2>4, <2>6
<1>2. TypeOK /\ Flow /\ [Next]_vars =>
        [\A s \in Sessions : (row[s] # "restorable" /\ row'[s] = "restorable") =>
           \A t \in alive : minted[t] = s =>
             t \notin revived /\ s \notin creating \ SlowCreates]_vars
  BY <1>1
<1>3. QED
  BY <1>2, TypeCorrect, FlowInvariant, PTL DEF Spec, RestorableOnlyIfGone

\* Only its being applied takes a list out of a call while the process runs on.
LEMMA ListLeaves ==
  ASSUME TypeOK, DownIsIdle, [Next]_vars, NEW c \in Calls, call[c].kind = "listed",
         call'[c].kind = "idle", up' # "down", \A d \in Calls \ {c} : call[d].kind = "idle"
  PROVE  RefreshApplies(c)
<1>0. ~SameCall(c) /\ up # "down"
  BY DEF SameCall, DownIsIdle
<1>1. ASSUME NEW d \in Calls, d # c, NEW r, NEW W,
             call' = Becomes(d, r, W) \/ call' = [call EXCEPT ![d] = r]
      PROVE  FALSE
  BY <1>0, <1>1, OthersStay
<1>2. ASSUME NEW d \in Calls, NEW k, NEW s \in Sessions, NEW next,
             BeginEnd(d, k, s, next), call[d].kind = "idle"
      PROVE  FALSE
  BY <1>1, <1>2 DEF BeginEnd
<1>3. CASE Verb
  <2>1. ASSUME NEW d \in Calls, NEW s \in Sessions,
               CreateSession(d, s) \/ RestoreSession(d, s) PROVE FALSE
    BY <1>1, <2>1 DEF CreateSession, RestoreSession, Declare
  <2>2. ASSUME NEW d \in Calls, NEW s \in Sessions, KillSession(d, s) PROVE FALSE
    BY <1>2, <2>2 DEF KillSession
  <2>3. ASSUME NEW d \in Calls, NEW old \in Sessions, NEW s \in Sessions,
               RestartSession(d, old, s) PROVE FALSE
    BY <1>1, <2>3 DEF RestartSession, Declare
  <2>4. ASSUME NEW s \in Sessions, RemoveSession(s) PROVE FALSE
    BY <2>4 DEF RemoveSession
  <2>5. QED BY <1>3, <2>1, <2>2, <2>3, <2>4 DEF Verb
<1>4. ASSUME NEW d \in Calls, Progress(d) \/ Failure(d) PROVE RefreshApplies(c)
  <2>1. CASE d = c
    BY <1>0, <1>4, <2>1
    DEF Progress, Failure, Spawn, CreateDone, RestoreDone, RestartEndsOld, DiscardOld,
        HangUp, FinishEnd, RefreshBegins, RefreshLists, Boot,
        CreateFails, RestoreFails, HangUpFails, RefreshUnreachable
  <2>2. CASE d # c
    <3>1. RefreshBegins(d)
      BY <1>0, <1>4, <2>2
      DEF Progress, Failure, Spawn, CreateDone, RestoreDone, RestartEndsOld, DiscardOld,
          HangUp, FinishEnd, RefreshLists, RefreshApplies, Boot,
          CreateFails, RestoreFails, HangUpFails, RefreshUnreachable
    <3>2. QED BY <1>1, <2>2, <3>1 DEF RefreshBegins
  <2>3. QED BY <2>1, <2>2
<1>5. CASE Tick
  <2>1. CASE TickReads
    BY <2>1 DEF TickReads
  <2>2. ASSUME NEW s \in Sessions, TickDetects(s) PROVE FALSE
    BY <1>0, <2>2, StampStays DEF TickDetects, SameCall
  <2>3. ASSUME NEW d \in Calls, NEW s \in Sessions, TickReaps(d, s) PROVE FALSE
    BY <1>2, <2>3 DEF TickReaps
  <2>4. QED BY <1>5, <2>1, <2>2, <2>3 DEF Tick
<1>6. CASE Environment
  BY <1>6 DEF Environment, ScheduleRefresh, PaneFails, SessionCloses, StrangerSpawns,
              ServerDies, AppDies
<1>7. CASE UNCHANGED vars
  BY <1>7 DEF vars
<1>8. QED BY <1>3, <1>4, <1>5, <1>6, <1>7 DEF Next

(* A refresh that nothing disturbed leaves the rows, the bindings and the server in
   agreement, whatever came before it. *)
THEOREM QuietRefreshSettlesAlways == Spec => QuietRefreshSettles
<1>1. ASSUME TypeOK, DownIsIdle, Flow, [Next]_vars, NEW c \in Calls, Undisturbed(c),
             call'[c].kind = "idle", up' # "down", NEW s \in Sessions,
             row'[s] \notin {"none", "discarded"}
      PROVE  IF Lives(s)'
             THEN row'[s] = "running" /\ bound'[s] \in alive' /\ minted'[bound'[s]] = s
             ELSE row'[s] \in {"exited", "restorable"} /\ bound'[s] = NoTmux
  <2>1. RefreshApplies(c)
    BY <1>1, ListLeaves DEF Undisturbed
  <2>2. creating = {} /\ restoring = {}
    BY <1>1 DEF Undisturbed, Flow, OneRestorer, CreatingBusy, Busy
  <2>3. PICK stale \in SUBSET (creating \cap SlowCreates),
             pick \in [Claimed(c) -> TmuxIds] :
          /\ \A u \in Claimed(c) : <<pick[u], u>> \in call[c].list
          /\ \E keep \in SUBSET Skipped(c, (creating \ stale) \cup restoring) :
               bound' = Rebound(c, pick, keep)
          /\ row' = Judged(c, (creating \ stale) \cup restoring)
    BY <2>1 DEF RefreshApplies
  <2>4. Skipped(c, (creating \ stale) \cup restoring) = {}
    BY <1>1, <2>2 DEF Skipped, TooNew, Undisturbed
  <2>5. row' = Judged(c, {}) /\ Skipped(c, {}) = {}
    BY <2>2, <2>3, <2>4
  <2>6. bound'[s] = IF s \in Claimed(c) THEN pick[s] ELSE NoTmux
    BY <2>3, <2>4 DEF Rebound
  <2>7. row[s] \in Statuses
    BY <1>1, <2>5 DEF Judged, Claimed, Claimable, TypeOK
  <2>8. UNCHANGED tmux /\ Claimable(s)
    BY <1>1, <2>1, <2>5, <2>7 DEF RefreshApplies, Judged, Claimable, Claimed, Statuses
  <2>9. Lives(s)' <=> s \in Claimed(c)
    <3>1. Lives(s)' <=> \E t \in alive : minted[t] = s
      BY <2>8 DEF Lives, tmux
    <3>2. s \in Claimed(c) <=> \E p \in call[c].list : p[2] = s
      BY <2>8 DEF Claimed, Listed
    <3>3. ASSUME NEW t \in alive, minted[t] = s PROVE \E p \in call[c].list : p[2] = s
      <4>1. <<t, s>> \in call[c].list
        BY <1>1, <3>3 DEF Undisturbed, TypeOK
      <4>2. QED BY <4>1
    <3>4. ASSUME NEW p \in call[c].list, p[2] = s PROVE \E t \in alive : minted[t] = s
      BY <1>1, <3>4 DEF Undisturbed
    <3>5. QED BY <3>1, <3>2, <3>3, <3>4
  <2>10. CASE s \in Claimed(c)
    <3>1. row'[s] = "running"
      BY <2>5, <2>10 DEF Judged
    <3>2. bound'[s] \in alive /\ minted[bound'[s]] = s
      BY <1>1, <2>3, <2>6, <2>10 DEF Undisturbed
    <3>3. QED BY <2>8, <2>9, <2>10, <3>1, <3>2 DEF tmux
  <2>11. CASE s \notin Claimed(c)
    <3>1. row'[s] \in {"exited", "restorable"}
      BY <1>1, <2>5, <2>7, <2>11 DEF Judged, Statuses
    <3>2. QED BY <2>6, <2>9, <2>11, <3>1
  <2>12. QED BY <2>10, <2>11
<1>2. TypeOK /\ DownIsIdle /\ Flow /\ [Next]_vars =>
        [\A c \in Calls : (Undisturbed(c) /\ call'[c].kind = "idle" /\ up' # "down") =>
           \A s \in Sessions : Agrees(s)']_vars
  BY <1>1 DEF Agrees
<1>3. QED
  BY <1>2, TypeCorrect, FlowInvariant, PTL DEF Spec, QuietRefreshSettles

==============================================================================
