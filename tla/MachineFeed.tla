---------------------------- MODULE MachineFeed ----------------------------
(***************************************************************************)
(* What Tortie knows of the sessions on one other machine: the feed that   *)
(* lists them (src/main/machines/remote-sessions.ts), on a fallback timer  *)
(* or beside a control connection (machines/control-plane.ts), and the     *)
(* control clients that hold such a connection (tmux/control-client.ts).   *)
(*                                                                         *)
(* The other machine restarts, its link is cut and comes back, its details *)
(* are confirmed anew.  tmux there names a session by a $-id, which a new  *)
(* server hands out again from the start.  A list is issued, answered and  *)
(* applied in three steps, and two lists may be applied in either order.   *)
(* The time of a Remove and that of the issue of a list are counted in     *)
(* Removes.  A create or a restore that Tortie makes shows here only as a  *)
(* session that is there, stamped, and as the start of the feed it ends in.*)
(***************************************************************************)
EXTENDS Naturals

CONSTANTS
    Sessions,     \* @gmux-ids
    MaxIds,       \* bound: $-ids one server hands out
    MaxServers,   \* bound: tmux servers of the other machine, one after the other
    MaxStarts,    \* bound: starts of the feed and keystrokes that ask for a connection
    MaxPasses,    \* bound: lists in flight at once
    MaxEvents     \* bound: whatever else happens unasked, or by a person, together

ASSUME BoundsAssumption ==
    /\ MaxEvents \in Nat
    /\ \A n \in {MaxIds, MaxServers, MaxStarts, MaxPasses} : n \in Nat \ {0}

VARIABLES
    far,         \* the other machine: its server, and the $-id of each session
    link,        \* its ssh answers
    context,     \* it was signed in to under the details confirmed
    routeEpoch,  \* confirms of changed details
    feed,        \* its entry of `machines`
    recorded,    \* the status column of its rows in the manifest
    pass,        \* lists in flight
    removes, removedAt,
    start,       \* calls of startMachineFeed, or of openControlPlane by a keystroke
    client,      \* the control client that each of these made, if it made one
    inMap,       \* the one in `clients`; 0 if none
    noControl,   \* it missed its greeting in this run
    kill,        \* the $-id that the End of a row was sent for; 0 if none waits for its answer
    events

routeVars == <<context, routeEpoch>>
rowVars == <<feed, recorded>>
removeVars == <<removes, removedAt>>
clientVars == <<client, inMap, noControl>>
vars == <<far, link, routeVars, rowVars, pass, removeVars, start, clientVars,
          kill, events>>

None == 0
Ids == 0..MaxIds            \* 0: not there
Servers == 0..MaxServers
Routes == 0..MaxEvents
Starts == 1..MaxStarts
Clients == Starts
Passes == 1..MaxPasses
Holds == [Sessions -> Ids]
Nothing == [s \in Sessions |-> 0]

Feeds == [timer : BOOLEAN, onControl : BOOLEAN, controlEpoch : Nat, rowsEpoch : Nat,
          rows : Holds, gone : SUBSET Sessions, answering : BOOLEAN,
          everAnswered : BOOLEAN, last : {"none", "unknown", "restorable"},
          feedEpoch : Routes]
PassStates == [at : {"idle", "out", "taken"}, epoch : Nat, route : Routes,
               asked : 0..MaxEvents, up : BOOLEAN, holds : Holds]
ClientStates == [at : {"none", "checking", "child", "greeted", "retry", "dead"},
                 server : Servers, stopped : BOOLEAN, heard : BOOLEAN]

TypeOK ==
    /\ far \in [up : BOOLEAN, server : Servers, next : Ids, holds : Holds]
    /\ link \in BOOLEAN
    /\ context \in BOOLEAN
    /\ routeEpoch \in Routes
    /\ feed \in Feeds
    /\ recorded \in [Sessions -> {"live", "restorable", "unknown", "discarded"}]
    /\ pass \in [Passes -> PassStates]
    /\ removes \in 0..MaxEvents
    /\ removedAt \in [Sessions -> 0..removes]
    /\ start \in [Starts -> [at : {"none", "prechecking", "starting", "done"},
                             kind : {"feed", "key"}, route : Routes]]
    /\ client \in [Clients -> ClientStates]
    /\ inMap \in Clients \cup {None}
    /\ noControl \in BOOLEAN
    /\ kill \in Holds
    /\ events \in 0..MaxEvents

NoPass == [at |-> "idle", epoch |-> 0, route |-> 0, asked |-> 0, up |-> FALSE,
           holds |-> Nothing]
NoClient == [at |-> "none", server |-> 0, stopped |-> FALSE, heard |-> FALSE]

\* Signed in to, its server up, one session running; no feed started yet.
Init ==
    LET s == CHOOSE t \in Sessions : TRUE
    IN  /\ far = [up |-> TRUE, server |-> 1, next |-> 1,
                  holds |-> [Nothing EXCEPT ![s] = 1]]
        /\ link = TRUE
        /\ context = TRUE
        /\ routeEpoch = 0
        /\ feed = [timer |-> FALSE, onControl |-> FALSE, controlEpoch |-> 0,
                   rowsEpoch |-> 0, rows |-> Nothing, gone |-> {}, answering |-> FALSE,
                   everAnswered |-> FALSE, last |-> "none", feedEpoch |-> 0]
        /\ recorded = [t \in Sessions |-> IF t = s THEN "live" ELSE "restorable"]
        /\ pass = [p \in Passes |-> NoPass]
        /\ removes = 0
        /\ removedAt = [t \in Sessions |-> 0]
        /\ start = [i \in Starts |-> [at |-> "none", kind |-> "feed", route |-> 0]]
        /\ client = [c \in Clients |-> NoClient]
        /\ inMap = None
        /\ noControl = FALSE
        /\ kill = Nothing
        /\ events = 0

\* Nothing the code does: a bound on what happens to it.
Happens == events < MaxEvents /\ events' = events + 1

-----------------------------------------------------------------------------
(* The rows *)

\* noteRemoteRowSeen: a row that was removed is not moved by a list.
Noted(r, which, status) ==
    [s \in Sessions |-> IF s \in which /\ r[s] # "discarded" THEN status ELSE r[s]]

\* applyMachineEvent for a machine that cannot be seen.
Quieted(f) == [f EXCEPT !.answering = FALSE, !.last = "unknown"]
QuietRecord(f, r) == IF f.last = "unknown" THEN r ELSE Noted(r, Sessions, "unknown")

(* pollRemoteMachine up to its first await, of a feed f and a record r: a route
   that was retired since this feed started is asked nothing. *)
Polls(f, r) ==
    LET free == {p \in Passes : pass[p].at = "idle"}
    IN  IF f.feedEpoch # routeEpoch
        THEN feed' = f /\ recorded' = r /\ UNCHANGED pass
        ELSE IF ~context'
        THEN feed' = Quieted(f) /\ recorded' = QuietRecord(f, r) /\ UNCHANGED pass
        ELSE /\ free # {}
             /\ LET p == CHOOSE q \in free : \A o \in free : q <= o
                IN  pass' = [pass EXCEPT ![p] =
                        [NoPass EXCEPT !.at = "out", !.epoch = f.controlEpoch,
                                       !.route = routeEpoch, !.asked = removes]]
             /\ feed' = f
             /\ recorded' = r

ListTaken(p) ==
    /\ pass[p].at = "out"
    /\ link
    /\ pass' = [pass EXCEPT ![p].at = "taken", ![p].up = far.up, ![p].holds = far.holds]
    /\ UNCHANGED <<far, link, routeVars, rowVars, removeVars, start,
                   clientVars, kill, events>>

\* The exec ran into its time limit, or its ssh got no session.
PassFails(p) ==
    /\ pass[p].at # "idle"
    /\ ~link
    /\ pass' = [pass EXCEPT ![p] = NoPass]
    /\ IF pass[p].route = routeEpoch
       THEN feed' = Quieted(feed) /\ recorded' = QuietRecord(feed, recorded)
       ELSE UNCHANGED rowVars
    /\ UNCHANGED <<far, link, routeVars, removeVars, start, clientVars,
                   kill, events>>

\* Mistake: a list is taken at its word, whenever it was asked for.
SeenAnyway(list) == {s \in Sessions : list.holds[s] # 0}

\* What a list says, but for the rows removed at or after its issue.
Seen(list) == {s \in Sessions : list.holds[s] # 0 /\ removedAt[s] <= list.asked}
Listed(f) == {s \in Sessions : f.rows[s] # 0}

\* Mistake: the epoch is read when the list is applied.
AppliedEpoch(list) == feed.controlEpoch

\* The epoch of the connection the rows are of is that of the issue of their list.
RowsEpoch(list) == list.epoch

\* state.rows, state.gone and the verdict of a completed pass.
Applied(f, list) ==
    LET seen == Seen(list)
    IN  [f EXCEPT !.rows = [s \in Sessions |-> IF s \in seen THEN list.holds[s] ELSE 0],
                  !.gone = (f.gone \cup Listed(f)) \ seen,
                  !.rowsEpoch = RowsEpoch(list),
                  !.answering = TRUE,
                  !.everAnswered = TRUE,
                  !.last = IF list.up THEN "none" ELSE "restorable"]

\* Mistake: a row that did not move is not written again.
OnlyMoved(f, list, due) == {s \in Seen(list) : f.rows[s] = 0}

\* The rows it writes live: those that moved, and those whose last write was long ago.
Written(f, list, due) == {s \in Seen(list) : f.rows[s] = 0 \/ s \in due}

\* writeBackCompletedPass; absent rows are written when the membership moved.
WrittenBack(f, list, due) ==
    LET r1 == IF ~list.up /\ f.last # "restorable"
              THEN Noted(recorded, Sessions, "restorable") ELSE recorded
        r2 == Noted(r1, Written(f, list, due), "live")
    IN  IF ~f.everAnswered \/ Listed(f) # Seen(list)
        THEN Noted(r2, Sessions \ Seen(list), "restorable") ELSE r2

\* due: rows not written within REMOTE_LAST_SEEN_WRITE_MS, when the list is applied.
PassApplied(p, due) ==
    LET list == pass[p]
    IN  /\ list.at = "taken"
        /\ pass' = [pass EXCEPT ![p] = NoPass]
        /\ IF list.route = routeEpoch
           THEN /\ feed' = Applied(feed, list)
                /\ recorded' = WrittenBack(feed, list, due)
           ELSE UNCHANGED rowVars
        /\ UNCHANGED <<far, link, routeVars, removeVars, start, clientVars, kill, events>>

\* Mistake: a Remove is stamped ahead of the lists asked for after it.
LaterInstant == removes + 2

\* When a row is removed: after the issue of every list so far.
Instant == removes + 1

\* removeSession and forgetRemoteRow: the tombstone, then both maps and the instant.
RemoveRow(s) ==
    /\ Happens
    /\ recorded[s] # "discarded"
    /\ removes' = removes + 1
    /\ removedAt' = [removedAt EXCEPT ![s] = Instant]
    /\ recorded' = [recorded EXCEPT ![s] = "discarded"]
    /\ feed' = [feed EXCEPT !.rows[s] = 0, !.gone = @ \ {s}]
    /\ UNCHANGED <<far, link, routeVars, pass, start, clientVars,
                   kill>>

\* remoteKill: the target is the $-id of the row a completed list reported.
KillAsked(s) ==
    /\ kill[s] = 0
    /\ Happens
    /\ context
    /\ feed.rows[s] # 0
    /\ kill' = [kill EXCEPT ![s] = feed.rows[s]]
    /\ UNCHANGED <<far, link, routeVars, rowVars, pass, removeVars,
                   start, clientVars>>

KillEnds(s) ==
    /\ kill[s] # 0
    /\ kill' = [kill EXCEPT ![s] = 0]
    /\ IF link
       THEN /\ far' = [far EXCEPT !.holds = [t \in Sessions |->
                           IF @[t] = kill[s] THEN 0 ELSE @[t]]]
            /\ UNCHANGED context
            /\ Polls([feed EXCEPT !.rows[s] = 0, !.gone = @ \cup {s}], recorded)
       ELSE UNCHANGED <<far, context, rowVars, pass>>
    /\ UNCHANGED <<link, routeEpoch, removeVars, start, clientVars, events>>

-----------------------------------------------------------------------------
(* The feed *)

\* A tick of the fallback timer, or one of the status list, which skips a list in flight.
Tick ==
    /\ \/ feed.timer
       \/ feed.onControl /\ \A p \in Passes : pass[p].at = "idle"
    /\ UNCHANGED context
    /\ Polls(feed, recorded)
    /\ UNCHANGED <<far, link, routeEpoch, removeVars, start, clientVars,
                   kill, events>>

\* %sessions-changed: the connection says that something moved there, not what.
SessionsChanged(c) ==
    /\ client[c].at = "greeted" /\ client[c].heard
    /\ link
    /\ far.holds # feed.rows
    /\ UNCHANGED context
    /\ Polls(feed, recorded)
    /\ UNCHANGED <<far, link, routeEpoch, removeVars, start, clientVars,
                   kill, events>>

\* remoteMachinesWoke
Wakes ==
    /\ Happens
    /\ UNCHANGED context
    /\ Polls(Quieted(feed), QuietRecord(feed, recorded))
    /\ UNCHANGED <<far, link, routeEpoch, removeVars, start, clientVars,
                   kill>>

\* The status list is armed and cleared together with onControl, so it has no field.
ArmTimer(f) == [f EXCEPT !.timer = ~f.onControl]

\* The sink's `connected` and `lost`.
Connected(f) == [f EXCEPT !.controlEpoch = @ + 1, !.onControl = TRUE, !.timer = FALSE]
Lost(f) == ArmTimer([Quieted(f) EXCEPT !.onControl = FALSE])

Greeted(c) == c # None /\ client[c].at = "greeted"

\* startMachineFeed after its open, of a feed f
FeedGoesOn(i, f) ==
    IF start[i].kind = "key" \/ start[i].route # routeEpoch
    THEN feed' = f /\ UNCHANGED <<recorded, pass>>
    ELSE Polls(IF Greeted(inMap) \/ f.timer THEN f ELSE ArmTimer(f), recorded)

Begun(i, kind, at) ==
    start' = [start EXCEPT ![i] = [at |-> at, kind |-> kind, route |-> routeEpoch]]

IsNextStart(i) ==
    /\ start[i].at = "none"
    /\ \A j \in 1..(i - 1) : start[j].at # "none"

\* openControlPlane starts nothing for a machine that has a connection
HasConnection == inMap # None

(* startMachineFeed up to its first await.  openControlPlane answers at once for a
   machine that has a connection, and for one that missed its greeting. *)
StartsFeed(i) ==
    LET f == [feed EXCEPT !.feedEpoch = routeEpoch]
    IN  /\ IsNextStart(i)
        /\ IF HasConnection \/ noControl'
           THEN /\ Begun(i, "feed", "done")
                /\ Polls(IF Greeted(inMap) \/ f.timer THEN f ELSE ArmTimer(f), recorded)
           ELSE /\ Begun(i, "feed", "prechecking")
                /\ feed' = f
                /\ UNCHANGED <<recorded, pass>>
        /\ UNCHANGED <<link, routeEpoch, removeVars, client, inMap, kill,
                       events>>

\* A create or a restore ends in a start of the feed, unless its route was retired.
CreateStartsFeed(i) ==
    /\ context
    /\ UNCHANGED <<context, noControl, far>>
    /\ StartsFeed(i)

\* A new server of the other machine: its $-ids start over.
Born(f) == [f EXCEPT !.up = TRUE, !.server = @ + 1, !.next = 0]

\* machines:prepare, of a machine that answers; its set-up starts a server if none is up.
PrepareMachine(i) ==
    /\ link
    /\ far.up \/ far.server < MaxServers
    /\ context' = TRUE
    /\ noControl' = FALSE
    /\ far' = IF far.up THEN far ELSE Born(far)
    /\ StartsFeed(i)

\* routeKey: a key over a scrolled pane of a machine that missed its greeting.
KeystrokeReopens(i) ==
    /\ IsNextStart(i)
    /\ noControl /\ ~HasConnection
    /\ context
    /\ Begun(i, "key", "prechecking")
    /\ UNCHANGED <<far, link, routeVars, rowVars, pass, removeVars,
                   clientVars, kill, events>>

\* The precheck reads the version of a server that is up, over the route as it was.
PrecheckEnds(i) ==
    /\ start[i].at = "prechecking"
    /\ IF link /\ far.up /\ start[i].route = routeEpoch
       THEN /\ start' = [start EXCEPT ![i].at = "starting"]
            /\ client' = [client EXCEPT ![i].at = "checking", ![i].heard = TRUE]
            /\ inMap' = i
            /\ UNCHANGED <<context, rowVars, pass>>
       ELSE /\ start' = [start EXCEPT ![i].at = "done"]
            /\ UNCHANGED <<context, client, inMap>>
            /\ FeedGoesOn(i, feed)
    /\ UNCHANGED <<far, link, routeEpoch, removeVars, noControl, kill,
                   events>>

-----------------------------------------------------------------------------
(* The control client *)

\* start() of the client, past its precheck: a child, or another attempt later.
ClientStarts(c) ==
    LET at == IF link /\ far.up /\ context THEN "child"
              ELSE IF client[c].stopped THEN "dead" ELSE "retry"
    IN  /\ client[c].at = "checking"
        /\ client' = [client EXCEPT ![c].at = at]
        /\ UNCHANGED context
        /\ IF start[c].at = "starting"
           THEN start' = [start EXCEPT ![c].at = "done"] /\ FeedGoesOn(c, feed)
           ELSE UNCHANGED <<start, rowVars, pass>>
        /\ UNCHANGED <<far, link, routeEpoch, removeVars, inMap, noControl,
                       kill, events>>

RetryFires(c) ==
    /\ client[c].at = "retry"
    /\ client' = [client EXCEPT ![c].at = "checking"]
    /\ UNCHANGED <<far, link, routeVars, rowVars, pass, removeVars, start,
                   inMap, noControl, kill, events>>

\* The greeting: `new-session -A` starts a server where none is up.
Greets(c) ==
    /\ client[c].at = "child"
    /\ link
    /\ far.up \/ far.server < MaxServers
    /\ far' = IF far.up THEN far ELSE Born(far)
    /\ client' = [client EXCEPT ![c].at = "greeted", ![c].server = far'.server]
    /\ UNCHANGED context
    /\ IF client[c].heard
       THEN noControl' = FALSE /\ Polls(Connected(feed), recorded)
       ELSE UNCHANGED <<noControl, rowVars, pass>>
    /\ UNCHANGED <<link, routeEpoch, removeVars, start, inMap, kill,
                   events>>

\* Mistake: a connection that was lost is not tried again.
DroppedForGood(cl) == [cl EXCEPT !.at = "dead", !.server = 0]

\* The way out of handleDisconnect
AfterDrop(cl) == [cl EXCEPT !.at = IF cl.stopped THEN "dead" ELSE "retry", !.server = 0]

\* stop() and removeAllListeners; a start in flight goes on to its spawn.
Stopped(cl) == [cl EXCEPT !.stopped = TRUE, !.heard = FALSE,
                          !.at = IF cl.at = "checking" THEN "checking" ELSE "dead",
                          !.server = 0]

\* The server it was attached to is gone, keep-alives fail, or its ssh ends.
Severed(c) ==
    \/ ~link
    \/ client[c].at = "greeted" /\ (~far.up \/ client[c].server # far.server)

DropsFeed(c) ==
    /\ client[c].at \in {"child", "greeted"}
    /\ client' = [client EXCEPT ![c] = AfterDrop(@)]
    /\ IF client[c].heard
       THEN feed' = Lost(feed) /\ recorded' = QuietRecord(feed, recorded)
       ELSE UNCHANGED rowVars
    /\ UNCHANGED <<far, link, routeVars, pass, removeVars, start, inMap,
                   noControl, kill>>

Drops(c) == Severed(c) /\ UNCHANGED events /\ DropsFeed(c)
SshEnds(c) == Happens /\ DropsFeed(c)

\* Mistake: the timer is not armed for a connection that was taken away.
TakenAwayUnarmed(f) == [Quieted(f) EXCEPT !.onControl = FALSE]

\* What the feed is told when the connection was taken away.
TakenAway(f) == Lost(f)

(* The child is killed; its connection is taken away, which closes whatever client is
   in the map, and then handleDisconnect runs for the one whose greeting was missed. *)
GreetingTimesOut(c) ==
    /\ client[c].at = "child"
    /\ Happens
    /\ IF client[c].heard
       THEN /\ noControl' = TRUE
            /\ inMap' = None
            /\ client' = [d \in Clients |->
                   IF d = inMap THEN Stopped(client[d])
                   ELSE IF d = c THEN AfterDrop(client[d]) ELSE client[d]]
            /\ feed' = TakenAway(feed)
            /\ recorded' = QuietRecord(feed, recorded)
       ELSE /\ client' = [client EXCEPT ![c] = AfterDrop(@)]
            /\ UNCHANGED <<inMap, noControl, rowVars>>
    /\ UNCHANGED <<far, link, routeVars, pass, removeVars, start, kill>>

-----------------------------------------------------------------------------
(* The route, the link and the other machine *)

\* retireMachineRoute, on a confirm of changed details.
RetireRoute ==
    /\ Happens
    /\ routeEpoch' = routeEpoch + 1
    /\ context' = FALSE
    /\ inMap' = None
    /\ client' = [c \in Clients |-> IF c = inMap THEN Stopped(client[c]) ELSE client[c]]
    /\ feed' = Quieted([feed EXCEPT !.timer = FALSE, !.onControl = FALSE])
    /\ recorded' = QuietRecord(feed, recorded)
    /\ UNCHANGED <<far, link, pass, removeVars, start, noControl, kill>>

LinkCut ==
    /\ link
    /\ Happens
    /\ link' = FALSE
    /\ UNCHANGED <<far, routeVars, rowVars, pass, removeVars, start, clientVars,
                   kill>>

LinkBack ==
    /\ ~link
    /\ link' = TRUE
    /\ UNCHANGED <<far, routeVars, rowVars, pass, removeVars, start,
                   clientVars, kill, events>>

FarElsewhere ==
    UNCHANGED <<link, routeVars, rowVars, pass, removeVars, start, clientVars, kill>>

FarMoves == Happens /\ FarElsewhere

\* A session starts there, as often as there are $-ids.
FarSpawns(s) ==
    LET f == IF far.up THEN far ELSE Born(far)
    IN  /\ far.holds[s] = 0
        /\ f.server <= MaxServers
        /\ f.next < MaxIds
        /\ far' = [f EXCEPT !.next = @ + 1, !.holds[s] = f.next + 1]
        /\ UNCHANGED events
        /\ FarElsewhere

FarEnds(s) ==
    /\ far.holds[s] # 0
    /\ far' = [far EXCEPT !.holds[s] = 0]
    /\ FarMoves

FarServerDies ==
    /\ far.up
    /\ far' = [far EXCEPT !.up = FALSE, !.holds = Nothing]
    /\ FarMoves

-----------------------------------------------------------------------------

Lists ==
    \/ Tick
    \/ \E p \in Passes :
           ListTaken(p) \/ PassFails(p) \/ \E due \in SUBSET Sessions : PassApplied(p, due)

Timers == \E c \in Clients : RetryFires(c) \/ GreetingTimesOut(c)

Asks == \E i \in Starts : CreateStartsFeed(i) \/ PrepareMachine(i) \/ KeystrokeReopens(i)

Opens == \E i \in Starts : PrecheckEnds(i) \/ ClientStarts(i)

Connections == \E c \in Clients : Greets(c) \/ Drops(c) \/ SshEnds(c) \/ SessionsChanged(c)

Person == RetireRoute \/ \E s \in Sessions : RemoveRow(s) \/ KillAsked(s) \/ KillEnds(s)

World ==
    \/ LinkCut \/ LinkBack \/ Wakes
    \/ FarServerDies \/ \E s \in Sessions : FarSpawns(s) \/ FarEnds(s)

Next ==
    \/ Lists \/ Asks \/ Opens \/ Timers \/ Connections \/ Person \/ World

Spec == Init /\ [][Next]_vars

\* What the client of a start does next; its steps exclude each other.
ClientGoesOn(c) ==
    PrecheckEnds(c) \/ ClientStarts(c) \/ RetryFires(c) \/ Greets(c) \/ Drops(c)

(* Timers fire; an exec answers or runs into its time limit; a connection whose far end
   is gone is noticed by its keep-alives; a server that is up greets.  Fairness is
   strong where a step that lists again waits for a free slot of `pass`, which is a
   bound, and where lists must be more than REMOTE_LAST_SEEN_WRITE_MS apart.  The
   link need not come back, and nobody has to press anything. *)
Fairness ==
    /\ WF_vars(Tick)
    /\ WF_vars(\E p \in Passes : ListTaken(p) \/ PassFails(p))
    /\ SF_vars(\E p \in Passes : PassApplied(p, Sessions))
    /\ \A c \in Clients : SF_vars(ClientGoesOn(c))

FairSpec == Spec /\ Fairness

-----------------------------------------------------------------------------
(* Safety *)

(* A scroll, or a key over a scrolled pane, is written to the connection in the map,
   for the $-id the rows hold, only while the rows are of that connection: it never
   reaches another session, though a new server hands the same $-ids out again. *)
Addressable(s) ==
    /\ feed.rows[s] # 0 /\ s \notin feed.gone
    /\ feed.onControl /\ feed.rowsEpoch = feed.controlEpoch

ScrollReachesItsOwn ==
    (Greeted(inMap) /\ far.up /\ client[inMap].server = far.server) =>
        \A s, t \in Sessions :
            (Addressable(s) /\ far.holds[t] = feed.rows[s]) => t = s

(* A machine whose feed was started is never left with no feed at all, nor carries the
   fallback timer beside a connection, whatever order its connections come and go in;
   and it leaves the timer only for a connection that will say when it is lost. *)
AlwaysFed ==
    /\ ~(feed.timer /\ feed.onControl)
    /\ feed.onControl => \E c \in Clients : Greeted(c) /\ client[c].heard
    /\ (\E i \in Starts : start[i].at = "done" /\ start[i].kind = "feed"
                              /\ start[i].route = routeEpoch)
           => feed.timer \/ feed.onControl

Shown(s) == feed.rows[s] # 0 \/ s \in feed.gone

(* A list asked for before a person removed a row never brings it back: only a later
   list does, or the answer to an End of that row that was still out. *)
RemoveStands ==
    [][\A s \in Sessions :
          (removedAt[s] # 0 /\ ~Shown(s) /\ Shown(s)') =>
              \/ \E p \in Passes : /\ pass[p].at = "taken" /\ pass'[p].at = "idle"
                                   /\ pass[p].asked >= removedAt[s]
              \/ kill[s] # 0]_vars

(* The refusal of an End without a listed row is "the refusal that stops Tortie ending
   somebody else's work" (remote-copy.ts): no End is sent for a $-id which another
   session holds by then. *)
KillReachesItsOwn ==
    [][\A s, t \in Sessions :
          (kill[s] = 0 /\ kill'[s] # 0 /\ far.holds[t] = kill'[s]) => t = s]_vars

-----------------------------------------------------------------------------
(* Liveness *)

Stays == link /\ context /\ feed.feedEpoch = routeEpoch /\ (feed.timer \/ feed.onControl)

(* Once the link stays up the rows come to agree with the machine, and every session
   that runs there is recorded as live, whatever lists were lost or came late. *)
Converges ==
    <>[]Stays =>
        <>[](/\ feed.answering
             /\ feed.rows = far.holds
             /\ \A s \in Sessions :
                    far.holds[s] # 0 => recorded[s] \in {"live", "discarded"})

(* A connection that was lost comes back: while the machine stays up and the link
   with it, the client in the map greets again and again until it stays greeted. *)
ConnectionHeals ==
    <>[](link /\ context /\ far.up /\ inMap # None) => <>[]Greeted(inMap)

=============================================================================
