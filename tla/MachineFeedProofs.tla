------------------------- MODULE MachineFeedProofs -------------------------
(***************************************************************************)
(* Theorems about MachineFeed, for any number of sessions, $-ids, servers, *)
(* starts, lists in flight and events: its types, that a Remove stands     *)
(* against every list issued before it, that a scroll reaches the session  *)
(* it was meant for though a new server hands the $-ids out again, and     *)
(* that a machine whose feed was started is fed.                           *)
(***************************************************************************)
EXTENDS MachineFeed, TLAPS

-----------------------------------------------------------------------------
(* The inductive invariant *)

\* Removes and confirmed routes are events.
CountInv == removes <= events /\ routeEpoch <= events

\* No list and no row is of a connection that is still to come.
EpochInv ==
    /\ feed.rowsEpoch <= feed.controlEpoch
    /\ \A p \in Passes : pass[p].epoch <= feed.controlEpoch

\* One server never gives two sessions one $-id, and has handed out all it holds.
FarInv ==
    /\ \A s \in Sessions : far.holds[s] <= far.next
    /\ \A s, t \in Sessions : far.holds[s] # 0 /\ far.holds[s] = far.holds[t] => s = t
    /\ ~far.up => far.holds = Nothing

\* The client in the map is listened to; none is attached to a server to come.
ClientInv ==
    /\ inMap # None => client[inMap].heard
    /\ \A c \in Clients : client[c].server <= far.server

\* The connection in the map is one to the server that is there, or was the last.
Linked == Greeted(inMap) /\ client[inMap].server = far.server

\* No $-id listed is held by another session of the machine f, nor handed out again.
Means(f, holds) ==
    \A s \in Sessions : holds[s] # 0 =>
        /\ holds[s] <= f.next
        /\ \A t \in Sessions : f.holds[t] = holds[s] => t = s

\* What was listed under this connection still means what it meant.
Known(holds, epoch) == (Linked /\ epoch = feed.controlEpoch) => Means(far, holds)

OwnInv ==
    /\ Known(feed.rows, feed.rowsEpoch)
    /\ \A p \in Passes : pass[p].at = "taken" => Known(pass[p].holds, pass[p].epoch)

TypeInv == TypeOK /\ CountInv
IInv == TypeInv /\ EpochInv /\ FarInv /\ ClientInv /\ OwnInv

-----------------------------------------------------------------------------
(* Types *)

Statuses == {"live", "restorable", "unknown", "discarded"}
Records == [Sessions -> Statuses]

LEMMA QuietedType ==
    ASSUME NEW f \in Feeds
    PROVE  /\ Quieted(f) \in Feeds
           /\ Lost(f) \in Feeds
           /\ ArmTimer(f) \in Feeds
BY DEF Quieted, Lost, ArmTimer, Feeds

LEMMA NotedType ==
    ASSUME NEW r \in Records, NEW which, NEW status \in Statuses
    PROVE  Noted(r, which, status) \in Records
BY DEF Noted, Records

LEMMA QuietRecordType ==
    ASSUME NEW f, NEW r \in Records
    PROVE  QuietRecord(f, r) \in Records
BY NotedType DEF QuietRecord, Statuses

\* What a step that may ask for a list does to the feed, the rows and the lists.
LEMMA PollsType ==
    ASSUME TypeOK, NEW f \in Feeds, NEW r \in Records, Polls(f, r)
    PROVE  /\ feed' \in Feeds
           /\ recorded' \in Records
           /\ pass' \in [Passes -> PassStates]
<1>1. CASE f.feedEpoch # routeEpoch
    BY <1>1 DEF Polls, TypeOK
<1>2. CASE f.feedEpoch = routeEpoch /\ ~context'
    BY <1>2, QuietedType, QuietRecordType DEF Polls, TypeOK
<1>3. CASE f.feedEpoch = routeEpoch /\ context'
    <2> DEFINE free == {p \in Passes : pass[p].at = "idle"}
               p == CHOOSE q \in free : \A o \in free : q <= o
               new == [NoPass EXCEPT !.at = "out", !.epoch = f.controlEpoch,
                                     !.route = routeEpoch, !.asked = removes]
    <2>1. feed' = f /\ recorded' = r /\ pass' = [pass EXCEPT ![p] = new]
        BY <1>3 DEF Polls
    <2>2. Nothing \in Holds
        BY BoundsAssumption DEF Nothing, Holds, Ids
    <2>3. new \in PassStates
        <3>1. removes \in 0..MaxEvents
            BY DEF TypeOK
        <3> QED BY <3>1, <2>2, BoundsAssumption DEF NoPass, PassStates, Feeds, Routes, TypeOK
    <2> QED
        <3> HIDE DEF p, new
        <3> QED BY <2>1, <2>3 DEF TypeOK
<1> QED BY <1>1, <1>2, <1>3

LEMMA Bounds ==
    /\ MaxEvents \in Nat
    /\ MaxIds \in Nat /\ MaxIds >= 1
    /\ MaxServers \in Nat /\ MaxServers >= 1
BY BoundsAssumption

LEMMA NothingType == Nothing \in Holds
BY Bounds DEF Nothing, Holds, Ids

LEMMA BornType ==
    ASSUME NEW f \in [up : BOOLEAN, server : Servers, next : Ids, holds : Holds],
           f.server < MaxServers
    PROVE  Born(f) \in [up : BOOLEAN, server : Servers, next : Ids, holds : Holds]
<1>1. f.server \in 0..MaxServers /\ f.server + 1 \in 0..MaxServers
    BY Bounds DEF Servers
<1>2. 0 \in Ids
    BY Bounds DEF Ids
<1> QED BY <1>1, <1>2 DEF Born, Servers

LEMMA TypeInit == Init => TypeInv
<1> SUFFICES ASSUME Init PROVE TypeInv
    OBVIOUS
<1> DEFINE s == CHOOSE t \in Sessions : TRUE
<1>1. [Nothing EXCEPT ![s] = 1] \in Holds
    <2>1. 1 \in Ids
        BY Bounds DEF Ids
    <2> HIDE DEF s
    <2> QED BY <2>1, NothingType DEF Holds
<1>2. far = [up |-> TRUE, server |-> 1, next |-> 1, holds |-> [Nothing EXCEPT ![s] = 1]]
    BY DEF Init
<1>3. far \in [up : BOOLEAN, server : Servers, next : Ids, holds : Holds]
    <2> HIDE DEF s
    <2> QED BY <1>1, <1>2, Bounds DEF Servers, Ids
<1>4. feed \in Feeds
    <2>1. feed = [timer |-> FALSE, onControl |-> FALSE, controlEpoch |-> 0,
                  rowsEpoch |-> 0, rows |-> Nothing, gone |-> {}, answering |-> FALSE,
                  everAnswered |-> FALSE, last |-> "none", feedEpoch |-> 0]
        BY DEF Init
    <2>2. 0 \in Routes
        BY Bounds DEF Routes
    <2> QED BY <2>1, <2>2, NothingType DEF Feeds
<1>5. NoPass \in PassStates
    BY NothingType, BoundsAssumption DEF NoPass, PassStates, Routes
<1>6. NoClient \in ClientStates
    BY BoundsAssumption DEF NoClient, ClientStates, Servers
<1>7. recorded \in [Sessions -> Statuses]
    BY DEF Init, Statuses
<1>8. start \in [Starts -> [at : {"none", "prechecking", "starting", "done"},
                             kind : {"feed", "key"}, route : Routes]]
    <2>1. start = [i \in Starts |-> [at |-> "none", kind |-> "feed", route |-> 0]]
        BY DEF Init
    <2> QED BY <2>1, BoundsAssumption DEF Routes
<1>9. /\ link \in BOOLEAN /\ context \in BOOLEAN /\ noControl \in BOOLEAN
      /\ routeEpoch = 0 /\ removes = 0 /\ events = 0 /\ inMap = None
      /\ removedAt = [t \in Sessions |-> 0]
      /\ pass = [p \in Passes |-> NoPass]
      /\ client = [c \in Clients |-> NoClient]
      /\ kill = Nothing
    BY DEF Init
<1>10. 0 \in Routes /\ 0 \in 0..MaxEvents /\ 0 \in 0..removes
    BY <1>9, BoundsAssumption DEF Routes
<1> QED
    BY <1>3, <1>4, <1>5, <1>6, <1>7, <1>8, <1>9, <1>10, NothingType
    DEF TypeInv, TypeOK, CountInv, Statuses

\* The lists.
LEMMA TypeLists ==
    ASSUME TypeInv,
           \/ Tick
           \/ \E p \in Passes :
                  ListTaken(p) \/ PassFails(p) \/ \E due \in SUBSET Sessions : PassApplied(p, due)
    PROVE  TypeInv'
<1>1. feed \in Feeds /\ recorded \in Records
    BY DEF TypeInv, TypeOK, Records, Statuses
<1>2. CASE Tick
    <2>1. feed' \in Feeds /\ recorded' \in Records /\ pass' \in [Passes -> PassStates]
        BY <1>1, <1>2, PollsType DEF Tick, TypeInv
    <2> QED
        BY <1>2, <2>1
        DEF Tick, TypeInv, TypeOK, CountInv, Records, Statuses, removeVars, clientVars
<1>3. CASE \E p \in Passes : ListTaken(p)
    <2> PICK p \in Passes : ListTaken(p)
        BY <1>3
    <2>1. far.up \in BOOLEAN /\ far.holds \in Holds /\ pass[p] \in PassStates
        BY DEF TypeInv, TypeOK
    <2>2. [pass[p] EXCEPT !.at = "taken", !.up = far.up, !.holds = far.holds] \in PassStates
        BY <2>1 DEF PassStates
    <2>3. pass' = [pass EXCEPT ![p] =
                      [pass[p] EXCEPT !.at = "taken", !.up = far.up, !.holds = far.holds]]
        BY DEF ListTaken, TypeInv, TypeOK
    <2>4. pass' \in [Passes -> PassStates]
        BY <2>2, <2>3 DEF TypeInv, TypeOK
    <2> QED
        BY <2>4
        DEF ListTaken, TypeInv, TypeOK, CountInv, routeVars, rowVars, removeVars, clientVars
<1>4. CASE \E p \in Passes : PassFails(p)
    <2>1. NoPass \in PassStates
        BY NothingType, BoundsAssumption DEF NoPass, PassStates, Routes
    <2>2. feed' \in Feeds /\ recorded' \in Records
        BY <1>1, <1>4, QuietedType, QuietRecordType DEF PassFails, rowVars
    <2> QED
        BY <1>4, <2>1, <2>2
        DEF PassFails, TypeInv, TypeOK, CountInv, Records, Statuses, routeVars, removeVars,
            clientVars
<1>5. CASE \E p \in Passes : \E due \in SUBSET Sessions : PassApplied(p, due)
    <2> PICK p \in Passes, due \in SUBSET Sessions : PassApplied(p, due)
        BY <1>5
    <2>1. NoPass \in PassStates
        BY NothingType, BoundsAssumption DEF NoPass, PassStates, Routes
    <2>2. pass[p] \in PassStates
        BY DEF TypeInv, TypeOK
    <2>3. Applied(feed, pass[p]) \in Feeds
        <3>1. [s \in Sessions |-> IF s \in Seen(pass[p]) THEN pass[p].holds[s] ELSE 0]
                  \in Holds
            BY <2>2, BoundsAssumption DEF PassStates, Holds, Ids
        <3>2. (feed.gone \cup Listed(feed)) \ Seen(pass[p]) \in SUBSET Sessions
            BY <1>1 DEF Feeds, Listed
        <3>3. RowsEpoch(pass[p]) \in Nat
            BY <2>2 DEF RowsEpoch, PassStates
        <3> QED
            BY <1>1, <3>1, <3>2, <3>3 DEF Applied, Feeds
    <2>4. WrittenBack(feed, pass[p], due) \in Records
        BY <1>1, NotedType DEF WrittenBack, Statuses
    <2>5. feed' \in Feeds /\ recorded' \in Records
        BY <1>1, <2>3, <2>4 DEF PassApplied, rowVars
    <2> QED
        BY <2>1, <2>5
        DEF PassApplied, TypeInv, TypeOK, CountInv, Records, Statuses, routeVars, removeVars,
            clientVars
<1> QED BY <1>2, <1>3, <1>4, <1>5

\* What most steps leave typed: the feed, the rows and the lists.
RowsTyped ==
    /\ feed' \in Feeds
    /\ recorded' \in Records
    /\ pass' \in [Passes -> PassStates]

StartStates == [at : {"none", "prechecking", "starting", "done"},
                kind : {"feed", "key"}, route : Routes]
FarStates == [up : BOOLEAN, server : Servers, next : Ids, holds : Holds]

LEMMA FeedTyped == TypeInv => feed \in Feeds /\ recorded \in Records
BY DEF TypeInv, TypeOK, Records, Statuses

LEMMA FeedGoesOnType ==
    ASSUME TypeInv, NEW i \in Starts, NEW f \in Feeds, FeedGoesOn(i, f)
    PROVE  RowsTyped
<1>1. recorded \in Records /\ pass \in [Passes -> PassStates]
    BY FeedTyped DEF TypeInv, TypeOK
<1>2. ArmTimer(f) \in Feeds
    BY QuietedType
<1>3. CASE start[i].kind = "key" \/ start[i].route # routeEpoch
    BY <1>1, <1>3 DEF FeedGoesOn, RowsTyped
<1>4. CASE ~(start[i].kind = "key" \/ start[i].route # routeEpoch)
    <2> DEFINE g == IF Greeted(inMap) \/ f.timer THEN f ELSE ArmTimer(f)
    <2>1. g \in Feeds
        BY <1>2
    <2>2. Polls(g, recorded)
        BY <1>4 DEF FeedGoesOn
    <2> HIDE DEF g
    <2> QED BY <1>1, <2>1, <2>2, PollsType DEF RowsTyped, TypeInv
<1> QED BY <1>3, <1>4

LEMMA StartsFeedType ==
    ASSUME TypeInv, NEW i \in Starts, StartsFeed(i)
    PROVE  RowsTyped /\ start' \in [Starts -> StartStates]
<1> DEFINE f == [feed EXCEPT !.feedEpoch = routeEpoch]
           g == IF Greeted(inMap) \/ f.timer THEN f ELSE ArmTimer(f)
<1>1. f \in Feeds
    BY FeedTyped DEF Feeds, TypeInv, TypeOK
<1>2. g \in Feeds
    <2> HIDE DEF f
    <2> QED BY <1>1, QuietedType
<1>3. recorded \in Records /\ pass \in [Passes -> PassStates]
    BY FeedTyped DEF TypeInv, TypeOK
<1>4. start' \in [Starts -> StartStates]
    <2>1. \E at \in {"done", "prechecking"} : Begun(i, "feed", at)
        BY DEF StartsFeed
    <2> QED BY <2>1 DEF Begun, StartStates, TypeInv, TypeOK
<1>5. Polls(g, recorded) \/ (feed' = f /\ UNCHANGED <<recorded, pass>>)
    BY DEF StartsFeed
<1>6. RowsTyped
    <2> HIDE DEF f, g
    <2> QED BY <1>1, <1>2, <1>3, <1>5, PollsType DEF RowsTyped, TypeInv
<1> QED BY <1>4, <1>6

\* What a start of the feed leaves as it was.
LEMMA StartsFeedFrame ==
    ASSUME NEW i, StartsFeed(i)
    PROVE  UNCHANGED <<link, routeEpoch, removes, removedAt, client, inMap, kill, events>>
BY DEF StartsFeed, removeVars

LEMMA TypeAsks ==
    ASSUME TypeInv,
           \E i \in Starts : CreateStartsFeed(i) \/ PrepareMachine(i) \/ KeystrokeReopens(i)
    PROVE  TypeInv'
<1> PICK i \in Starts : CreateStartsFeed(i) \/ PrepareMachine(i) \/ KeystrokeReopens(i)
    OBVIOUS
<1>1. CASE CreateStartsFeed(i)
    <2>1. StartsFeed(i) /\ UNCHANGED <<context, noControl, far>>
        BY <1>1 DEF CreateStartsFeed
    <2> QED
        BY <2>1, StartsFeedType, StartsFeedFrame
        DEF TypeInv, TypeOK, CountInv, RowsTyped, Records, Statuses, StartStates
<1>2. CASE PrepareMachine(i)
    <2>1. StartsFeed(i) /\ context' = TRUE /\ noControl' = FALSE
        BY <1>2 DEF PrepareMachine
    <2>2. far' \in FarStates
        <3>1. far \in FarStates
            BY DEF TypeInv, TypeOK, FarStates
        <3>2. far' = far \/ (far.server < MaxServers /\ far' = Born(far))
            BY <1>2 DEF PrepareMachine
        <3> QED BY <3>1, <3>2, BornType DEF FarStates
    <2> QED
        BY <2>1, <2>2, StartsFeedType, StartsFeedFrame
        DEF TypeInv, TypeOK, CountInv, RowsTyped, Records, Statuses, StartStates, FarStates
<1>3. CASE KeystrokeReopens(i)
    <2>1. start' \in [Starts -> StartStates]
        BY <1>3 DEF KeystrokeReopens, Begun, StartStates, TypeInv, TypeOK
    <2> QED
        BY <1>3, <2>1
        DEF KeystrokeReopens, TypeInv, TypeOK, CountInv, StartStates, routeVars, rowVars,
            removeVars, clientVars
<1> QED BY <1>1, <1>2, <1>3

LEMMA TypeOpens ==
    ASSUME TypeInv, \E i \in Starts : PrecheckEnds(i) \/ ClientStarts(i)
    PROVE  TypeInv'
<1> PICK i \in Starts : PrecheckEnds(i) \/ ClientStarts(i)
    OBVIOUS
<1>1. feed \in Feeds /\ recorded \in Records /\ pass \in [Passes -> PassStates]
    BY FeedTyped DEF TypeInv, TypeOK
<1>2. RowsTyped
    <2>1. FeedGoesOn(i, feed) \/ UNCHANGED <<feed, recorded, pass>>
        BY DEF PrecheckEnds, ClientStarts, rowVars
    <2> QED BY <1>1, <2>1, FeedGoesOnType DEF RowsTyped
<1>3. CASE PrecheckEnds(i)
    <2>1. start' \in [Starts -> StartStates]
        BY <1>3 DEF PrecheckEnds, StartStates, TypeInv, TypeOK
    <2>2. client' \in [Clients -> ClientStates]
        <3>1. client' = client \/ client' = [client EXCEPT ![i] =
                  [client[i] EXCEPT !.at = "checking", !.heard = TRUE]]
            BY <1>3 DEF PrecheckEnds, TypeInv, TypeOK, Clients
        <3>2. [client[i] EXCEPT !.at = "checking", !.heard = TRUE] \in ClientStates
            <4>1. client[i] \in ClientStates
                BY DEF TypeInv, TypeOK, Clients
            <4> QED BY <4>1 DEF ClientStates
        <3> QED BY <3>1, <3>2 DEF TypeInv, TypeOK
    <2> QED
        <3>1. context' \in BOOLEAN /\ inMap' \in Clients \cup {None}
            BY <1>3 DEF PrecheckEnds, FeedGoesOn, Clients, TypeInv, TypeOK
        <3>2. UNCHANGED <<far, link, routeEpoch, removes, removedAt, noControl, kill,
                          events>>
            BY <1>3 DEF PrecheckEnds, removeVars
        <3> QED
            BY <1>2, <2>1, <2>2, <3>1, <3>2
            DEF TypeInv, TypeOK, CountInv, RowsTyped, Records, Statuses, StartStates
<1>4. CASE ClientStarts(i)
    <2>1. start' \in [Starts -> StartStates]
        BY <1>4 DEF ClientStarts, StartStates, TypeInv, TypeOK
    <2>2. client' \in [Clients -> ClientStates]
        <3>1. \E at \in {"child", "dead", "retry"} : client' = [client EXCEPT ![i].at = at]
            BY <1>4 DEF ClientStarts
        <3> QED BY <3>1 DEF ClientStates, Clients, TypeInv, TypeOK
    <2> QED
        BY <1>2, <1>4, <2>1, <2>2
        DEF ClientStarts, TypeInv, TypeOK, CountInv, RowsTyped, Records, Statuses,
            StartStates, removeVars
<1> QED BY <1>3, <1>4

LEMMA ClientTyped ==
    ASSUME TypeInv, NEW c \in Clients
    PROVE  /\ client[c] \in ClientStates
           /\ Stopped(client[c]) \in ClientStates
           /\ AfterDrop(client[c]) \in ClientStates
<1>1. client[c] \in ClientStates /\ 0 \in Servers
    BY Bounds DEF TypeInv, TypeOK, Servers
<1> QED BY <1>1 DEF ClientStates, Stopped, AfterDrop

LEMMA DropsFeedType ==
    ASSUME TypeInv, NEW c \in Clients, DropsFeed(c),
           events' \in 0..MaxEvents, events <= events'
    PROVE  TypeInv'
<1>1. client' \in [Clients -> ClientStates]
    BY ClientTyped DEF DropsFeed, TypeInv, TypeOK
<1>2. feed' \in Feeds /\ recorded' \in Records
    BY FeedTyped, QuietedType, QuietRecordType DEF DropsFeed, rowVars
<1>3. UNCHANGED <<far, link, context, routeEpoch, pass, removes, removedAt, start, inMap,
                  noControl, kill>>
    BY DEF DropsFeed, routeVars, removeVars
<1>4. removes <= events' /\ routeEpoch <= events'
    BY Bounds DEF TypeInv, TypeOK, CountInv, Routes
<1> QED
    BY <1>1, <1>2, <1>3, <1>4 DEF TypeInv, TypeOK, CountInv, Records, Statuses

LEMMA TypeHappens ==
    ASSUME TypeInv, Happens
    PROVE  /\ events' \in 0..MaxEvents /\ events <= events'
           /\ removes + 1 <= events' /\ routeEpoch + 1 <= events'
           /\ removes <= events' /\ routeEpoch <= events'
           /\ removes + 1 \in 0..MaxEvents /\ routeEpoch + 1 \in Routes
BY Bounds DEF Happens, TypeInv, TypeOK, CountInv, Routes

LEMMA TypeConnections ==
    ASSUME TypeInv,
           \E c \in Clients : Greets(c) \/ Drops(c) \/ SshEnds(c) \/ SessionsChanged(c)
    PROVE  TypeInv'
<1> PICK c \in Clients : Greets(c) \/ Drops(c) \/ SshEnds(c) \/ SessionsChanged(c)
    OBVIOUS
<1>1. CASE Greets(c)
    <2>1. far' \in FarStates
        <3>1. far \in FarStates
            BY DEF TypeInv, TypeOK, FarStates
        <3>2. far' = far \/ (far.server < MaxServers /\ far' = Born(far))
            BY <1>1 DEF Greets
        <3> QED BY <3>1, <3>2, BornType DEF FarStates
    <2>2. client' \in [Clients -> ClientStates]
        <3> DEFINE greeted == [client[c] EXCEPT !.at = "greeted", !.server = far'.server]
        <3>1. client' = [client EXCEPT ![c] = greeted]
            BY <1>1 DEF Greets, TypeInv, TypeOK
        <3>2. far'.server \in Servers /\ client[c] \in ClientStates
            BY <2>1, ClientTyped DEF FarStates
        <3>3. greeted \in ClientStates
            BY <3>2 DEF ClientStates
        <3> HIDE DEF greeted
        <3> QED BY <3>1, <3>3 DEF TypeInv, TypeOK
    <2>3. RowsTyped
        <3>1. Connected(feed) \in Feeds /\ recorded \in Records
            <4>1. feed \in Feeds /\ recorded \in Records
                BY FeedTyped
            <4>2. feed.controlEpoch + 1 \in Nat
                BY <4>1 DEF Feeds
            <4> QED BY <4>1, <4>2 DEF Connected, Feeds
        <3>2. Polls(Connected(feed), recorded) \/ UNCHANGED <<feed, recorded, pass>>
            BY <1>1 DEF Greets, rowVars
        <3> QED
            BY <3>1, <3>2, PollsType, FeedTyped DEF RowsTyped, TypeInv, TypeOK
    <2>4. noControl' \in BOOLEAN
        BY <1>1 DEF Greets, TypeInv, TypeOK
    <2>5. UNCHANGED <<link, context, routeEpoch, removes, removedAt, start, inMap, kill,
                      events>>
        BY <1>1 DEF Greets, removeVars
    <2> QED
        BY <2>1, <2>2, <2>3, <2>4, <2>5
        DEF TypeInv, TypeOK, CountInv, RowsTyped, Records, Statuses, FarStates
<1>2. CASE Drops(c)
    <2>1. events' \in 0..MaxEvents /\ events <= events'
        BY <1>2 DEF Drops, TypeInv, TypeOK
    <2> QED BY <1>2, <2>1, DropsFeedType DEF Drops
<1>3. CASE SshEnds(c)
    BY <1>3, TypeHappens, DropsFeedType DEF SshEnds
<1>4. CASE SessionsChanged(c)
    <2>1. RowsTyped
        BY <1>4, FeedTyped, PollsType DEF SessionsChanged, RowsTyped, TypeInv
    <2> QED
        BY <1>4, <2>1
        DEF SessionsChanged, TypeInv, TypeOK, CountInv, RowsTyped, Records, Statuses,
            removeVars, clientVars
<1> QED BY <1>1, <1>2, <1>3, <1>4

LEMMA TypeTimers ==
    ASSUME TypeInv, \E c \in Clients : RetryFires(c) \/ GreetingTimesOut(c)
    PROVE  TypeInv'
<1> PICK c \in Clients : RetryFires(c) \/ GreetingTimesOut(c)
    OBVIOUS
<1>1. CASE RetryFires(c)
    <2>1. client' \in [Clients -> ClientStates]
        BY <1>1 DEF RetryFires, ClientStates, TypeInv, TypeOK
    <2> QED
        BY <1>1, <2>1
        DEF RetryFires, TypeInv, TypeOK, CountInv, routeVars, rowVars, removeVars
<1>2. CASE GreetingTimesOut(c)
    <2>1. client' \in [Clients -> ClientStates]
        BY <1>2, ClientTyped DEF GreetingTimesOut, TypeInv, TypeOK
    <2>2. feed' \in Feeds /\ recorded' \in Records
        BY <1>2, FeedTyped, QuietedType, QuietRecordType
        DEF GreetingTimesOut, TakenAway, rowVars
    <2>3. inMap' \in Clients \cup {None} /\ noControl' \in BOOLEAN
        BY <1>2 DEF GreetingTimesOut, TypeInv, TypeOK
    <2>4. Happens /\ UNCHANGED <<far, link, context, routeEpoch, pass, removes, removedAt,
                                 start, kill>>
        BY <1>2 DEF GreetingTimesOut, routeVars, removeVars
    <2> QED
        BY <2>1, <2>2, <2>3, <2>4, TypeHappens
        DEF TypeInv, TypeOK, CountInv, Records, Statuses
<1> QED BY <1>1, <1>2

LEMMA TypePerson ==
    ASSUME TypeInv,
           RetireRoute \/ \E s \in Sessions : RemoveRow(s) \/ KillAsked(s) \/ KillEnds(s)
    PROVE  TypeInv'
<1>1. CASE RetireRoute
    <2>1. client' \in [Clients -> ClientStates]
        BY <1>1, ClientTyped DEF RetireRoute, TypeInv, TypeOK
    <2>2. feed' \in Feeds /\ recorded' \in Records
        <3>1. [feed EXCEPT !.timer = FALSE, !.onControl = FALSE] \in Feeds
            BY FeedTyped DEF Feeds
        <3> QED BY <1>1, <3>1, FeedTyped, QuietedType, QuietRecordType DEF RetireRoute
    <2>3. /\ Happens /\ routeEpoch' = routeEpoch + 1 /\ context' = FALSE /\ inMap' = None
          /\ UNCHANGED <<far, link, pass, removes, removedAt, start, noControl, kill>>
        BY <1>1 DEF RetireRoute, removeVars
    <2> QED
        BY <2>1, <2>2, <2>3, TypeHappens
        DEF TypeInv, TypeOK, CountInv, Records, Statuses
<1>2. CASE \E s \in Sessions : RemoveRow(s)
    <2> PICK s \in Sessions : RemoveRow(s)
        BY <1>2
    <2>1. feed' \in Feeds
        <3>1. [feed.rows EXCEPT ![s] = 0] \in Holds /\ feed.gone \ {s} \in SUBSET Sessions
            BY FeedTyped, Bounds DEF Feeds, Holds, Ids
        <3>2. feed' = [feed EXCEPT !.rows = [feed.rows EXCEPT ![s] = 0],
                                   !.gone = feed.gone \ {s}]
            BY FeedTyped DEF RemoveRow, Feeds
        <3> QED BY <3>1, <3>2, FeedTyped DEF Feeds
    <2>2. removedAt' \in [Sessions -> 0..removes']
        <3>1. removes \in Nat /\ removedAt \in [Sessions -> 0..removes]
            BY Bounds DEF TypeInv, TypeOK
        <3>2. removes' = removes + 1 /\ removedAt' = [removedAt EXCEPT ![s] = removes + 1]
            BY DEF RemoveRow, Instant
        <3> QED BY <3>1, <3>2
    <2>3. recorded' \in Records
        BY FeedTyped DEF RemoveRow, Records, Statuses
    <2>4. /\ Happens /\ removes' = removes + 1
          /\ UNCHANGED <<far, link, context, routeEpoch, pass, start, client, inMap,
                         noControl, kill>>
        BY DEF RemoveRow, routeVars, clientVars
    <2> QED
        BY <2>1, <2>2, <2>3, <2>4, TypeHappens
        DEF TypeInv, TypeOK, CountInv, Records, Statuses
<1>3. CASE \E s \in Sessions : KillAsked(s)
    <2> PICK s \in Sessions : KillAsked(s)
        BY <1>3
    <2>1. kill' \in Holds
        <3>1. kill' = [kill EXCEPT ![s] = feed.rows[s]] /\ feed.rows[s] \in Ids
            BY FeedTyped DEF KillAsked, Feeds, Holds
        <3> QED BY <3>1 DEF Holds, TypeInv, TypeOK
    <2>2. /\ Happens
          /\ UNCHANGED <<far, link, context, routeEpoch, feed, recorded, pass, removes,
                         removedAt, start, client, inMap, noControl>>
        BY DEF KillAsked, routeVars, rowVars, removeVars, clientVars
    <2> QED
        BY <2>1, <2>2, TypeHappens DEF TypeInv, TypeOK, CountInv
<1>4. CASE \E s \in Sessions : KillEnds(s)
    <2> PICK s \in Sessions : KillEnds(s)
        BY <1>4
    <2> DEFINE f == [feed EXCEPT !.rows[s] = 0, !.gone = @ \cup {s}]
    <2>1. kill' \in Holds
        <3>1. kill' = [kill EXCEPT ![s] = 0]
            BY DEF KillEnds
        <3>2. 0 \in Ids
            BY Bounds DEF Ids
        <3> QED BY <3>1, <3>2 DEF Holds, TypeInv, TypeOK
    <2>2. f \in Feeds
        <3>1. [feed.rows EXCEPT ![s] = 0] \in Holds /\ feed.gone \cup {s} \in SUBSET Sessions
            BY FeedTyped, Bounds DEF Feeds, Holds, Ids
        <3>2. f = [feed EXCEPT !.rows = [feed.rows EXCEPT ![s] = 0],
                               !.gone = feed.gone \cup {s}]
            BY FeedTyped DEF Feeds
        <3> QED BY <3>1, <3>2, FeedTyped DEF Feeds
    <2>3. RowsTyped
        <3>1. Polls(f, recorded) \/ UNCHANGED <<feed, recorded, pass>>
            BY DEF KillEnds, rowVars
        <3> HIDE DEF f
        <3> QED BY <2>2, <3>1, PollsType, FeedTyped DEF RowsTyped, TypeInv, TypeOK
    <2>4. far' \in FarStates
        <3> DEFINE holds == [t \in Sessions |->
                                IF far.holds[t] = kill[s] THEN 0 ELSE far.holds[t]]
        <3>1. far \in FarStates
            BY DEF TypeInv, TypeOK, FarStates
        <3>2. holds \in Holds
            <4>1. 0 \in Ids /\ far.holds \in [Sessions -> Ids]
                BY <3>1, Bounds DEF FarStates, Holds, Ids
            <4> QED BY <4>1 DEF Holds
        <3>3. far' = far \/ far' = [far EXCEPT !.holds = holds]
            BY DEF KillEnds
        <3> HIDE DEF holds
        <3> QED BY <3>1, <3>2, <3>3 DEF FarStates
    <2>5. /\ context' \in BOOLEAN
          /\ UNCHANGED <<link, routeEpoch, removes, removedAt, start, client, inMap,
                         noControl, events>>
        BY DEF KillEnds, removeVars, clientVars, TypeInv, TypeOK
    <2> QED
        BY <2>1, <2>3, <2>4, <2>5
        DEF TypeInv, TypeOK, CountInv, RowsTyped, Records, Statuses, FarStates
<1> QED BY <1>1, <1>2, <1>3, <1>4

LEMMA TypeWorld ==
    ASSUME TypeInv, World
    PROVE  TypeInv'
<1>1. CASE LinkCut \/ LinkBack
    <2>1. /\ link' \in BOOLEAN
          /\ Happens \/ UNCHANGED events
          /\ UNCHANGED <<far, context, routeEpoch, feed, recorded, pass, removes, removedAt,
                         start, client, inMap, noControl, kill>>
        BY <1>1 DEF LinkCut, LinkBack, routeVars, rowVars, removeVars, clientVars
    <2> QED BY <2>1, TypeHappens DEF TypeInv, TypeOK, CountInv
<1>2. CASE Wakes
    <2>1. RowsTyped
        BY <1>2, FeedTyped, QuietedType, QuietRecordType, PollsType
        DEF Wakes, RowsTyped, TypeInv
    <2>2. /\ Happens
          /\ UNCHANGED <<far, link, context, routeEpoch, removes, removedAt, start, client,
                         inMap, noControl, kill>>
        BY <1>2 DEF Wakes, removeVars, clientVars
    <2> QED
        BY <2>1, <2>2, TypeHappens
        DEF TypeInv, TypeOK, CountInv, RowsTyped, Records, Statuses
<1>3. CASE FarServerDies \/ \E s \in Sessions : FarSpawns(s) \/ FarEnds(s)
    <2>1. far' \in FarStates
        <3>1. far \in FarStates
            BY DEF TypeInv, TypeOK, FarStates
        <3>2. CASE FarServerDies
            BY <3>1, <3>2, NothingType DEF FarServerDies, FarStates
        <3>3. CASE \E s \in Sessions : FarEnds(s)
            BY <3>1, <3>3, Bounds DEF FarEnds, FarStates, Holds, Ids
        <3>4. CASE \E s \in Sessions : FarSpawns(s)
            <4> PICK s \in Sessions : FarSpawns(s)
                BY <3>4
            <4> DEFINE f == IF far.up THEN far ELSE Born(far)
            <4>1. f.server <= MaxServers /\ f.next < MaxIds
                  /\ far' = [f EXCEPT !.next = f.next + 1,
                                      !.holds = [f.holds EXCEPT ![s] = f.next + 1]]
                BY <3>1 DEF FarSpawns, Born, FarStates
            <4>2. f \in FarStates
                <5>1. CASE far.up
                    BY <3>1, <5>1
                <5>2. CASE ~far.up
                    <6>1. far.server \in Nat /\ far.server + 1 <= MaxServers
                        BY <3>1, <4>1, <5>2, Bounds DEF Born, FarStates, Servers
                    <6> QED BY <3>1, <5>2, <6>1, BornType, Bounds DEF FarStates
                <5> QED BY <5>1, <5>2
            <4> HIDE DEF f
            <4>3. f.next + 1 \in Ids /\ [f.holds EXCEPT ![s] = f.next + 1] \in Holds
                BY <4>1, <4>2, Bounds DEF FarStates, Holds, Ids
            <4> QED BY <4>1, <4>2, <4>3 DEF FarStates
        <3> QED BY <1>3, <3>2, <3>3, <3>4
    <2>2. /\ Happens \/ UNCHANGED events
          /\ UNCHANGED <<link, context, routeEpoch, feed, recorded, pass, removes, removedAt,
                         start, client, inMap, noControl, kill>>
        BY <1>3
        DEF FarServerDies, FarSpawns, FarEnds, FarMoves, FarElsewhere, routeVars, rowVars,
            removeVars, clientVars
    <2> QED
        BY <2>1, <2>2, TypeHappens DEF TypeInv, TypeOK, CountInv, FarStates
<1> QED BY <1>1, <1>2, <1>3 DEF World

LEMMA TypeStep == TypeInv /\ [Next]_vars => TypeInv'
<1> SUFFICES ASSUME TypeInv, [Next]_vars PROVE TypeInv'
    OBVIOUS
<1>1. CASE UNCHANGED vars
    BY <1>1
    DEF vars, routeVars, rowVars, removeVars, clientVars, TypeInv, TypeOK, CountInv
<1>2. CASE Next
    BY <1>2, TypeLists, TypeAsks, TypeOpens, TypeTimers, TypeConnections, TypePerson,
       TypeWorld
    DEF Next, Lists, Asks, Opens, Timers, Connections, Person
<1> QED BY <1>1, <1>2

\* Every state is of its type.
THEOREM TypeCorrect == Spec => []TypeOK
<1>1. TypeInv => TypeOK
    BY DEF TypeInv
<1> QED BY <1>1, TypeInit, TypeStep, PTL DEF Spec

-----------------------------------------------------------------------------
(* A Remove stands *)

\* The rows and the gone that are drawn, in two feeds.
SameDrawn(f, g) == f.rows = g.rows /\ f.gone = g.gone

LEMMA DrawnByPolls ==
    ASSUME NEW f \in Feeds, NEW r, Polls(f, r)
    PROVE  SameDrawn(feed', f)
BY DEF Polls, Quieted, SameDrawn, Feeds

LEMMA DrawnByStart ==
    ASSUME TypeInv, NEW i, StartsFeed(i) \/ FeedGoesOn(i, feed)
    PROVE  SameDrawn(feed', feed)
<1> DEFINE f == [feed EXCEPT !.feedEpoch = routeEpoch]
           armed(g) == IF Greeted(inMap) \/ g.timer THEN g ELSE ArmTimer(g)
<1>1. feed \in Feeds /\ f \in Feeds
    BY FeedTyped DEF Feeds, TypeInv, TypeOK
<1>2. \A g \in Feeds : armed(g) \in Feeds /\ SameDrawn(armed(g), g)
    BY QuietedType DEF ArmTimer, SameDrawn, Feeds
<1>3. SameDrawn(f, feed)
    BY <1>1 DEF SameDrawn, Feeds
<1>4. \/ feed' = feed \/ Polls(armed(feed), recorded)
      \/ feed' = f \/ Polls(armed(f), recorded)
    BY DEF StartsFeed, FeedGoesOn
<1> HIDE DEF f, armed
<1> QED BY <1>1, <1>2, <1>3, <1>4, DrawnByPolls DEF SameDrawn

\* Only a list, a Remove and the answer to an End change what is drawn.
LEMMA DrawnStep ==
    ASSUME TypeInv, [Next]_vars
    PROVE  \/ SameDrawn(feed', feed)
           \/ \E p \in Passes : \E due \in SUBSET Sessions : PassApplied(p, due)
           \/ \E s \in Sessions : RemoveRow(s) \/ KillEnds(s)
<1>1. feed \in Feeds
    BY FeedTyped
<1>2. \A f \in Feeds : /\ Quieted(f) \in Feeds /\ SameDrawn(Quieted(f), f)
                      /\ SameDrawn(Lost(f), f)
    BY QuietedType DEF Quieted, Lost, ArmTimer, SameDrawn, Feeds
<1>3. CASE UNCHANGED vars
    BY <1>3 DEF vars, rowVars, SameDrawn
<1>4. CASE Lists
    <2>1. CASE Tick
        BY <1>1, <2>1, DrawnByPolls DEF Tick
    <2>2. CASE \E p \in Passes : ListTaken(p) \/ PassFails(p)
        BY <1>1, <1>2, <2>2 DEF ListTaken, PassFails, rowVars, SameDrawn
    <2> QED BY <1>4, <2>1, <2>2 DEF Lists
<1>5. CASE Asks \/ Opens
    <2>1. \/ UNCHANGED feed
          \/ \E i \in Starts : StartsFeed(i) \/ FeedGoesOn(i, feed)
        BY <1>5
        DEF Asks, Opens, CreateStartsFeed, PrepareMachine, KeystrokeReopens, PrecheckEnds,
            ClientStarts, rowVars
    <2> QED BY <2>1, DrawnByStart DEF SameDrawn
<1>6. CASE Timers
    BY <1>1, <1>2, <1>6
    DEF Timers, RetryFires, GreetingTimesOut, TakenAway, rowVars, SameDrawn
<1>7. CASE Connections
    <2> PICK c \in Clients : Greets(c) \/ Drops(c) \/ SshEnds(c) \/ SessionsChanged(c)
        BY <1>7 DEF Connections
    <2>1. CASE Greets(c)
        <3>1. Connected(feed) \in Feeds /\ SameDrawn(Connected(feed), feed)
            <4>1. feed.controlEpoch + 1 \in Nat
                BY <1>1 DEF Feeds
            <4> QED BY <1>1, <4>1 DEF Connected, SameDrawn, Feeds
        <3>2. Polls(Connected(feed), recorded) \/ UNCHANGED feed
            BY <2>1 DEF Greets, rowVars
        <3> QED BY <3>1, <3>2, DrawnByPolls DEF SameDrawn
    <2>2. CASE Drops(c) \/ SshEnds(c)
        BY <1>1, <1>2, <2>2 DEF Drops, SshEnds, DropsFeed, rowVars, SameDrawn
    <2>3. CASE SessionsChanged(c)
        BY <1>1, <2>3, DrawnByPolls DEF SessionsChanged
    <2> QED BY <2>1, <2>2, <2>3
<1>8. CASE Person
    <2>1. CASE RetireRoute
        <3> DEFINE f == [feed EXCEPT !.timer = FALSE, !.onControl = FALSE]
        <3>1. f \in Feeds /\ SameDrawn(f, feed)
            BY <1>1 DEF SameDrawn, Feeds
        <3>2. feed' = Quieted(f)
            BY <2>1 DEF RetireRoute
        <3> HIDE DEF f
        <3> QED BY <1>2, <3>1, <3>2 DEF SameDrawn
    <2>2. CASE \E s \in Sessions : KillAsked(s)
        BY <2>2 DEF KillAsked, rowVars, SameDrawn
    <2> QED BY <1>8, <2>1, <2>2 DEF Person
<1>9. CASE World
    <2>1. CASE Wakes
        <3>1. Polls(Quieted(feed), QuietRecord(feed, recorded))
            BY <2>1 DEF Wakes
        <3> QED BY <1>1, <1>2, <3>1, DrawnByPolls DEF SameDrawn
    <2>2. CASE ~Wakes
        BY <1>9, <2>2
        DEF World, LinkCut, LinkBack, FarServerDies, FarSpawns, FarEnds, FarMoves,
            FarElsewhere, rowVars, SameDrawn
    <2> QED BY <2>1, <2>2
<1> QED BY <1>3, <1>4, <1>5, <1>6, <1>7, <1>8, <1>9 DEF Next

RemoveStandsStep ==
    \A s \in Sessions :
        (removedAt[s] # 0 /\ ~Shown(s) /\ Shown(s)') =>
            \/ \E p \in Passes : /\ pass[p].at = "taken" /\ pass'[p].at = "idle"
                                 /\ pass[p].asked >= removedAt[s]
            \/ kill[s] # 0

LEMMA RemoveStandsByStep ==
    ASSUME TypeInv, [Next]_vars
    PROVE  RemoveStandsStep
<1> SUFFICES ASSUME NEW s \in Sessions, removedAt[s] # 0, ~Shown(s), Shown(s)'
             PROVE  \/ \E p \in Passes : /\ pass[p].at = "taken" /\ pass'[p].at = "idle"
                                         /\ pass[p].asked >= removedAt[s]
                    \/ kill[s] # 0
    BY DEF RemoveStandsStep
<1>1. feed \in Feeds
    BY FeedTyped
<1>2. CASE SameDrawn(feed', feed)
    BY <1>2 DEF SameDrawn, Shown
<1>3. CASE \E p \in Passes : \E due \in SUBSET Sessions : PassApplied(p, due)
    <2> PICK p \in Passes, due \in SUBSET Sessions : PassApplied(p, due)
        BY <1>3
    <2>1. pass[p].at = "taken" /\ pass'[p].at = "idle"
        BY DEF PassApplied, NoPass, TypeInv, TypeOK
    <2>2. feed' = Applied(feed, pass[p])
        BY DEF PassApplied, rowVars, Shown
    <2>3. s \in Seen(pass[p])
        <3>1. feed'.rows = [t \in Sessions |->
                              IF t \in Seen(pass[p]) THEN pass[p].holds[t] ELSE 0]
            BY <1>1, <2>2 DEF Applied, Feeds
        <3>2. feed'.gone = (feed.gone \cup Listed(feed)) \ Seen(pass[p])
            BY <1>1, <2>2 DEF Applied, Feeds
        <3> QED BY <3>1, <3>2 DEF Shown, Listed
    <2>4. removedAt[s] <= pass[p].asked
        BY <2>3 DEF Seen
    <2>5. removedAt[s] \in Nat /\ pass[p].asked \in Nat
        BY Bounds DEF TypeInv, TypeOK, PassStates
    <2> QED BY <2>1, <2>4, <2>5
<1>4. CASE \E t \in Sessions : RemoveRow(t)
    <2> PICK t \in Sessions : RemoveRow(t)
        BY <1>4
    <2>1. feed'.rows = [feed.rows EXCEPT ![t] = 0] /\ feed'.gone = feed.gone \ {t}
        BY <1>1 DEF RemoveRow, Feeds
    <2> QED BY <1>1, <2>1 DEF Shown, Feeds, Holds
<1>5. CASE \E t \in Sessions : KillEnds(t)
    <2> PICK t \in Sessions : KillEnds(t)
        BY <1>5
    <2> DEFINE f == [feed EXCEPT !.rows[t] = 0, !.gone = @ \cup {t}]
    <2>1. f.rows = [feed.rows EXCEPT ![t] = 0] /\ f.gone = feed.gone \cup {t} /\ f \in Feeds
        <3>1. [feed.rows EXCEPT ![t] = 0] \in Holds
            BY <1>1, Bounds DEF Feeds, Holds, Ids
        <3> QED BY <1>1, <3>1 DEF Feeds
    <2>2. kill[t] # 0 /\ (feed' = feed \/ Polls(f, recorded))
        BY DEF KillEnds, rowVars
    <2> HIDE DEF f
    <2>3. s = t
        BY <1>1, <2>1, <2>2, DrawnByPolls DEF Shown, SameDrawn, Feeds, Holds
    <2> QED BY <2>2, <2>3
<1> QED BY <1>2, <1>3, <1>4, <1>5, DrawnStep

(* A list issued before a Remove never brings the row back: what it names is asked
   against the instant of the Remove when it is applied, however late that is. *)
THEOREM RemoveStandsAlways == Spec => RemoveStands
<1>1. TypeInv /\ [Next]_vars => [RemoveStandsStep]_vars
    BY RemoveStandsByStep
<1> QED BY <1>1, TypeInit, TypeStep, PTL DEF Spec, RemoveStands, RemoveStandsStep

-----------------------------------------------------------------------------
(* A scroll reaches its own session *)

\* The server stays, and whoever gets a $-id gets a new one.
FarKept ==
    /\ far'.server = far.server
    /\ far.next <= far'.next
    /\ \A t \in Sessions : far'.holds[t] \in {far.holds[t], 0} \/ far'.holds[t] > far.next

FarGrows == far'.server > far.server

FeedKept ==
    /\ feed'.rowsEpoch = feed.rowsEpoch
    /\ feed'.controlEpoch = feed.controlEpoch
    /\ \A s \in Sessions : feed'.rows[s] \in {feed.rows[s], 0}

PassKept ==
    \A p \in Passes : \/ pass'[p] = pass[p]
                      \/ pass'[p].at # "taken" /\ pass'[p].epoch <= feed.controlEpoch

\* Nobody greets, and the client in the map is heard.
ClientKept ==
    /\ \A c \in Clients :
           /\ client'[c].server \in {client[c].server, 0}
           /\ client'[c].at = "greeted" =>
                  client[c].at = "greeted" /\ client'[c].server = client[c].server
    /\ inMap' # None =>
           /\ client'[inMap'].heard
           /\ inMap' = inMap \/ client'[inMap'].at # "greeted"

LEMMA MeansKept ==
    ASSUME NEW f \in FarStates, NEW g \in FarStates, NEW h \in Holds, NEW k \in Holds,
           f.next <= g.next,
           \A t \in Sessions : g.holds[t] \in {f.holds[t], 0} \/ g.holds[t] > f.next,
           \A s \in Sessions : k[s] \in {h[s], 0},
           Means(f, h)
    PROVE  Means(g, k)
<1> SUFFICES ASSUME NEW s \in Sessions, k[s] # 0
             PROVE  k[s] <= g.next /\ \A t \in Sessions : g.holds[t] = k[s] => t = s
    BY DEF Means
<1>1. f.next \in Nat /\ g.next \in Nat /\ h[s] \in Nat /\ k[s] = h[s]
    BY Bounds DEF FarStates, Holds, Ids
<1>2. h[s] <= f.next /\ \A t \in Sessions : f.holds[t] = h[s] => t = s
    BY <1>1 DEF Means
<1>3. ASSUME NEW t \in Sessions, g.holds[t] = k[s] PROVE t = s
    BY <1>1, <1>2, <1>3
<1> QED BY <1>1, <1>2, <1>3

\* A server hands out each $-id once, over every step.
LEMMA FarStep ==
    ASSUME TypeInv, TypeInv', FarInv, [Next]_vars
    PROVE  FarInv' /\ (FarKept \/ FarGrows)
<1>1. far \in FarStates /\ far' \in FarStates
    BY DEF TypeInv, TypeOK, FarStates
<1>2. \/ far' = far
      \/ ~far.up /\ far' = Born(far)
      \/ FarServerDies
      \/ \E s \in Sessions : FarSpawns(s) \/ FarEnds(s) \/ (KillEnds(s) /\ link)
    <2>1. CASE UNCHANGED vars
        BY <2>1 DEF vars
    <2>2. CASE Lists \/ Timers \/ Opens
        BY <2>2
        DEF Lists, Tick, ListTaken, PassFails, PassApplied, Timers, RetryFires,
            GreetingTimesOut, Opens, PrecheckEnds, ClientStarts
    <2>3. CASE Asks
        BY <2>3 DEF Asks, CreateStartsFeed, PrepareMachine, KeystrokeReopens
    <2>4. CASE Connections
        BY <2>4 DEF Connections, Greets, Drops, SshEnds, DropsFeed, SessionsChanged
    <2>5. CASE Person
        BY <2>5 DEF Person, RetireRoute, RemoveRow, KillAsked, KillEnds
    <2>6. CASE World
        BY <2>6 DEF World, LinkCut, LinkBack, Wakes
    <2> QED BY <2>1, <2>2, <2>3, <2>4, <2>5, <2>6 DEF Next
<1>3. CASE far' = far
    BY <1>1, <1>3, Bounds DEF FarInv, FarKept, FarStates, Ids
<1>4. CASE ~far.up /\ far' = Born(far)
    <2>1. far'.server = far.server + 1 /\ far'.up /\ far'.holds = far.holds
        BY <1>1, <1>4 DEF Born, FarStates
    <2>2. far'.next = 0 /\ far.holds = Nothing
        BY <1>1, <1>4 DEF Born, FarStates, FarInv
    <2>3. far.server \in Nat
        BY <1>1, Bounds DEF FarStates, Servers
    <2> QED BY <2>1, <2>2, <2>3 DEF FarInv, FarGrows, Nothing
<1>5. CASE FarServerDies
    <2>1. far' = [far EXCEPT !.up = FALSE, !.holds = Nothing]
        BY <1>5 DEF FarServerDies
    <2>2. far'.holds = Nothing /\ far'.next = far.next /\ far'.server = far.server
        BY <1>1, <2>1 DEF FarStates
    <2>3. far.next \in Nat
        BY <1>1, Bounds DEF FarStates, Ids
    <2> QED BY <2>2, <2>3 DEF FarInv, FarKept, Nothing
<1>6. CASE \E s \in Sessions : FarSpawns(s)
    <2> PICK s \in Sessions : FarSpawns(s)
        BY <1>6
    <2> DEFINE f == IF far.up THEN far ELSE Born(far)
    <2>1. /\ f.server = (IF far.up THEN far.server ELSE far.server + 1)
          /\ f.next = (IF far.up THEN far.next ELSE 0)
          /\ f.holds = far.holds /\ f.up /\ far.holds[s] = 0
          /\ ~far.up => far.holds = Nothing
        BY <1>1 DEF FarSpawns, Born, FarStates, FarInv
    <2>2. /\ far' = [f EXCEPT !.next = f.next + 1,
                              !.holds = [f.holds EXCEPT ![s] = f.next + 1]]
        BY <1>1 DEF FarSpawns, Born, FarStates
    <2>3. /\ far'.server = f.server /\ far'.next = f.next + 1 /\ far'.up
          /\ far'.holds = [far.holds EXCEPT ![s] = f.next + 1]
        BY <1>1, <2>1, <2>2 DEF Born, FarStates
    <2>4. \A t \in Sessions : far.holds[t] \in Nat /\ far.holds[t] <= f.next
        BY <1>1, <2>1, Bounds DEF FarInv, FarStates, Holds, Ids, Nothing
    <2>5. f.next \in Nat /\ far.next \in Nat /\ far.server \in Nat
        BY <1>1, <2>1, Bounds DEF FarStates, Ids, Servers
    <2>6. far.holds \in [Sessions -> Ids]
        BY <1>1 DEF FarStates, Holds
    <2> HIDE DEF f
    <2>7. FarInv'
        BY <2>1, <2>3, <2>4, <2>5, <2>6 DEF FarInv
    <2>8. FarKept \/ FarGrows
        BY <2>1, <2>3, <2>4, <2>5, <2>6 DEF FarKept, FarGrows
    <2> QED BY <2>7, <2>8
<1>7. CASE \E s \in Sessions : FarEnds(s) \/ (KillEnds(s) /\ link)
    <2>1. \E holds \in Holds : /\ far' = [far EXCEPT !.holds = holds]
                              /\ \A t \in Sessions : holds[t] \in {far.holds[t], 0}
        <3>1. CASE \E s \in Sessions : FarEnds(s)
            <4> PICK s \in Sessions : FarEnds(s)
                BY <3>1
            <4> DEFINE holds == [far.holds EXCEPT ![s] = 0]
            <4>1. far' = [far EXCEPT !.holds = holds] /\ far.holds \in [Sessions -> Ids]
                BY <1>1 DEF FarEnds, FarStates, Holds
            <4>2. holds \in Holds
                BY <4>1, Bounds DEF Holds, Ids
            <4> QED BY <4>1, <4>2
        <3>2. CASE \E s \in Sessions : KillEnds(s) /\ link
            <4> PICK s \in Sessions : KillEnds(s) /\ link
                BY <3>2
            <4> DEFINE holds == [t \in Sessions |->
                                    IF far.holds[t] = kill[s] THEN 0 ELSE far.holds[t]]
            <4>1. far' = [far EXCEPT !.holds = holds]
                BY DEF KillEnds
            <4>2. 0 \in Ids /\ far.holds \in [Sessions -> Ids]
                BY <1>1, Bounds DEF FarStates, Holds, Ids
            <4>3. holds \in Holds
                BY <4>2 DEF Holds
            <4> QED BY <4>1, <4>3
        <3> QED BY <1>7, <3>1, <3>2
    <2> PICK holds \in Holds : /\ far' = [far EXCEPT !.holds = holds]
                              /\ \A t \in Sessions : holds[t] \in {far.holds[t], 0}
        BY <2>1
    <2>2. /\ far'.server = far.server /\ far'.next = far.next /\ far'.up = far.up
          /\ far'.holds = holds
        BY <1>1 DEF FarStates
    <2>3. far.next \in Nat /\ holds \in [Sessions -> Ids]
        BY <1>1, Bounds DEF FarStates, Ids, Holds
    <2>4. ~far.up => holds = Nothing
        BY <2>3 DEF FarInv, Nothing
    <2>5. FarInv'
        BY <2>2, <2>3, <2>4 DEF FarInv
    <2>6. FarKept
        BY <2>2, <2>3 DEF FarKept
    <2> QED BY <2>5, <2>6
<1> QED BY <1>2, <1>3, <1>4, <1>5, <1>6, <1>7

\* A step in which nobody greets and no list comes keeps what is known.
LEMMA KeptOwn ==
    ASSUME TypeInv, TypeInv', EpochInv, ClientInv, OwnInv,
           FeedKept, PassKept, ClientKept, FarKept \/ FarGrows
    PROVE  EpochInv' /\ ClientInv' /\ OwnInv'
<1>1. /\ far \in FarStates /\ far' \in FarStates
      /\ feed.rows \in Holds /\ feed'.rows \in Holds
      /\ \A c \in Clients : client[c].server \in Nat
      /\ far.server \in Nat /\ far'.server \in Nat
      /\ feed.controlEpoch \in Nat
      /\ inMap' \in Clients \cup {None}
    BY Bounds
    DEF TypeInv, TypeOK, FarStates, Feeds, ClientStates, Servers
<1>2. EpochInv'
    BY DEF EpochInv, FeedKept, PassKept
<1>3. ClientInv'
    BY <1>1 DEF ClientInv, ClientKept, FarKept, FarGrows
<1>4. Linked' => Linked /\ FarKept
    <2> SUFFICES ASSUME Linked' PROVE Linked /\ FarKept
        OBVIOUS
    <2>1. /\ inMap' # None /\ inMap' \in Clients /\ client'[inMap'].at = "greeted"
          /\ client'[inMap'].server = far'.server
        BY <1>1 DEF Linked, Greeted
    <2>2. /\ inMap' = inMap /\ client[inMap].at = "greeted"
          /\ client[inMap].server = far'.server
        BY <2>1 DEF ClientKept
    <2>3. far'.server <= far.server
        BY <2>1, <2>2 DEF ClientInv
    <2>4. FarKept
        BY <1>1, <2>3 DEF FarGrows
    <2> QED BY <2>1, <2>2, <2>4 DEF Linked, Greeted, FarKept
<1>5. Known(feed.rows, feed.rowsEpoch)'
    BY <1>1, <1>4, MeansKept DEF Known, OwnInv, FeedKept, FarKept
<1>6. ASSUME NEW p \in Passes, pass'[p].at = "taken"
      PROVE  Known(pass[p].holds, pass[p].epoch)'
    <2>1. pass'[p] = pass[p] /\ pass[p].holds \in Holds
        BY <1>6 DEF PassKept, TypeInv, TypeOK, PassStates
    <2>2. Known(pass[p].holds, pass[p].epoch)
        BY <1>6, <2>1 DEF OwnInv
    <2> QED BY <1>1, <1>4, <2>1, <2>2, MeansKept DEF Known, FeedKept, FarKept
<1> QED BY <1>2, <1>3, <1>5, <1>6 DEF OwnInv

LEMMA KeptByPolls ==
    ASSUME TypeOK, NEW f \in Feeds, NEW r, Polls(f, r)
    PROVE  /\ feed'.rows = f.rows /\ feed'.rowsEpoch = f.rowsEpoch
           /\ feed'.controlEpoch = f.controlEpoch
           /\ \A p \in Passes : \/ pass'[p] = pass[p]
                                \/ pass'[p].at = "out" /\ pass'[p].epoch = f.controlEpoch
<1>1. feed' = f \/ feed' = Quieted(f)
    BY DEF Polls
<1> DEFINE new == [NoPass EXCEPT !.at = "out", !.epoch = f.controlEpoch,
                                 !.route = routeEpoch, !.asked = removes]
<1>2. pass' = pass \/ \E q : pass' = [pass EXCEPT ![q] = new]
    BY DEF Polls
<1>3. \A p \in Passes : \/ pass'[p] = pass[p]
                        \/ pass'[p].at = "out" /\ pass'[p].epoch = f.controlEpoch
    <2>1. new.at = "out" /\ new.epoch = f.controlEpoch
        BY DEF NoPass
    <2> HIDE DEF new
    <2> QED BY <1>2, <2>1 DEF TypeOK
<1> QED BY <1>1, <1>3 DEF Quieted, Feeds

\* The same, of a poll of a feed that has the epochs and rows of the one there is.
LEMMA PolledKept ==
    ASSUME TypeInv, NEW f \in Feeds, NEW r, Polls(f, r),
           f.controlEpoch = feed.controlEpoch, f.rowsEpoch = feed.rowsEpoch,
           \A s \in Sessions : f.rows[s] \in {feed.rows[s], 0}
    PROVE  FeedKept /\ PassKept
<1>1. f.controlEpoch \in Nat
    BY DEF Feeds
<1> QED BY <1>1, KeptByPolls DEF FeedKept, PassKept, TypeInv

LEMMA StartKept ==
    ASSUME TypeInv, NEW i, StartsFeed(i) \/ FeedGoesOn(i, feed)
    PROVE  FeedKept /\ PassKept
<1> DEFINE f == [feed EXCEPT !.feedEpoch = routeEpoch]
           armed(g) == IF Greeted(inMap) \/ g.timer THEN g ELSE ArmTimer(g)
           same(g) == /\ g \in Feeds /\ g.controlEpoch = feed.controlEpoch
                      /\ g.rowsEpoch = feed.rowsEpoch /\ g.rows = feed.rows
<1>1. same(feed) /\ same(f)
    BY FeedTyped DEF Feeds, TypeInv, TypeOK
<1>2. same(armed(feed)) /\ same(armed(f))
    <2>1. ASSUME NEW g \in Feeds, same(g) PROVE same(armed(g))
        <3>1. /\ ArmTimer(g) \in Feeds /\ ArmTimer(g).rows = g.rows
              /\ ArmTimer(g).controlEpoch = g.controlEpoch
              /\ ArmTimer(g).rowsEpoch = g.rowsEpoch
            BY QuietedType DEF ArmTimer, Feeds
        <3> QED BY <2>1, <3>1
    <2> HIDE DEF f, armed
    <2> QED BY <1>1, <2>1
<1>3. \/ feed' = feed /\ pass' = pass
      \/ feed' = f /\ pass' = pass
      \/ Polls(armed(feed), recorded)
      \/ Polls(armed(f), recorded)
    BY DEF StartsFeed, FeedGoesOn
<1> HIDE DEF f, armed
<1> QED BY <1>1, <1>2, <1>3, PolledKept DEF FeedKept, PassKept

\* Steps in which nobody greets and no list comes.
LEMMA StepKept ==
    ASSUME TypeInv, ClientInv, [Next]_vars,
           ~\E p \in Passes : ListTaken(p) \/ \E due \in SUBSET Sessions : PassApplied(p, due),
           ~\E c \in Clients : Greets(c)
    PROVE  FeedKept /\ PassKept /\ ClientKept
<1> DEFINE still == FeedKept /\ UNCHANGED pass
<1>1. feed \in Feeds /\ \A c \in Clients : client[c] \in ClientStates
    BY FeedTyped DEF TypeInv, TypeOK
<1>2. UNCHANGED pass => PassKept
    BY DEF PassKept
<1>3. UNCHANGED feed => FeedKept
    BY DEF FeedKept
<1>4. UNCHANGED <<client, inMap>> => ClientKept
    BY DEF ClientKept, ClientInv
<1>5. \A f \in Feeds :
          /\ Quieted(f) \in Feeds /\ Lost(f) \in Feeds
          /\ Quieted(f).rows = f.rows /\ Lost(f).rows = f.rows
          /\ Quieted(f).rowsEpoch = f.rowsEpoch /\ Lost(f).rowsEpoch = f.rowsEpoch
          /\ Quieted(f).controlEpoch = f.controlEpoch /\ Lost(f).controlEpoch = f.controlEpoch
    <2> SUFFICES ASSUME NEW f \in Feeds
                 PROVE  /\ Quieted(f).rows = f.rows /\ Lost(f).rows = f.rows
                        /\ Quieted(f).rowsEpoch = f.rowsEpoch
                        /\ Lost(f).rowsEpoch = f.rowsEpoch
                        /\ Quieted(f).controlEpoch = f.controlEpoch
                        /\ Lost(f).controlEpoch = f.controlEpoch
        BY QuietedType
    <2>1. /\ Quieted(f).rows = f.rows /\ Quieted(f).rowsEpoch = f.rowsEpoch
          /\ Quieted(f).controlEpoch = f.controlEpoch
        BY DEF Quieted, Feeds
    <2> DEFINE off == [Quieted(f) EXCEPT !.onControl = FALSE]
    <2>2. /\ off \in Feeds /\ off.rows = f.rows /\ off.rowsEpoch = f.rowsEpoch
          /\ off.controlEpoch = f.controlEpoch
        BY <2>1, QuietedType DEF Feeds
    <2>3. Lost(f) = ArmTimer(off)
        BY DEF Lost
    <2> HIDE DEF off
    <2>4. /\ ArmTimer(off).rows = off.rows /\ ArmTimer(off).rowsEpoch = off.rowsEpoch
          /\ ArmTimer(off).controlEpoch = off.controlEpoch
        BY <2>2 DEF ArmTimer, Feeds
    <2> QED BY <2>1, <2>2, <2>3, <2>4
<1>6. feed' \in {Quieted(feed), Lost(feed)} => FeedKept
    BY <1>1, <1>5 DEF FeedKept
<1>7. CASE UNCHANGED vars
    BY <1>2, <1>3, <1>4, <1>7 DEF vars, rowVars, clientVars
<1>8. CASE Lists
    <2>1. CASE Tick
        <3>1. Polls(feed, recorded) /\ UNCHANGED <<client, inMap>>
            BY <2>1 DEF Tick, clientVars
        <3> QED BY <1>1, <1>4, <3>1, PolledKept
    <2>2. CASE \E p \in Passes : PassFails(p)
        <3> PICK p \in Passes : PassFails(p)
            BY <2>2
        <3>1. PassKept
            <4>1. pass' = [pass EXCEPT ![p] = NoPass]
                BY DEF PassFails
            <4>2. feed.controlEpoch \in Nat
                BY <1>1 DEF Feeds
            <4> QED BY <4>1, <4>2 DEF PassKept, NoPass, TypeInv, TypeOK
        <3>2. FeedKept
            BY <1>3, <1>6 DEF PassFails, rowVars
        <3>3. UNCHANGED <<client, inMap>>
            BY DEF PassFails, clientVars
        <3> QED BY <1>4, <3>1, <3>2, <3>3
    <2> QED BY <1>8, <2>1, <2>2 DEF Lists
<1>9. CASE Asks
    <2> PICK i \in Starts : CreateStartsFeed(i) \/ PrepareMachine(i) \/ KeystrokeReopens(i)
        BY <1>9 DEF Asks
    <2>1. StartsFeed(i) \/ UNCHANGED <<feed, pass>>
        BY DEF CreateStartsFeed, PrepareMachine, KeystrokeReopens, rowVars
    <2>2. UNCHANGED <<client, inMap>>
        BY DEF CreateStartsFeed, PrepareMachine, KeystrokeReopens, StartsFeed, clientVars
    <2> QED BY <1>2, <1>3, <1>4, <2>1, <2>2, StartKept
<1>10. CASE Opens
    <2> PICK i \in Starts : PrecheckEnds(i) \/ ClientStarts(i)
        BY <1>10 DEF Opens
    <2>1. FeedGoesOn(i, feed) \/ UNCHANGED <<feed, pass>>
        BY DEF PrecheckEnds, ClientStarts, rowVars
    <2>2. ClientKept
        <3>1. CASE PrecheckEnds(i)
            <4> DEFINE opened == [client[i] EXCEPT !.at = "checking", !.heard = TRUE]
            <4>1. \/ UNCHANGED <<client, inMap>>
                  \/ client' = [client EXCEPT ![i] = opened] /\ inMap' = i
                BY <3>1 DEF PrecheckEnds, Clients, TypeInv, TypeOK
            <4>2. opened.at = "checking" /\ opened.heard /\ opened.server = client[i].server
                BY <1>1 DEF ClientStates, Clients
            <4> HIDE DEF opened
            <4>3. i \in Clients /\ client \in [Clients -> ClientStates]
                BY DEF Clients, TypeInv, TypeOK
            <4> QED
                BY <1>4, <4>1, <4>2, <4>3 DEF ClientKept
        <3>2. CASE ClientStarts(i)
            <4>1. /\ \E at \in {"child", "dead", "retry"} :
                         client' = [client EXCEPT ![i] = [client[i] EXCEPT !.at = at]]
                  /\ inMap' = inMap
                BY <3>2 DEF ClientStarts, Clients, TypeInv, TypeOK
            <4> QED
                BY <1>1, <4>1 DEF ClientKept, ClientInv, ClientStates, Clients, TypeInv, TypeOK
        <3> QED BY <3>1, <3>2
    <2> QED BY <1>2, <1>3, <2>1, <2>2, StartKept
<1>11. CASE Timers
    <2> PICK c \in Clients : RetryFires(c) \/ GreetingTimesOut(c)
        BY <1>11 DEF Timers
    <2>1. CASE RetryFires(c)
        <3>1. UNCHANGED <<feed, pass, inMap>>
            BY <2>1 DEF RetryFires, rowVars
        <3>2. client' = [client EXCEPT ![c] = [client[c] EXCEPT !.at = "checking"]]
            BY <2>1 DEF RetryFires, TypeInv, TypeOK
        <3>3. ClientKept
            BY <1>1, <3>1, <3>2 DEF ClientKept, ClientInv, ClientStates, TypeInv, TypeOK
        <3> QED BY <1>2, <1>3, <3>1, <3>3
    <2>2. CASE GreetingTimesOut(c)
        <3>1. UNCHANGED pass /\ feed' \in {feed, Lost(feed)}
            BY <2>2 DEF GreetingTimesOut, TakenAway, rowVars
        <3>2. \A d \in Clients : /\ Stopped(client[d]).at # "greeted"
                                 /\ Stopped(client[d]).server = 0
                                 /\ AfterDrop(client[d]).at # "greeted"
                                 /\ AfterDrop(client[d]).server = 0
            BY <1>1 DEF Stopped, AfterDrop, ClientStates
        <3>3. client \in [Clients -> ClientStates]
            BY DEF TypeInv, TypeOK
        <3>4. ASSUME client[c].heard PROVE ClientKept
            <4>1. /\ inMap' = None
                  /\ client' = [d \in Clients |->
                         IF d = inMap THEN Stopped(client[d])
                         ELSE IF d = c THEN AfterDrop(client[d]) ELSE client[d]]
                BY <2>2, <3>4 DEF GreetingTimesOut
            <4> QED BY <3>2, <4>1 DEF ClientKept
        <3>5. ASSUME ~client[c].heard PROVE ClientKept
            <4>1. inMap' = inMap /\ client' = [client EXCEPT ![c] = AfterDrop(client[c])]
                BY <2>2, <3>5 DEF GreetingTimesOut
            <4> QED BY <3>2, <3>3, <3>5, <4>1 DEF ClientKept, ClientInv
        <3>6. ClientKept
            BY <3>4, <3>5
        <3> QED BY <1>2, <1>3, <1>6, <3>1, <3>6
    <2> QED BY <2>1, <2>2
<1>12. CASE Connections
    <2> PICK c \in Clients : Drops(c) \/ SshEnds(c) \/ SessionsChanged(c)
        BY <1>12 DEF Connections
    <2>1. CASE DropsFeed(c)
        <3>1. UNCHANGED <<pass, inMap>> /\ feed' \in {feed, Lost(feed)}
            BY <2>1 DEF DropsFeed, rowVars
        <3>2. ClientKept
            BY <1>1, <2>1
            DEF DropsFeed, ClientKept, ClientInv, ClientStates, AfterDrop, TypeInv, TypeOK
        <3> QED BY <1>2, <1>3, <1>6, <3>1, <3>2
    <2>2. CASE SessionsChanged(c)
        <3>1. Polls(feed, recorded) /\ UNCHANGED <<client, inMap>>
            BY <2>2 DEF SessionsChanged, clientVars
        <3> QED BY <1>1, <1>4, <3>1, PolledKept
    <2> QED BY <2>1, <2>2 DEF Drops, SshEnds
<1>13. CASE Person
    <2>1. CASE RetireRoute
        <3> DEFINE f == [feed EXCEPT !.timer = FALSE, !.onControl = FALSE]
        <3>1. /\ f \in Feeds /\ f.rows = feed.rows /\ f.rowsEpoch = feed.rowsEpoch
              /\ f.controlEpoch = feed.controlEpoch
            BY <1>1 DEF Feeds
        <3>2. feed' = Quieted(f) /\ UNCHANGED pass
            BY <2>1 DEF RetireRoute
        <3>3. ClientKept
            BY <1>1, <2>1
            DEF RetireRoute, ClientKept, ClientInv, ClientStates, Stopped, TypeInv, TypeOK
        <3> HIDE DEF f
        <3>4. FeedKept
            BY <1>5, <3>1, <3>2 DEF FeedKept
        <3> QED BY <1>2, <3>2, <3>3, <3>4
    <2>2. CASE \E s \in Sessions : RemoveRow(s)
        <3> PICK s \in Sessions : RemoveRow(s)
            BY <2>2
        <3>1. /\ feed'.rows = [feed.rows EXCEPT ![s] = 0]
              /\ feed'.rowsEpoch = feed.rowsEpoch /\ feed'.controlEpoch = feed.controlEpoch
              /\ UNCHANGED <<pass, client, inMap>>
            BY <1>1 DEF RemoveRow, Feeds, clientVars
        <3>2. FeedKept
            BY <1>1, <3>1 DEF FeedKept, Feeds, Holds
        <3> QED BY <1>2, <1>4, <3>1, <3>2
    <2>3. CASE \E s \in Sessions : KillAsked(s)
        BY <1>2, <1>3, <1>4, <2>3 DEF KillAsked, rowVars, clientVars
    <2>4. CASE \E s \in Sessions : KillEnds(s)
        <3> PICK s \in Sessions : KillEnds(s)
            BY <2>4
        <3> DEFINE f == [feed EXCEPT !.rows[s] = 0, !.gone = @ \cup {s}]
        <3>1. /\ f.rows = [feed.rows EXCEPT ![s] = 0] /\ f.rowsEpoch = feed.rowsEpoch
              /\ f.controlEpoch = feed.controlEpoch /\ f \in Feeds
            <4>1. [feed.rows EXCEPT ![s] = 0] \in Holds
                BY <1>1, Bounds DEF Feeds, Holds, Ids
            <4> QED BY <1>1, <4>1 DEF Feeds
        <3>2. /\ Polls(f, recorded) \/ UNCHANGED <<feed, pass>>
              /\ UNCHANGED <<client, inMap>>
            BY DEF KillEnds, rowVars, clientVars
        <3> HIDE DEF f
        <3>3. \A t \in Sessions : f.rows[t] \in {feed.rows[t], 0}
            BY <1>1, <3>1 DEF Feeds, Holds
        <3> QED BY <1>2, <1>3, <1>4, <3>1, <3>2, <3>3, PolledKept
    <2> QED BY <1>13, <2>1, <2>2, <2>3, <2>4 DEF Person
<1>14. CASE World
    <2>1. CASE Wakes
        <3>1. Polls(Quieted(feed), QuietRecord(feed, recorded)) /\ UNCHANGED <<client, inMap>>
            BY <2>1 DEF Wakes, clientVars
        <3> QED BY <1>1, <1>4, <1>5, <3>1, PolledKept
    <2>2. CASE ~Wakes
        <3>1. UNCHANGED <<feed, pass, client, inMap>>
            BY <1>14, <2>2
            DEF World, LinkCut, LinkBack, FarServerDies, FarSpawns, FarEnds, FarMoves,
                FarElsewhere, rowVars, clientVars
        <3> QED BY <1>2, <1>3, <1>4, <3>1
    <2> QED BY <2>1, <2>2
<1> QED BY <1>7, <1>8, <1>9, <1>10, <1>11, <1>12, <1>13, <1>14 DEF Next

\* A list that is answered names whoever holds its $-ids now.
LEMMA ListTakenOwn ==
    ASSUME IInv, TypeInv', NEW p \in Passes, ListTaken(p)
    PROVE  EpochInv' /\ ClientInv' /\ OwnInv'
<1> DEFINE taken == [pass[p] EXCEPT !.at = "taken", !.up = far.up, !.holds = far.holds]
<1>1. pass' = [pass EXCEPT ![p] = taken] /\ UNCHANGED <<far, feed, client, inMap>>
    BY DEF ListTaken, rowVars, clientVars, IInv, TypeInv, TypeOK
<1>2. taken.epoch = pass[p].epoch /\ taken.holds = far.holds
    BY DEF IInv, TypeInv, TypeOK, PassStates
<1>3. pass \in [Passes -> PassStates]
    BY DEF IInv, TypeInv, TypeOK
<1>4. Means(far, far.holds)
    BY DEF IInv, FarInv, Means
<1> HIDE DEF taken
<1>5. EpochInv'
    BY <1>1, <1>2, <1>3 DEF IInv, EpochInv
<1>6. ClientInv'
    BY <1>1 DEF IInv, ClientInv
<1>7. ASSUME NEW q \in Passes, pass'[q].at = "taken"
      PROVE  Known(pass[q].holds, pass[q].epoch)'
    <2>1. CASE q = p
        BY <1>1, <1>2, <1>3, <1>4, <2>1 DEF Known
    <2>2. CASE q # p
        <3>1. pass'[q] = pass[q]
            BY <1>1, <1>3, <2>2
        <3>2. Known(pass[q].holds, pass[q].epoch)
            BY <1>7, <3>1 DEF IInv, OwnInv
        <3> QED BY <1>1, <3>1, <3>2 DEF Known, Linked, Greeted
    <2> QED BY <2>1, <2>2
<1>8. Known(feed.rows, feed.rowsEpoch)'
    BY <1>1 DEF IInv, OwnInv, Known, Linked, Greeted
<1> QED BY <1>5, <1>6, <1>7, <1>8 DEF OwnInv

\* The rows a list leaves are some of its own, and of its connection.
LEMMA PassAppliedOwn ==
    ASSUME IInv, TypeInv', NEW p \in Passes, NEW due \in SUBSET Sessions, PassApplied(p, due)
    PROVE  EpochInv' /\ ClientInv' /\ OwnInv'
<1> DEFINE list == pass[p]
<1>1. /\ pass' = [pass EXCEPT ![p] = NoPass]
      /\ feed' = feed \/ feed' = Applied(feed, list)
      /\ list.at = "taken"
      /\ UNCHANGED <<far, client, inMap>>
    BY DEF PassApplied, rowVars, clientVars
<1>2. /\ far \in FarStates /\ feed \in Feeds /\ pass \in [Passes -> PassStates]
      /\ list \in PassStates /\ feed.controlEpoch \in Nat
    BY DEF IInv, TypeInv, TypeOK, FarStates, Feeds
<1>3. \A q \in Passes : pass'[q] = pass[q] \/ (pass'[q].at = "idle" /\ pass'[q].epoch = 0)
    BY <1>1, <1>2 DEF NoPass
<1>4. \/ feed' = feed
      \/ /\ feed'.controlEpoch = feed.controlEpoch
         /\ feed'.rowsEpoch = list.epoch
         /\ \A s \in Sessions : feed'.rows[s] \in {list.holds[s], 0}
    <2>1. /\ Applied(feed, list).controlEpoch = feed.controlEpoch
          /\ Applied(feed, list).rowsEpoch = list.epoch
        BY <1>2 DEF Applied, RowsEpoch, Feeds
    <2>2. Applied(feed, list).rows =
              [s \in Sessions |-> IF s \in Seen(list) THEN list.holds[s] ELSE 0]
        BY <1>2 DEF Applied, Feeds
    <2> QED BY <1>1, <2>1, <2>2
<1>5. feed'.controlEpoch = feed.controlEpoch
    BY <1>4
<1>6. EpochInv'
    BY <1>2, <1>3, <1>4, <1>5 DEF IInv, EpochInv
<1>7. ClientInv'
    BY <1>1 DEF IInv, ClientInv
<1>8. Linked' <=> Linked
    BY <1>1 DEF Linked, Greeted
<1>9. ASSUME NEW q \in Passes, pass'[q].at = "taken"
      PROVE  Known(pass[q].holds, pass[q].epoch)'
    <2>1. pass'[q] = pass[q]
        BY <1>3, <1>9
    <2>2. Known(pass[q].holds, pass[q].epoch)
        BY <1>9, <2>1 DEF IInv, OwnInv
    <2> QED BY <1>1, <1>5, <1>8, <2>1, <2>2 DEF Known
<1>10. Known(feed.rows, feed.rowsEpoch)'
    <2>1. CASE feed' = feed
        BY <1>1, <1>8, <2>1 DEF IInv, OwnInv, Known
    <2>2. CASE feed' # feed
        <3>1. Known(list.holds, list.epoch)
            BY <1>1 DEF IInv, OwnInv
        <3>2. feed'.rows \in Holds /\ list.holds \in Holds
            BY <1>2 DEF TypeInv, TypeOK, Feeds, PassStates
        <3>3. far.next <= far.next
            BY <1>2, Bounds DEF FarStates, Ids
        <3> QED BY <1>1, <1>2, <1>4, <1>5, <1>8, <2>2, <3>1, <3>2, <3>3, MeansKept DEF Known
    <2> QED BY <2>1, <2>2
<1> QED BY <1>6, <1>7, <1>9, <1>10 DEF OwnInv

(* A greeting that is heard begins a new epoch, in which nothing is listed yet; one
   that is not heard is not of the client in the map. *)
LEMMA GreetsOwn ==
    ASSUME IInv, TypeInv', NEW c \in Clients, Greets(c), FarKept \/ FarGrows
    PROVE  EpochInv' /\ ClientInv' /\ OwnInv'
<1> DEFINE greeted == [client[c] EXCEPT !.at = "greeted", !.server = far'.server]
<1>1. client' = [client EXCEPT ![c] = greeted] /\ inMap' = inMap
    BY DEF Greets, IInv, TypeInv, TypeOK
<1>2. /\ far \in FarStates /\ far' \in FarStates /\ feed \in Feeds
      /\ feed' \in Feeds
      /\ pass \in [Passes -> PassStates] /\ pass' \in [Passes -> PassStates]
      /\ client \in [Clients -> ClientStates] /\ inMap \in Clients \cup {None}
    BY DEF IInv, TypeInv, TypeOK, FarStates
<1>3. greeted.at = "greeted" /\ greeted.server = far'.server /\ greeted.heard = client[c].heard
    BY <1>2 DEF ClientStates
<1> HIDE DEF greeted
<1>4. /\ far.server \in Nat /\ far'.server \in Nat /\ far.server <= far'.server
      /\ \A d \in Clients : client[d].server \in Nat
    BY <1>2, Bounds DEF FarStates, Servers, ClientStates, FarKept, FarGrows
<1>5. ClientInv'
    BY <1>1, <1>2, <1>3, <1>4 DEF IInv, ClientInv
<1>6. CASE client[c].heard
    <2>1. /\ Connected(feed) \in Feeds /\ Connected(feed).rowsEpoch = feed.rowsEpoch
          /\ Connected(feed).controlEpoch = feed.controlEpoch + 1
        <3>1. feed.controlEpoch + 1 \in Nat
            BY <1>2 DEF Feeds
        <3> QED BY <1>2, <3>1 DEF Connected, Feeds
    <2>2. Polls(Connected(feed), recorded)
        BY <1>6 DEF Greets
    <2>3. /\ feed'.rowsEpoch = feed.rowsEpoch /\ feed'.controlEpoch = feed.controlEpoch + 1
          /\ \A p \in Passes : \/ pass'[p] = pass[p]
                               \/ /\ pass'[p].at = "out"
                                  /\ pass'[p].epoch = feed.controlEpoch + 1
        BY <2>1, <2>2, KeptByPolls DEF IInv, TypeInv
    <2>4. feed.controlEpoch \in Nat /\ feed.rowsEpoch \in Nat
          /\ \A p \in Passes : pass[p].epoch \in Nat
        BY <1>2 DEF Feeds, PassStates
    <2>5. EpochInv'
        BY <2>3, <2>4 DEF IInv, EpochInv
    <2>6. OwnInv'
        BY <2>3, <2>4 DEF IInv, EpochInv, OwnInv, Known
    <2> QED BY <1>5, <2>5, <2>6
<1>7. CASE ~client[c].heard
    <2>1. UNCHANGED <<feed, pass>>
        BY <1>7 DEF Greets, rowVars
    <2>2. c # inMap \/ inMap = None
        BY <1>7 DEF IInv, ClientInv
    <2>3. Linked' => Linked /\ FarKept
        BY <1>1, <1>2, <1>4, <2>2
        DEF Linked, Greeted, None, IInv, ClientInv, FarKept, FarGrows
    <2>4. EpochInv'
        BY <2>1 DEF IInv, EpochInv
    <2>5. Known(feed.rows, feed.rowsEpoch)'
        BY <1>2, <2>1, <2>3, MeansKept DEF IInv, OwnInv, Known, FarKept, Feeds
    <2>6. ASSUME NEW p \in Passes, pass'[p].at = "taken"
          PROVE  Known(pass[p].holds, pass[p].epoch)'
        <3>1. Known(pass[p].holds, pass[p].epoch) /\ pass[p].holds \in Holds
            BY <1>2, <2>1, <2>6 DEF IInv, OwnInv, PassStates
        <3> QED BY <1>2, <2>1, <2>3, <3>1, MeansKept DEF Known, FarKept
    <2> QED BY <1>5, <2>4, <2>5, <2>6 DEF OwnInv
<1> QED BY <1>6, <1>7

LEMMA InvInit == Init => IInv
<1> SUFFICES ASSUME Init PROVE IInv
    OBVIOUS
<1>1. TypeInv
    BY TypeInit
<1> DEFINE s == CHOOSE t \in Sessions : TRUE
<1>2. /\ far = [up |-> TRUE, server |-> 1, next |-> 1, holds |-> [Nothing EXCEPT ![s] = 1]]
      /\ inMap = None
      /\ pass = [p \in Passes |-> NoPass] /\ client = [c \in Clients |-> NoClient]
    BY DEF Init
<1>3. feed.rowsEpoch = 0 /\ feed.controlEpoch = 0
    <2>1. feed = [timer |-> FALSE, onControl |-> FALSE, controlEpoch |-> 0,
                  rowsEpoch |-> 0, rows |-> Nothing, gone |-> {}, answering |-> FALSE,
                  everAnswered |-> FALSE, last |-> "none", feedEpoch |-> 0]
        BY DEF Init
    <2> QED BY <2>1
<1> HIDE DEF s
<1>4. EpochInv
    BY <1>2, <1>3 DEF EpochInv, NoPass
<1>5. FarInv
    BY <1>2 DEF FarInv, Nothing
<1>6. ClientInv
    BY <1>2 DEF ClientInv, NoClient
<1>7. OwnInv
    BY <1>2 DEF OwnInv, Known, Linked, Greeted
<1> QED BY <1>1, <1>4, <1>5, <1>6, <1>7 DEF IInv

LEMMA InvStep == IInv /\ [Next]_vars => IInv'
<1> SUFFICES ASSUME IInv, [Next]_vars PROVE IInv'
    OBVIOUS
<1>1. TypeInv'
    BY TypeStep DEF IInv
<1>2. FarInv' /\ (FarKept \/ FarGrows)
    BY <1>1, FarStep DEF IInv
<1>3. EpochInv' /\ ClientInv' /\ OwnInv'
    <2>1. CASE \E p \in Passes :
                   ListTaken(p) \/ \E due \in SUBSET Sessions : PassApplied(p, due)
        BY <1>1, <2>1, ListTakenOwn, PassAppliedOwn
    <2>2. CASE \E c \in Clients : Greets(c)
        BY <1>1, <1>2, <2>2, GreetsOwn
    <2>3. CASE /\ ~\E p \in Passes :
                      ListTaken(p) \/ \E due \in SUBSET Sessions : PassApplied(p, due)
               /\ ~\E c \in Clients : Greets(c)
        <3>1. FeedKept /\ PassKept /\ ClientKept
            BY <2>3, StepKept DEF IInv
        <3> QED BY <1>1, <1>2, <3>1, KeptOwn DEF IInv
    <2> QED BY <2>1, <2>2, <2>3
<1> QED BY <1>1, <1>2, <1>3 DEF IInv

\* The inductive invariant: what is listed under a connection means what it meant.
THEOREM FeedInvariant == Spec => []IInv
BY InvInit, InvStep, PTL DEF Spec

(* A scroll is written to the connection in the map for the $-id of a row, only while
   the row is of that connection: it reaches the session it was meant for, whatever
   servers, connections and lists came and went. *)
THEOREM ScrollReachesItsOwnAlways == Spec => []ScrollReachesItsOwn
<1>1. IInv => ScrollReachesItsOwn
    BY DEF IInv, OwnInv, Known, Means, Linked, Greeted, ScrollReachesItsOwn, Addressable
<1> QED BY <1>1, FeedInvariant, PTL

(* That the rows are of the connection in the map, which a scroll asks for and an End
   does not, and that it is one to the server that is there, which holds for whatever is
   written along the connection itself and which nothing here can ask otherwise. *)
RowsAreOfConnection == Linked /\ feed.rowsEpoch = feed.controlEpoch

KillListed ==
    \A s, t \in Sessions :
        (/\ kill[s] = 0 /\ kill'[s] # 0 /\ RowsAreOfConnection
         /\ far.holds[t] = kill'[s]) => t = s

\* A kill is sent for the $-id of its row.
LEMMA KillIsListed ==
    ASSUME TypeInv, [Next]_vars, NEW s \in Sessions, kill[s] = 0, kill'[s] # 0
    PROVE  kill'[s] = feed.rows[s]
<1>1. kill \in [Sessions -> Ids]
    BY DEF TypeInv, TypeOK, Holds
<1>2. CASE UNCHANGED kill
    BY <1>2
<1>3. CASE \E u \in Sessions : KillAsked(u)
    BY <1>1, <1>3 DEF KillAsked
<1>4. CASE \E u \in Sessions : KillEnds(u)
    BY <1>1, <1>4 DEF KillEnds
<1>5. CASE UNCHANGED vars
    BY <1>2, <1>5 DEF vars
<1>6. CASE Lists \/ Asks
    BY <1>2, <1>6
    DEF Lists, Tick, ListTaken, PassFails, PassApplied, Asks, CreateStartsFeed,
        PrepareMachine, StartsFeed, KeystrokeReopens
<1>7. CASE Opens \/ Timers \/ Connections
    BY <1>2, <1>7
    DEF Opens, PrecheckEnds, ClientStarts, Timers, RetryFires, GreetingTimesOut,
        Connections, Greets, Drops, SshEnds, DropsFeed, SessionsChanged
<1>8. CASE RetireRoute \/ World \/ \E u \in Sessions : RemoveRow(u)
    BY <1>2, <1>8
    DEF RetireRoute, RemoveRow, World, LinkCut, LinkBack, Wakes, FarServerDies, FarSpawns,
        FarEnds, FarMoves, FarElsewhere
<1> QED BY <1>3, <1>4, <1>5, <1>6, <1>7, <1>8 DEF Next, Person

(* An End sent while the rows are of the connection in the map, and that one is to the
   server that is there, hangs up no session but the row's own. remoteKill checks
   neither; with the first, which a scroll checks, what would be left is the time until
   the loss of a connection is noticed, since an End travels by an exec of its own. *)
THEOREM KillReachesListedAlways == Spec => [][KillListed]_vars
<1>1. IInv /\ [Next]_vars => [KillListed]_vars
    <2> SUFFICES ASSUME IInv, [Next]_vars, NEW s \in Sessions, NEW t \in Sessions,
                        kill[s] = 0, kill'[s] # 0, RowsAreOfConnection,
                        far.holds[t] = kill'[s]
                 PROVE  t = s
        BY DEF KillListed
    <2>1. kill'[s] = feed.rows[s]
        BY KillIsListed DEF IInv
    <2>2. Means(far, feed.rows)
        BY DEF IInv, OwnInv, Known, RowsAreOfConnection
    <2> QED BY <2>1, <2>2 DEF Means
<1> QED BY <1>1, FeedInvariant, PTL DEF Spec
-----------------------------------------------------------------------------
(* A machine that was started is fed *)

\* A start answers to no route to come; one that has not opened yet has made no client.
StartInv ==
    \A i \in Starts :
        /\ start[i].route <= routeEpoch
        /\ start[i].at \in {"none", "prechecking"} => client[i].at \in {"none", "dead"}

\* Besides, a connection in the map is never taken for one while nothing feeds.
MapFed == Greeted(inMap) => feed.timer \/ feed.onControl

FedInv == AlwaysFed /\ MapFed /\ StartInv

LEMMA FedInit == Init => FedInv
<1> SUFFICES ASSUME Init PROVE FedInv
    OBVIOUS
<1>1. start = [i \in Starts |-> [at |-> "none", kind |-> "feed", route |-> 0]]
    BY DEF Init
<1>2. client = [c \in Clients |-> NoClient] /\ inMap = None /\ routeEpoch = 0
    BY DEF Init
<1>3. ~feed.onControl /\ ~feed.timer
    <2>1. feed = [timer |-> FALSE, onControl |-> FALSE, controlEpoch |-> 0,
                  rowsEpoch |-> 0, rows |-> Nothing, gone |-> {}, answering |-> FALSE,
                  everAnswered |-> FALSE, last |-> "none", feedEpoch |-> 0]
        BY DEF Init
    <2> QED BY <2>1
<1>4. AlwaysFed
    BY <1>1, <1>3 DEF AlwaysFed
<1>5. MapFed /\ StartInv
    BY <1>1, <1>2 DEF MapFed, Greeted, StartInv, NoClient, Clients
<1> QED BY <1>4, <1>5 DEF FedInv

\* A poll asks for a list; timer and connection are those of the feed polled.
LEMMA PollsFed ==
    ASSUME NEW f \in Feeds, NEW r, Polls(f, r)
    PROVE  feed'.timer = f.timer /\ feed'.onControl = f.onControl
<1>1. feed' = f \/ feed' = Quieted(f)
    BY DEF Polls
<1> QED BY <1>1 DEF Quieted, Feeds

\* What is done to a feed here and there.
LEMMA FeedParts ==
    ASSUME NEW f \in Feeds
    PROVE  /\ Quieted(f).timer = f.timer /\ Quieted(f).onControl = f.onControl
           /\ ArmTimer(f).timer = ~f.onControl /\ ArmTimer(f).onControl = f.onControl
           /\ ~Lost(f).onControl /\ Lost(f).timer = TRUE
           /\ Connected(f).onControl = TRUE /\ ~Connected(f).timer
           /\ f.timer \in BOOLEAN /\ f.onControl \in BOOLEAN
<1>1. Quieted(f).timer = f.timer /\ Quieted(f).onControl = f.onControl
    BY DEF Quieted, Feeds
<1>2. ArmTimer(f).timer = ~f.onControl /\ ArmTimer(f).onControl = f.onControl
    BY DEF ArmTimer, Feeds
<1>3. ~Lost(f).onControl /\ Lost(f).timer = TRUE
    BY DEF Lost, ArmTimer, Quieted, Feeds
<1>4. Connected(f).onControl = TRUE /\ ~Connected(f).timer
    BY DEF Connected, Feeds
<1>5. f.timer \in BOOLEAN /\ f.onControl \in BOOLEAN
    BY DEF Feeds
<1> QED BY <1>1, <1>2, <1>3, <1>4, <1>5

FedStays == feed'.timer = feed.timer /\ feed'.onControl = feed.onControl

\* A step that leaves the starts and the connections, and what feeds.
LEMMA FedKept ==
    ASSUME FedInv, FedStays, UNCHANGED <<start, client, inMap, routeEpoch>>
    PROVE  FedInv'
BY DEF FedInv, AlwaysFed, MapFed, StartInv, FedStays, Greeted

\* A start that is through polls a feed that has its timer, or a connection.
LEMMA ThroughFed ==
    ASSUME TypeInv, FedInv, NEW f \in Feeds,
           f.timer = feed.timer, f.onControl = feed.onControl,
           Polls(IF Greeted(inMap) \/ f.timer THEN f ELSE ArmTimer(f), recorded)
    PROVE  /\ feed'.onControl = feed.onControl
           /\ feed'.timer \/ feed'.onControl
           /\ ~(feed'.timer /\ feed'.onControl)
<1>1. CASE Greeted(inMap) \/ f.timer
    <2>1. Polls(f, recorded)
        BY <1>1
    <2>2. feed'.timer = feed.timer /\ feed'.onControl = feed.onControl
        BY <2>1, PollsFed
    <2> QED BY <1>1, <2>2 DEF FedInv, AlwaysFed, MapFed
<1>2. CASE ~(Greeted(inMap) \/ f.timer)
    <2>1. Polls(ArmTimer(f), recorded)
        BY <1>2
    <2>2. ArmTimer(f) \in Feeds
        BY QuietedType
    <2>3. feed'.timer = ArmTimer(f).timer /\ feed'.onControl = ArmTimer(f).onControl
        BY <2>1, <2>2, PollsFed
    <2> QED BY <2>3, FeedParts
<1> QED BY <1>1, <1>2

\* The start of a feed up to its first await.
LEMMA StartsFeedFed ==
    ASSUME TypeInv, FedInv, NEW i \in Starts, StartsFeed(i)
    PROVE  FedInv'
<1> DEFINE f == [feed EXCEPT !.feedEpoch = routeEpoch]
<1>1. f \in Feeds /\ f.timer = feed.timer /\ f.onControl = feed.onControl
    BY FeedTyped DEF Feeds, TypeInv, TypeOK
<1> HIDE DEF f
<1>2. UNCHANGED <<client, inMap, routeEpoch>>
    BY StartsFeedFrame
<1>3. start[i].at = "none" /\ client[i].at \in {"none", "dead"}
    BY DEF StartsFeed, IsNextStart, FedInv, StartInv
<1>4. PICK at : Begun(i, "feed", at)
    BY DEF StartsFeed
<1>5. /\ \A j \in Starts \ {i} : start'[j] = start[j]
      /\ start'[i] = [at |-> at, kind |-> "feed", route |-> routeEpoch]
    BY <1>4 DEF Begun, TypeInv, TypeOK
<1>6. StartInv'
    <2>1. routeEpoch \in Nat
        BY Bounds DEF TypeInv, TypeOK, Routes
    <2> QED BY <1>2, <1>3, <1>5, <2>1 DEF FedInv, StartInv
<1>7. CASE Polls(IF Greeted(inMap) \/ f.timer THEN f ELSE ArmTimer(f), recorded)
    <2>1. /\ feed'.onControl = feed.onControl /\ (feed'.timer \/ feed'.onControl)
          /\ ~(feed'.timer /\ feed'.onControl)
        BY <1>1, <1>7, ThroughFed
    <2> QED BY <1>2, <1>6, <2>1 DEF FedInv, AlwaysFed, MapFed, Greeted
<1>8. CASE feed' = f /\ Begun(i, "feed", "prechecking")
    <2>1. start'[i].at = "prechecking"
        BY <1>8 DEF Begun, TypeInv, TypeOK
    <2> QED
        BY <1>1, <1>2, <1>5, <1>6, <1>8, <2>1 DEF FedInv, AlwaysFed, MapFed, Greeted
<1> QED BY <1>7, <1>8 DEF StartsFeed, f

LEMMA FedAsks ==
    ASSUME TypeInv, FedInv, NEW i \in Starts,
           CreateStartsFeed(i) \/ PrepareMachine(i) \/ KeystrokeReopens(i)
    PROVE  FedInv'
<1>1. CASE CreateStartsFeed(i) \/ PrepareMachine(i)
    BY <1>1, StartsFeedFed DEF CreateStartsFeed, PrepareMachine
<1>2. CASE KeystrokeReopens(i)
    <2>1. UNCHANGED <<feed, client, inMap, routeEpoch>>
        BY <1>2 DEF KeystrokeReopens, routeVars, rowVars, clientVars
    <2>2. /\ start'[i].at = "prechecking" /\ start'[i].route = routeEpoch
          /\ \A j \in Starts \ {i} : start'[j] = start[j]
        BY <1>2 DEF KeystrokeReopens, Begun, TypeInv, TypeOK
    <2>3. start[i].at = "none" /\ routeEpoch \in Nat
        BY <1>2, Bounds DEF KeystrokeReopens, IsNextStart, TypeInv, TypeOK, Routes
    <2>4. StartInv'
        BY <2>1, <2>2, <2>3 DEF FedInv, StartInv
    <2> QED BY <2>1, <2>2, <2>4 DEF FedInv, AlwaysFed, MapFed, Greeted
<1> QED BY <1>1, <1>2

\* A start of this route that ends leaves a feed; one of another changes none.
LEMMA GoesOnFed ==
    ASSUME TypeInv, FedInv, NEW i \in Starts, FeedGoesOn(i, feed),
           start' = [start EXCEPT ![i].at = "done"], UNCHANGED routeEpoch
    PROVE  /\ feed'.onControl = feed.onControl
           /\ ~(feed'.timer /\ feed'.onControl)
           /\ (feed.timer \/ feed.onControl) => (feed'.timer \/ feed'.onControl)
           /\ (\E j \in Starts : start'[j].at = "done" /\ start'[j].kind = "feed"
                                     /\ start'[j].route = routeEpoch')
                  => (feed'.timer \/ feed'.onControl)
<1>1. feed \in Feeds
    BY FeedTyped
<1>2. /\ start'[i].kind = start[i].kind /\ start'[i].route = start[i].route
      /\ \A j \in Starts \ {i} : start'[j] = start[j]
    BY DEF TypeInv, TypeOK
<1>3. CASE start[i].kind = "key" \/ start[i].route # routeEpoch
    <2>1. feed' = feed
        BY <1>3 DEF FeedGoesOn
    <2> QED BY <1>2, <1>3, <2>1 DEF FedInv, AlwaysFed
<1>4. CASE ~(start[i].kind = "key" \/ start[i].route # routeEpoch)
    <2>1. Polls(IF Greeted(inMap) \/ feed.timer THEN feed ELSE ArmTimer(feed), recorded)
        BY <1>4 DEF FeedGoesOn
    <2> QED BY <1>1, <2>1, ThroughFed
<1> QED BY <1>3, <1>4

LEMMA FedOpens ==
    ASSUME TypeInv, FedInv, NEW i \in Starts, PrecheckEnds(i) \/ ClientStarts(i)
    PROVE  FedInv'
<1>1. /\ start \in [Starts -> StartStates] /\ client \in [Starts -> ClientStates]
      /\ routeEpoch' = routeEpoch
    BY DEF TypeInv, TypeOK, StartStates, Clients, PrecheckEnds, ClientStarts
<1>2. CASE PrecheckEnds(i)
    <2>1. start[i].at = "prechecking" /\ client[i].at \in {"none", "dead"}
        BY <1>2 DEF PrecheckEnds, FedInv, StartInv
    <2>2. CASE link /\ far.up /\ start[i].route = routeEpoch
        <3>1. /\ start' = [start EXCEPT ![i].at = "starting"]
              /\ client' = [client EXCEPT ![i].at = "checking", ![i].heard = TRUE]
              /\ inMap' = i /\ feed' = feed
            BY <1>2, <2>2 DEF PrecheckEnds, rowVars
        <3>2. /\ start'[i].at = "starting" /\ start'[i].route = start[i].route
              /\ client'[i].at = "checking"
              /\ \A j \in Starts \ {i} : start'[j] = start[j] /\ client'[j] = client[j]
            BY <1>1, <3>1 DEF StartStates, ClientStates
        <3> QED
            BY <1>1, <2>1, <3>1, <3>2
            DEF FedInv, AlwaysFed, MapFed, StartInv, Greeted, Clients
    <2>3. CASE ~(link /\ far.up /\ start[i].route = routeEpoch)
        <3>1. /\ start' = [start EXCEPT ![i].at = "done"] /\ FeedGoesOn(i, feed)
              /\ client' = client /\ inMap' = inMap
            BY <1>2, <2>3 DEF PrecheckEnds
        <3>2. /\ start'[i].at = "done" /\ start'[i].route = start[i].route
              /\ \A j \in Starts \ {i} : start'[j] = start[j]
            BY <1>1, <3>1 DEF StartStates
        <3>3. StartInv'
            BY <1>1, <3>1, <3>2 DEF FedInv, StartInv
        <3> QED
            BY <1>1, <3>1, <3>3, GoesOnFed DEF FedInv, AlwaysFed, MapFed, Greeted
    <2> QED BY <2>2, <2>3
<1>3. CASE ClientStarts(i)
    <2>1. client[i].at = "checking" /\ inMap' = inMap
        BY <1>3 DEF ClientStarts
    <2>2. /\ client'[i].at \in {"child", "dead", "retry"}
          /\ \A j \in Starts \ {i} : client'[j] = client[j]
        BY <1>1, <1>3 DEF ClientStarts, ClientStates
    <2>3. start[i].at \notin {"none", "prechecking"}
        BY <2>1 DEF FedInv, StartInv
    <2>4. Greeted(inMap)' => Greeted(inMap)
        BY <1>1, <2>1, <2>2 DEF Greeted, TypeInv, TypeOK, Clients
    <2>5. feed.onControl => \E c \in Clients : Greeted(c)' /\ client'[c].heard
        BY <2>1, <2>2 DEF FedInv, AlwaysFed, Greeted, Clients
    <2>6. CASE start[i].at = "starting"
        <3>1. start' = [start EXCEPT ![i].at = "done"] /\ FeedGoesOn(i, feed)
            BY <1>3, <2>6 DEF ClientStarts
        <3>2. /\ start'[i].at = "done" /\ start'[i].route = start[i].route
              /\ \A j \in Starts \ {i} : start'[j] = start[j]
            BY <1>1, <3>1 DEF StartStates
        <3>3. StartInv'
            BY <1>1, <2>2, <3>2 DEF FedInv, StartInv
        <3> QED
            BY <1>1, <2>4, <2>5, <3>1, <3>3, GoesOnFed DEF FedInv, AlwaysFed, MapFed, Greeted
    <2>7. CASE start[i].at # "starting"
        <3>1. start' = start /\ feed' = feed
            BY <1>3, <2>7 DEF ClientStarts, rowVars
        <3>2. StartInv'
            BY <1>1, <2>2, <2>3, <3>1 DEF FedInv, StartInv
        <3> QED
            BY <1>1, <2>4, <2>5, <3>1, <3>2 DEF FedInv, AlwaysFed, MapFed, Greeted
    <2> QED BY <2>6, <2>7
<1> QED BY <1>2, <1>3

\* One client that was there moves on, unheard, and the feed stays as it was.
LEMMA UnheardFed ==
    ASSUME TypeInv, ClientInv, FedInv, NEW c \in Clients,
           ~client[c].heard, client[c].at \notin {"none", "dead"},
           \A d \in Clients \ {c} : client'[d] = client[d],
           UNCHANGED <<start, feed, inMap, routeEpoch>>
    PROVE  FedInv'
<1>1. inMap # c
    BY DEF ClientInv, None, Clients, Starts
<1>2. inMap = None \/ inMap \in Clients \ {c}
    BY <1>1 DEF TypeInv, TypeOK
<1>3. start[c].at \notin {"none", "prechecking"}
    BY DEF FedInv, StartInv, Clients
<1>4. Greeted(inMap)' => Greeted(inMap)
    BY <1>2 DEF Greeted
<1>5. feed.onControl => \E d \in Clients : Greeted(d)' /\ client'[d].heard
    BY DEF FedInv, AlwaysFed, Greeted
<1>6. StartInv'
    BY <1>3 DEF FedInv, StartInv, Clients
<1> QED BY <1>4, <1>5, <1>6 DEF FedInv, AlwaysFed, MapFed, Greeted

\* The connection is gone and the timer armed.
LEMMA LostFed ==
    ASSUME TypeInv, FedInv, NEW f \in Feeds, feed' = Lost(f),
           UNCHANGED <<start, routeEpoch>>,
           \A c \in Clients : client[c].at \in {"none", "dead"}
                                  => client'[c].at \in {"none", "dead"}
    PROVE  FedInv'
<1>1. ~feed'.onControl /\ feed'.timer
    BY FeedParts
<1>2. StartInv'
    BY DEF FedInv, StartInv, Clients
<1> QED BY <1>1, <1>2 DEF FedInv, AlwaysFed, MapFed, Greeted

LEMMA FedRetries ==
    ASSUME TypeInv, FedInv, NEW c \in Clients, RetryFires(c)
    PROVE  FedInv'
<1>1. client \in [Clients -> ClientStates]
    BY DEF TypeInv, TypeOK
<1>2. client[c].at = "retry" /\ UNCHANGED <<feed, routeEpoch, start, inMap>>
    BY DEF RetryFires, rowVars, routeVars
<1>3. client'[c].at = "checking" /\ \A d \in Clients \ {c} : client'[d] = client[d]
    BY <1>1 DEF RetryFires, ClientStates
<1>4. inMap \in Clients \cup {None}
    BY DEF TypeInv, TypeOK
<1>5. start[c].at \notin {"none", "prechecking"}
    BY <1>2 DEF FedInv, StartInv, Clients
<1>6. StartInv'
    BY <1>2, <1>3, <1>5 DEF FedInv, StartInv, Clients
<1> QED BY <1>2, <1>3, <1>4, <1>6 DEF FedInv, AlwaysFed, MapFed, Greeted

LEMMA FedGreets ==
    ASSUME TypeInv, ClientInv, FedInv, NEW c \in Clients, Greets(c)
    PROVE  FedInv'
<1>1. client \in [Clients -> ClientStates] /\ feed \in Feeds
    BY DEF TypeInv, TypeOK
<1>2. client[c].at = "child" /\ UNCHANGED <<routeEpoch, start, inMap>>
    BY DEF Greets
<1>3. client' = [client EXCEPT ![c].at = "greeted", ![c].server = far'.server]
    BY DEF Greets
<1>4. /\ client'[c].at = "greeted" /\ client'[c].heard = client[c].heard
      /\ \A d \in Clients \ {c} : client'[d] = client[d]
    BY <1>1, <1>3 DEF ClientStates
<1>5. CASE client[c].heard
    <2>1. Polls(Connected(feed), recorded)
        BY <1>5 DEF Greets
    <2>2. Connected(feed) \in Feeds
        <3>1. feed.controlEpoch + 1 \in Nat
            BY <1>1 DEF Feeds
        <3> QED BY <1>1, <3>1 DEF Connected, Feeds
    <2>3. feed'.onControl = TRUE /\ ~feed'.timer
        BY <1>1, <2>1, <2>2, PollsFed, FeedParts
    <2>4. start[c].at \notin {"none", "prechecking"}
        BY <1>2 DEF FedInv, StartInv, Clients
    <2>5. StartInv'
        BY <1>2, <1>4, <2>4 DEF FedInv, StartInv, Clients
    <2>6. Greeted(c)' /\ client'[c].heard
        BY <1>4, <1>5 DEF Greeted, None, Clients, Starts
    <2> QED BY <2>3, <2>5, <2>6 DEF FedInv, AlwaysFed, MapFed
<1>6. CASE ~client[c].heard
    <2>1. feed' = feed
        BY <1>6 DEF Greets, rowVars
    <2> QED BY <1>2, <1>4, <1>6, <2>1, UnheardFed
<1> QED BY <1>5, <1>6

LEMMA FedDrops ==
    ASSUME TypeInv, ClientInv, FedInv, NEW c \in Clients, DropsFeed(c)
    PROVE  FedInv'
<1>1. client \in [Clients -> ClientStates] /\ feed \in Feeds
    BY DEF TypeInv, TypeOK
<1>2. /\ client[c].at \in {"child", "greeted"}
      /\ UNCHANGED <<routeEpoch, start, inMap>>
      /\ client' = [client EXCEPT ![c] = AfterDrop(@)]
    BY DEF DropsFeed, routeVars
<1>3. \A d \in Clients \ {c} : client'[d] = client[d]
    BY <1>1, <1>2
<1>4. CASE client[c].heard
    <2>1. feed' = Lost(feed)
        BY <1>4 DEF DropsFeed
    <2> QED BY <1>1, <1>2, <1>3, <2>1, LostFed
<1>5. CASE ~client[c].heard
    <2>1. feed' = feed
        BY <1>5 DEF DropsFeed, rowVars
    <2> QED BY <1>2, <1>3, <1>5, <2>1, UnheardFed
<1> QED BY <1>4, <1>5

LEMMA FedTimesOut ==
    ASSUME TypeInv, ClientInv, FedInv, NEW c \in Clients, GreetingTimesOut(c)
    PROVE  FedInv'
<1>1. client \in [Clients -> ClientStates] /\ feed \in Feeds
    BY DEF TypeInv, TypeOK
<1>2. client[c].at = "child" /\ UNCHANGED <<routeEpoch, start>>
    BY DEF GreetingTimesOut, routeVars
<1>3. CASE client[c].heard
    <2>1. feed' = Lost(feed)
        BY <1>3 DEF GreetingTimesOut, TakenAway
    <2>2. client' = [d \in Clients |->
                   IF d = inMap THEN Stopped(client[d])
                   ELSE IF d = c THEN AfterDrop(client[d]) ELSE client[d]]
        BY <1>3 DEF GreetingTimesOut
    <2>3. ASSUME NEW d \in Clients, client[d].at \in {"none", "dead"}
          PROVE  client'[d].at \in {"none", "dead"}
        <3>1. client[d] \in ClientStates /\ d # c
            BY <1>1, <1>2, <2>3
        <3>2. client'[d] = Stopped(client[d]) \/ client'[d] = client[d]
            BY <2>2, <3>1
        <3> QED BY <2>3, <3>1, <3>2 DEF Stopped, ClientStates
    <2> QED BY <1>1, <1>2, <2>1, <2>3, LostFed
<1>4. CASE ~client[c].heard
    <2>1. /\ client' = [client EXCEPT ![c] = AfterDrop(@)]
          /\ UNCHANGED <<inMap, feed>>
        BY <1>4 DEF GreetingTimesOut, rowVars
    <2>2. \A d \in Clients \ {c} : client'[d] = client[d]
        BY <1>1, <2>1
    <2> QED BY <1>2, <1>4, <2>1, <2>2, UnheardFed
<1> QED BY <1>3, <1>4

\* The starts so far were of the route that is retired, which nothing feeds any more.
LEMMA FedRetired ==
    ASSUME TypeInv, FedInv, RetireRoute
    PROVE  FedInv'
<1>1. client \in [Clients -> ClientStates] /\ feed \in Feeds
    BY DEF TypeInv, TypeOK
<1>2. routeEpoch \in Nat /\ \A i \in Starts : start[i].route \in Nat
    BY Bounds DEF TypeInv, TypeOK, Routes
<1>3. /\ routeEpoch' = routeEpoch + 1 /\ inMap' = None /\ start' = start
      /\ client' = [c \in Clients |-> IF c = inMap THEN Stopped(client[c]) ELSE client[c]]
    BY DEF RetireRoute
<1>4. ~feed'.timer /\ ~feed'.onControl
    <2>1. feed' = Quieted([feed EXCEPT !.timer = FALSE, !.onControl = FALSE])
        BY DEF RetireRoute
    <2> QED BY <1>1, <2>1 DEF Quieted, Feeds
<1>5. ASSUME NEW c \in Clients, client[c].at \in {"none", "dead"}
      PROVE  client'[c].at \in {"none", "dead"}
    BY <1>1, <1>3, <1>5 DEF Stopped, ClientStates
<1>6. \A i \in Starts : start[i].route <= routeEpoch
    BY DEF FedInv, StartInv
<1>7. StartInv'
    BY <1>2, <1>3, <1>5, <1>6 DEF FedInv, StartInv, Clients
<1>8. \A i \in Starts : start'[i].route # routeEpoch'
    BY <1>2, <1>3, <1>6
<1> QED BY <1>3, <1>4, <1>7, <1>8 DEF FedInv, AlwaysFed, MapFed, Greeted

\* A poll of a feed like this one, and a list, come to the same.
LEMMA StaysByPoll ==
    ASSUME TypeInv, NEW f \in Feeds, NEW r,
           f.timer = feed.timer, f.onControl = feed.onControl, Polls(f, r)
    PROVE  FedStays
BY PollsFed DEF FedStays

LEMMA FedLists ==
    ASSUME TypeInv, FedInv, Lists
    PROVE  FedInv'
<1>1. feed \in Feeds
    BY FeedTyped
<1>2. CASE Tick
    <2>1. Polls(feed, recorded) /\ UNCHANGED <<start, client, inMap, routeEpoch>>
        BY <1>2 DEF Tick, clientVars
    <2> QED BY <1>1, <2>1, StaysByPoll, FedKept
<1>3. CASE \E p \in Passes :
               ListTaken(p) \/ PassFails(p) \/ \E due \in SUBSET Sessions : PassApplied(p, due)
    <2>1. PICK p \in Passes :
              ListTaken(p) \/ PassFails(p) \/ \E due \in SUBSET Sessions : PassApplied(p, due)
        BY <1>3
    <2>2. UNCHANGED <<start, client, inMap, routeEpoch>>
        BY <2>1 DEF ListTaken, PassFails, PassApplied, clientVars, routeVars
    <2>3. feed' = feed \/ feed' = Quieted(feed) \/ feed' = Applied(feed, pass[p])
        BY <2>1 DEF ListTaken, PassFails, PassApplied, rowVars
    <2>4. /\ Applied(feed, pass[p]).timer = feed.timer
          /\ Applied(feed, pass[p]).onControl = feed.onControl
        BY <1>1 DEF Applied, Feeds
    <2>5. Quieted(feed).timer = feed.timer /\ Quieted(feed).onControl = feed.onControl
        BY <1>1, FeedParts
    <2>6. FedStays
        BY <2>3, <2>4, <2>5, Zenon DEF FedStays
    <2> QED BY <2>2, <2>6, FedKept
<1> QED BY <1>2, <1>3 DEF Lists

LEMMA FedPerson ==
    ASSUME TypeInv, FedInv, Person
    PROVE  FedInv'
<1>1. feed \in Feeds
    BY FeedTyped
<1>2. CASE RetireRoute
    BY <1>2, FedRetired
<1>3. CASE \E s \in Sessions : RemoveRow(s) \/ KillAsked(s)
    <2>1. PICK s \in Sessions : RemoveRow(s) \/ KillAsked(s)
        BY <1>3
    <2>2. UNCHANGED <<start, client, inMap, routeEpoch>>
        BY <2>1 DEF RemoveRow, KillAsked, routeVars, clientVars
    <2>3. FedStays
        BY <1>1, <2>1 DEF RemoveRow, KillAsked, rowVars, FedStays, Feeds
    <2> QED BY <2>2, <2>3, FedKept
<1>4. CASE \E s \in Sessions : KillEnds(s)
    <2> PICK s \in Sessions : KillEnds(s)
        BY <1>4
    <2> DEFINE f == [feed EXCEPT !.rows[s] = 0, !.gone = @ \cup {s}]
    <2>1. UNCHANGED <<start, client, inMap, routeEpoch>>
        BY DEF KillEnds, clientVars
    <2>2. Polls(f, recorded) \/ UNCHANGED feed
        BY DEF KillEnds, rowVars
    <2>3. f \in Feeds
        <3>1. [feed.rows EXCEPT ![s] = 0] \in Holds /\ feed.gone \cup {s} \in SUBSET Sessions
            BY FeedTyped, Bounds DEF Feeds, Holds, Ids
        <3>2. f = [feed EXCEPT !.rows = [feed.rows EXCEPT ![s] = 0],
                               !.gone = feed.gone \cup {s}]
            BY FeedTyped DEF Feeds
        <3> QED BY <3>1, <3>2, FeedTyped DEF Feeds
    <2>4. f.timer = feed.timer /\ f.onControl = feed.onControl
        BY <1>1 DEF Feeds
    <2>5. FedStays
        <3> HIDE DEF f
        <3>1. CASE Polls(f, recorded)
            BY <2>3, <2>4, <3>1, StaysByPoll
        <3>2. CASE UNCHANGED feed
            BY <3>2 DEF FedStays
        <3> QED BY <2>2, <3>1, <3>2
    <2> QED BY <2>1, <2>5, FedKept
<1> QED BY <1>2, <1>3, <1>4 DEF Person

LEMMA FedWorld ==
    ASSUME TypeInv, FedInv, World
    PROVE  FedInv'
<1>1. feed \in Feeds
    BY FeedTyped
<1>2. UNCHANGED <<start, client, inMap, routeEpoch>>
    BY DEF World, LinkCut, LinkBack, Wakes, FarServerDies, FarSpawns, FarEnds, FarMoves,
           FarElsewhere, routeVars, clientVars
<1>3. CASE Wakes
    <2>1. Polls(Quieted(feed), QuietRecord(feed, recorded)) /\ Quieted(feed) \in Feeds
        BY <1>1, <1>3, QuietedType DEF Wakes
    <2>2. Quieted(feed).timer = feed.timer /\ Quieted(feed).onControl = feed.onControl
        BY <1>1, FeedParts
    <2> QED BY <1>2, <2>1, <2>2, StaysByPoll, FedKept
<1>4. CASE ~Wakes
    <2>1. FedStays
        BY <1>4 DEF World, LinkCut, LinkBack, FarServerDies, FarSpawns, FarEnds, FarMoves,
           FarElsewhere, rowVars, FedStays
    <2> QED BY <1>2, <2>1, FedKept
<1> QED BY <1>3, <1>4

LEMMA FedConnections ==
    ASSUME TypeInv, ClientInv, FedInv, Connections \/ Timers \/ Opens
    PROVE  FedInv'
<1>1. ASSUME NEW c \in Clients, SessionsChanged(c)
      PROVE  FedInv'
    <2>1. Polls(feed, recorded) /\ feed \in Feeds
        BY <1>1, FeedTyped DEF SessionsChanged
    <2>2. UNCHANGED <<start, client, inMap, routeEpoch>>
        BY <1>1 DEF SessionsChanged, clientVars
    <2> QED BY <2>1, <2>2, StaysByPoll, FedKept
<1> QED
    BY <1>1, FedGreets, FedDrops, FedTimesOut, FedRetries, FedOpens
    DEF Connections, Timers, Opens, Drops, SshEnds

LEMMA FedStep == IInv /\ FedInv /\ [Next]_vars => FedInv'
<1> SUFFICES ASSUME IInv, FedInv, [Next]_vars PROVE FedInv'
    OBVIOUS
<1>1. TypeInv /\ ClientInv
    BY DEF IInv
<1>2. CASE UNCHANGED vars
    <2>1. FedStays /\ UNCHANGED <<start, client, inMap, routeEpoch>>
        BY <1>2 DEF vars, routeVars, rowVars, clientVars, FedStays
    <2> QED BY <2>1, FedKept
<1>3. CASE Next
    BY <1>1, <1>3, FedLists, FedAsks, FedConnections, FedPerson, FedWorld
    DEF Next, Asks
<1> QED BY <1>2, <1>3

(* A machine whose feed was started keeps a feed, and never two: whatever order its
   starts, greetings, losses and confirms of details come in, the fallback timer is
   armed whenever no connection that would say when it is lost feeds. *)
THEOREM AlwaysFedAlways == Spec => []AlwaysFed
<1>1. Init => IInv /\ FedInv
    BY InvInit, FedInit
<1>2. (IInv /\ FedInv) /\ [Next]_vars => (IInv /\ FedInv)'
    BY InvStep, FedStep
<1>3. IInv /\ FedInv => AlwaysFed
    BY DEF FedInv
<1> QED BY <1>1, <1>2, <1>3, PTL DEF Spec

=============================================================================
