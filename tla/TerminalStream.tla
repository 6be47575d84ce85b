--------------------------- MODULE TerminalStream ---------------------------
(***************************************************************************)
(* One session's terminal: the pane that shows it, the two queues of       *)
(* messages between its window and the main process, the attach calls that *)
(* wait for a list, and the attach client, a PTY running `tmux attach`,    *)
(* with its batching and its flow control (src/main/attach/attach-host.ts, *)
(* attachSession of sessions/core.ts, renderer/terminal/TerminalPane.tsx). *)
(*                                                                         *)
(* Bytes are counted in units, so the watermarks are small numbers.  A     *)
(* message of a queue arrives in its order; the handler of each runs to    *)
(* its first await in one step, as JavaScript does.                        *)
(***************************************************************************)
EXTENDS Naturals, Sequences, FiniteSets

CONSTANTS
    High,        \* HIGH_WATERMARK_BYTES
    Low,         \* LOW_WATERMARK_BYTES
    FlushNow,    \* FLUSH_NOW_BYTES
    MaxMounts,   \* bound: mounts of the pane
    MaxWindows,  \* bound: windows opened, one after the other
    MaxPrints,   \* bound: units of output
    MaxFailures  \* bound: spawns that fail

ASSUME WatermarksAssumption ==
    /\ Low \in Nat \ {0}
    /\ High \in Nat
    /\ FlushNow \in Nat
    /\ Low <= High
    /\ High <= FlushNow
ASSUME BoundsAssumption ==
    /\ MaxMounts \in Nat
    /\ MaxWindows \in Nat \ {0}
    /\ MaxPrints \in Nat
    /\ MaxFailures \in Nat

VARIABLES
    far,        \* the session runs on another machine
    bridge,     \* the preload forwards acknowledgements
    window,     \* the window that is open
    pane,       \* its pane for the session: which mount, and how far it is
    toMain,     \* messages of the window on their way to the main process
    toPage,     \* messages of the main process on their way to the window
    taken,      \* attach calls begun, each with its ticket
    ticket,     \* the ticket that holds; 0 if none
    calls,      \* attach calls that wait for a list
    spawned,    \* clients spawned
    client,     \* the attach clients
    current,    \* the host's client for the session; 0 if none
    session,    \* whether the session runs
    quit,       \* how far the quit is
    prints, failures

windowVars == <<window, pane, toMain, toPage>>
callVars == <<taken, ticket, calls>>
hostVars == <<spawned, client, current>>
vars == <<far, bridge, windowVars, callVars, hostVars, session, quit, prints, failures>>

None == 0
Clients == 1..MaxMounts      \* an attach spawns one client at most
Windows == 1..MaxWindows
Mounts == 0..MaxMounts

Calls == [ticket : Nat, mount : Mounts, window : Windows]
ToMain == [kind : {"attach"}, mount : Mounts] \cup [kind : {"detach"}]
              \cup [kind : {"ack"}, of : Clients, bytes : 1..FlushNow]
ToPage == [kind : {"data"}, of : Clients, bytes : 1..FlushNow] \cup [kind : {"exit"}]
Flows == [at : {"unborn", "live", "hungup", "gone"}, window : Windows,
          pending : 0..(FlushNow - 1), unacked : Nat, paused : BOOLEAN,
          heard : BOOLEAN, grace : BOOLEAN, free : BOOLEAN, owed : Nat]

TypeOK ==
    /\ far \in BOOLEAN
    /\ bridge \in BOOLEAN
    /\ window \in Windows
    /\ pane \in [mount : Mounts,
                 at : {"none", "mounted", "asked", "answered", "overlay"}]
    /\ toMain \in Seq(ToMain)
    /\ toPage \in Seq(ToPage)
    /\ taken \in Nat
    /\ ticket \in 0..taken
    /\ calls \subseteq Calls
    /\ spawned \in 0..MaxMounts
    /\ client \in [Clients -> Flows]
    /\ current \in Clients \cup {None}
    /\ session \in {"running", "over"}
    /\ quit \in {"no", "begun", "disposed"}
    /\ prints \in 0..MaxPrints
    /\ failures \in 0..MaxFailures

\* What is left of a client that is cleaned up, or not there yet.
Flow(at) == [at |-> at, window |-> 1, pending |-> 0, unacked |-> 0, paused |-> FALSE,
             heard |-> FALSE, grace |-> FALSE, free |-> FALSE, owed |-> 0]

Init ==
    /\ far \in BOOLEAN
    /\ bridge \in BOOLEAN
    /\ window = 1
    /\ pane = [mount |-> 0, at |-> "none"]
    /\ toMain = <<>>
    /\ toPage = <<>>
    /\ taken = 0
    /\ ticket = 0
    /\ calls = {}
    /\ spawned = 0
    /\ client = [c \in Clients |-> Flow("unborn")]
    /\ current = None
    /\ session = "running"
    /\ quit = "no"
    /\ prints = 0
    /\ failures = 0

-----------------------------------------------------------------------------
(* The queues *)

\* Units of the messages of a queue that are of some of the clients: which message,
\* and which of its units.  No batch is of more than FlushNow.
Units(queue, of) ==
    {u \in (1..Len(queue)) \X (1..FlushNow) :
        /\ queue[u[1]].kind \in {"data", "ack"}
        /\ queue[u[1]].of \in of
        /\ u[2] <= queue[u[1]].bytes}

Bytes(queue, of) == Cardinality(Units(queue, of))

\* The units a set of clients has sent and not heard of, dropped ones aside.
OnTheWay(of) == Bytes(toPage, of) + Bytes(toMain, of)

\* The page subscribes to the stream as it mounts, before it asks for the attach.
Subscribed == pane.at # "none"

-----------------------------------------------------------------------------
(* The page *)

Mount ==
    /\ pane.at = "none"
    /\ pane.mount < MaxMounts
    /\ pane' = [mount |-> pane.mount + 1, at |-> "mounted"]
    /\ UNCHANGED <<far, bridge, window, toMain, toPage, callVars, hostVars, session,
                   quit, prints, failures>>

\* The fonts are loaded.
AsksForAttach ==
    /\ pane.at = "mounted"
    /\ pane' = [pane EXCEPT !.at = "asked"]
    /\ toMain' = Append(toMain, [kind |-> "attach", mount |-> pane.mount])
    /\ UNCHANGED <<far, bridge, window, toPage, callVars, hostVars, session, quit,
                   prints, failures>>

\* The clean-up of the effect, for another session or for Reconnect.
Unmount ==
    /\ pane.at # "none"
    /\ pane' = [pane EXCEPT !.at = "none"]
    /\ toMain' = Append(toMain, [kind |-> "detach"])
    /\ UNCHANGED <<far, bridge, window, toPage, callVars, hostVars, session, quit,
                   prints, failures>>

\* The page is replaced without its clean-up; the window stays.
Reload ==
    /\ pane.at # "none"
    /\ pane' = [pane EXCEPT !.at = "none"]
    /\ toPage' = <<>>
    /\ UNCHANGED <<far, bridge, window, toMain, callVars, hostVars, session, quit,
                   prints, failures>>

\* A chunk is written to the terminal, which acknowledges it, or is lost.
PageReads ==
    /\ toPage # <<>>
    /\ toPage' = Tail(toPage)
    /\ LET msg == Head(toPage) IN
       \/ /\ msg.kind = "data"
          /\ toMain' = IF Subscribed /\ bridge
                       THEN Append(toMain, [msg EXCEPT !.kind = "ack"])
                       ELSE toMain
          /\ UNCHANGED pane
       \/ /\ msg.kind = "exit"
          /\ pane' = IF pane.at = "none" THEN pane ELSE [pane EXCEPT !.at = "overlay"]
          /\ UNCHANGED toMain
    /\ UNCHANGED <<far, bridge, window, callVars, hostVars, session, quit, prints,
                   failures>>

-----------------------------------------------------------------------------
(* The attach host *)

\* detach: the PTY is hung up, and whatever it still prints is nobody's.
Detached == [c \in Clients |-> IF c = current THEN Flow("hungup") ELSE client[c]]

HostDetach ==
    /\ client' = Detached
    /\ current' = None
    /\ UNCHANGED spawned

\* attach: the client there is makes room first, then the PTY is spawned, or is not.
HostAttach(w) ==
    LET c == spawned + 1 IN
    /\ spawned < MaxMounts
    /\ spawned' = c
    /\ client' = [Detached EXCEPT ![c] =
                    [Flow("live") EXCEPT !.window = w, !.owed = OnTheWay(Clients)]]
    /\ current' = c

SpawnFails ==
    /\ failures < MaxFailures
    /\ failures' = failures + 1
    /\ HostDetach

\* Mistake: the watermark is compared with the count before the batch is added.
CountedLate(f) ==
    LET stops == ~f.paused /\ f.unacked > High
    IN IF f.free THEN [f EXCEPT !.pending = 0]
       ELSE [f EXCEPT !.pending = 0, !.unacked = @ + f.pending,
                      !.paused = @ \/ stops,
                      !.grace = @ \/ (stops /\ ~f.heard)]

\* The flow control of a client whose batch has just been sent.
Counted(f) ==
    LET unacked == f.unacked + f.pending
        stops == ~f.paused /\ unacked > High
    IN IF f.free THEN [f EXCEPT !.pending = 0]
       ELSE [f EXCEPT !.pending = 0, !.unacked = unacked,
                      !.paused = @ \/ stops,
                      !.grace = @ \/ (stops /\ ~f.heard)]

\* flush, of a batch that is not empty
Flush(c, f) ==
    IF f.window # window
    THEN HostDetach /\ UNCHANGED toPage
    ELSE /\ toPage' = Append(toPage, [kind |-> "data", of |-> c, bytes |-> f.pending])
         /\ client' = [client EXCEPT ![c] = Counted(f)]
         /\ UNCHANGED <<spawned, current>>

\* onData ends at once for a client that has been cleaned up.
Accepts(c) == client[c].at = "live"

Prints(c) ==
    LET f == [client[c] EXCEPT !.pending = @ + 1] IN
    /\ Accepts(c)
    /\ ~client[c].paused
    /\ prints < MaxPrints
    /\ prints' = prints + 1
    /\ IF f.pending >= FlushNow
       THEN Flush(c, f)
       ELSE /\ client' = [client EXCEPT ![c] = f]
            /\ UNCHANGED <<toPage, spawned, current>>
    /\ UNCHANGED <<far, bridge, window, pane, toMain, callVars, session, quit, failures>>

FlushTimer(c) ==
    /\ client[c].pending > 0
    /\ Flush(c, client[c])
    /\ UNCHANGED <<far, bridge, window, pane, toMain, callVars, session, quit, prints,
                   failures>>

\* The valve: the client paused, and no acknowledgement has ever come.
GraceEnds(c) ==
    /\ client[c].grace
    /\ client' = [client EXCEPT ![c].grace = FALSE, ![c].free = TRUE, ![c].unacked = 0,
                                ![c].paused = FALSE]
    /\ UNCHANGED <<far, bridge, windowVars, callVars, spawned, current, session, quit,
                   prints, failures>>

\* Mistake: the count may fall below what it counts.
AcknowledgedUnclamped(f, bytes) ==
    [f EXCEPT !.heard = TRUE, !.grace = FALSE, !.unacked = @ - bytes,
              !.paused = @ /\ f.unacked - bytes >= Low]

\* Mistake: the count is lowered, and nothing resumes the PTY.
AcknowledgedOnly(f, bytes) ==
    [f EXCEPT !.heard = TRUE, !.grace = FALSE,
              !.unacked = IF bytes > @ THEN 0 ELSE @ - bytes]

\* The page asked for it: term:ack goes by session, whichever client sent the bytes.
Acknowledged(f, bytes) ==
    LET unacked == IF bytes > f.unacked THEN 0 ELSE f.unacked - bytes IN
    [f EXCEPT !.heard = TRUE, !.grace = FALSE, !.unacked = unacked,
              !.paused = @ /\ unacked >= Low]

\* Mistake: an exit takes whatever client is in the map.
AnyClient(c) == TRUE

\* onExit's question: is the client that exits the one in the map?
StillCurrent(c) == c = current

\* The PTY ends: by itself, with its session or without, or as it was told to.
Exits(c) ==
    /\ client[c].at \in {"live", "hungup"}
    /\ LET f == client[c]
           tells == f.at = "live" /\ f.window = window
           notice == IF tells THEN <<[kind |-> "exit"]>> ELSE <<>>
           last == IF StillCurrent(c) /\ f.pending > 0 /\ f.window = window
                   THEN <<[kind |-> "data", of |-> c, bytes |-> f.pending]>> ELSE <<>>
       IN /\ toPage' = toPage \o last \o notice
          /\ session' \in IF f.at = "live" THEN {session, "over"} ELSE {session}
    /\ client' = [client EXCEPT ![c] = Flow("gone")]
    /\ current' = IF StillCurrent(c) THEN None ELSE current
    /\ UNCHANGED <<far, bridge, window, pane, toMain, callVars, spawned, quit, prints,
                   failures>>

-----------------------------------------------------------------------------
(* The core *)

\* Mistake: the tickets are not asked.
WantedByWindow(call) == call.window = window /\ quit = "no"

\* attachStillWanted: no detach and no newer attach since, its window is open,
\* and nobody is quitting.
Wanted(call) == call.ticket = ticket /\ call.window = window /\ quit = "no"

\* Only the wait for another machine asks whether the attach is still wanted.
GoesOn(call) == far => Wanted(call)

\* The answer of the attach call, for the mount that asked if it is still there.
Answer(call, at) ==
    pane' = IF /\ pane = [mount |-> call.mount, at |-> "asked"]
               /\ call.window = window
            THEN [pane EXCEPT !.at = at] ELSE pane

\* The session has its row and its $-id, so the host attaches; or it is over, the
\* machine is not ready, the program cannot be spawned, and the call is refused.
Resolves(call) ==
    \/ /\ session = "running"
       /\ HostAttach(call.window)
       /\ Answer(call, "answered")
       /\ UNCHANGED failures
    \/ /\ session = "running"
       /\ SpawnFails
       /\ Answer(call, "overlay")
    \/ /\ Answer(call, "overlay")
       /\ UNCHANGED <<hostVars, failures>>

\* attachSessionAdmitted, to its end when the session is bound, or to the list.
TakesTicket(call) ==
    /\ taken' = call.ticket
    /\ ticket' = call.ticket
    /\ \/ Resolves(call) /\ UNCHANGED calls
       \/ /\ calls' = calls \cup {call}
          /\ UNCHANGED <<pane, hostVars, failures>>

\* The ledger refuses what comes after the quit began.
Refused(call) == Answer(call, "overlay") /\ UNCHANGED <<callVars, hostVars, failures>>

\* detachSession: the waiting attach first, then the client.
DetachSession ==
    /\ ticket' = 0
    /\ HostDetach
    /\ UNCHANGED <<taken, calls, pane, failures>>

\* The listener of term:ack is the current client's.
Heard(msg) ==
    /\ client' = IF current = None \/ client[current].window # window THEN client
                 ELSE [client EXCEPT ![current] = Acknowledged(@, msg.bytes)]
    /\ UNCHANGED <<pane, callVars, spawned, current, failures>>

MainReads ==
    /\ toMain # <<>>
    /\ toMain' = Tail(toMain)
    /\ LET msg == Head(toMain)
           call == [ticket |-> taken + 1, mount |-> pane.mount, window |-> window]
       IN \/ /\ msg.kind = "attach"
             /\ LET mine == [call EXCEPT !.mount = msg.mount] IN
                IF quit = "no" THEN TakesTicket(mine) ELSE Refused(mine)
          \/ msg.kind = "detach" /\ DetachSession
          \/ msg.kind = "ack" /\ Heard(msg)
    /\ UNCHANGED <<far, bridge, window, toPage, session, quit, prints>>

\* The list came, or the budget of the wait is spent.
WaitEnds(call) ==
    /\ call \in calls
    /\ calls' = calls \ {call}
    /\ IF GoesOn(call) THEN Resolves(call)
       ELSE Answer(call, "answered") /\ UNCHANGED <<hostVars, failures>>
    /\ UNCHANGED <<far, bridge, window, toMain, toPage, taken, ticket, session, quit,
                   prints>>

\* An End, or a reap: the host lets go first, and the window is told of the status.
KillSession ==
    /\ session = "running"
    /\ session' = "over"
    /\ HostDetach
    /\ toPage' = Append(toPage, [kind |-> "exit"])
    /\ UNCHANGED <<far, bridge, window, pane, toMain, callVars, quit, prints, failures>>

\* The window closes: its queues and its pane are gone, and its client with them.
CloseWindow ==
    /\ window < MaxWindows
    /\ window' = window + 1
    /\ pane' = [pane EXCEPT !.at = "none"]
    /\ toMain' = <<>>
    /\ toPage' = <<>>
    /\ IF current # None /\ client[current].window = window
       THEN HostDetach ELSE UNCHANGED hostVars
    /\ UNCHANGED <<far, bridge, callVars, session, quit, prints, failures>>

BeginShutdown ==
    /\ quit = "no"
    /\ quit' = "begun"
    /\ UNCHANGED <<far, bridge, windowVars, callVars, hostVars, session, prints, failures>>

\* The calls admitted have been joined; disposeAll.
Disposes ==
    /\ quit = "begun"
    /\ calls = {}
    /\ quit' = "disposed"
    /\ HostDetach
    /\ UNCHANGED <<far, bridge, windowVars, callVars, session, prints, failures>>

-----------------------------------------------------------------------------

Host(c) == Prints(c) \/ FlushTimer(c) \/ GraceEnds(c) \/ Exits(c)

Person == Mount \/ Unmount \/ Reload \/ CloseWindow \/ KillSession \/ BeginShutdown

\* What the windows still do once the core is disposed of concerns no client.
Next ==
    /\ quit # "disposed"
    /\ \/ Person
       \/ AsksForAttach \/ PageReads \/ MainReads \/ Disposes
       \/ \E call \in calls : WaitEnds(call)
       \/ \E c \in Clients : Host(c)

Spec == Init /\ [][Next]_vars

(* Messages arrive and are handled, timers fire, and the wait for a list ends: a
   list of this Mac by the time limit of its exec, that of another machine by the
   budget of the attach.  Nobody has to print, mount, or quit. *)
Fairness ==
    /\ WF_vars(PageReads)
    /\ WF_vars(MainReads)
    /\ WF_vars(AsksForAttach)
    /\ WF_vars(\E call \in calls : WaitEnds(call))
    /\ \A c \in Clients : WF_vars(FlushTimer(c)) /\ WF_vars(GraceEnds(c))

FairSpec == Spec /\ Fairness

-----------------------------------------------------------------------------
(* Safety *)

(* A PTY nobody told to end is the one the host knows: no order of attach, detach,
   close and late exits leaves a client that streams and that no detach reaches. *)
NoOrphan == \A c \in Clients : client[c].at = "live" => c = current

(* Flow control keeps its bound across a remount: unless the valve opened, what is
   on its way to the page is at most the high watermark and one batch, and what a
   former client had on its way, for whose acknowledgements this one was credited. *)
Backpressure ==
    (bridge /\ current # None /\ ~client[current].free /\ client[current].window = window)
        => Bytes(toPage, {current}) <= High + FlushNow + client[current].owed

(* The pane of a session on another machine whose attach was answered is served: it
   has a client, or the news that it has none is on its way.  No older attach, late
   list or failed spawn takes the client from under it. *)
FarPaneIsServed ==
    (far /\ pane.at = "answered" /\ quit = "no")
        => \/ current # None
           \/ \E k \in 1..Len(toPage) : toPage[k].kind = "exit"

-----------------------------------------------------------------------------
(* Liveness *)

Showing == pane.at = "answered" /\ quit = "no"
Stalled == current # None /\ client[current].paused

(* The terminal never deadlocks: the PTY of a pane that is there to be written to
   does not stay paused, whether or not the preload forwards acknowledgements, and
   whatever acknowledgements of a former client it was credited or not. *)
StreamResumes == (Stalled /\ Showing) ~> ~(Stalled /\ Showing)

=============================================================================
