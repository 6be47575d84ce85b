------------------------ MODULE TerminalStreamProofs ------------------------
(***************************************************************************)
(* Theorems about one session's terminal: the client that streams is the   *)
(* one the host knows, flow control keeps its bound across a remount, and  *)
(* the pane of a session on another machine is served, for any watermarks, *)
(* mounts, windows and output.                                             *)
(***************************************************************************)
EXTENDS TerminalStream, FiniteSetTheorems, SequenceTheorems, TLAPS

\* The host knows the client that lives, and of one that does not nothing is left.
HostInv ==
    /\ \A c \in Clients : client[c].at = "live" <=> c = current
    /\ \A c \in Clients : client[c].at # "live" => client[c] = Flow(client[c].at)

\* How much a client has sent and not heard of: it stops above the watermark, with
\* nothing pending, and goes on below the low one.
FlowInv ==
    \A c \in Clients :
        /\ client[c].paused => client[c].pending = 0
        /\ ~client[c].free =>
               client[c].unacked <= IF client[c].paused THEN High + FlushNow ELSE High

\* The units on their way to the page and back are those the client counts, and those
\* that were on their way when it took its place.
CreditInv ==
    (current # None /\ client[current].window = window /\ ~client[current].free)
        => OnTheWay(Clients) <= client[current].unacked + client[current].owed

\* Attach calls hold different tickets, none of them to come.
TicketInv ==
    /\ \A call \in calls : call.ticket <= taken
    /\ \A call, other \in calls : call.ticket = other.ticket => call = other

OnlyAcks(k) == \A l \in k..Len(toMain) : toMain[l].kind = "ack"

\* The k-th message of the page asks for the attach of the mount there is.
AsksHere(k) == toMain[k].kind = "attach" /\ toMain[k].mount = pane.mount

\* No mount is asked for before it comes, nor twice.
MountInv ==
    /\ \A k \in 1..Len(toMain) : toMain[k].kind = "attach" =>
           /\ toMain[k].mount <= pane.mount
           /\ pane.at = "mounted" => toMain[k].mount # pane.mount
           /\ pane.at = "asked" /\ toMain[k].mount = pane.mount => OnlyAcks(k + 1)
    /\ \A call \in calls :
           /\ call.mount <= pane.mount
           /\ pane.at = "mounted" => call.mount # pane.mount
           /\ (\E k \in 1..Len(toMain) : AsksHere(k)) /\ pane.at = "asked"
                  => call.mount # pane.mount

\* A page that waits for its answer has said nothing since it asked, so that what it
\* waits for holds the ticket; one that has it waits for nothing.
AskedInv ==
    /\ (pane.at = "asked" /\ \A k \in 1..Len(toMain) : ~AsksHere(k)) =>
           /\ OnlyAcks(1)
           /\ \A call \in calls : call.mount = pane.mount =>
                  call.ticket = ticket /\ call.window = window
    /\ pane.at = "answered" =>
           /\ OnlyAcks(1)
           /\ far => \A call \in calls : call.ticket # ticket

\* The client of a session on another machine is of the window that is open.
FarInv ==
    /\ far /\ current # None => client[current].window = window
    /\ FarPaneIsServed

PaneInv == TicketInv /\ MountInv /\ AskedInv /\ FarInv
IInv == TypeOK /\ HostInv /\ FlowInv /\ CreditInv /\ PaneInv

-----------------------------------------------------------------------------
(* Bytes of a queue *)

IsBatch(m) == m.kind \in {"data", "ack"} /\ m.bytes \in 1..FlushNow

LEMMA UnitsAreFinite ==
    ASSUME NEW M, NEW q \in Seq(M), NEW of
    PROVE  IsFiniteSet(Units(q, of)) /\ Bytes(q, of) \in Nat
<1>1. Len(q) \in Nat /\ FlushNow \in Nat
    BY WatermarksAssumption
<1>2. IsFiniteSet(1..Len(q)) /\ IsFiniteSet(1..FlushNow)
    BY <1>1, FS_Interval
<1>3. IsFiniteSet((1..Len(q)) \X (1..FlushNow))
    BY <1>2, FS_Product
<1>4. Units(q, of) \in SUBSET ((1..Len(q)) \X (1..FlushNow))
    BY DEF Units
<1>5. IsFiniteSet(Units(q, of))
    BY <1>3, <1>4, FS_Subset
<1> QED BY <1>5, FS_CardinalityType DEF Bytes

LEMMA NoBytes == \A of : Bytes(<<>>, of) = 0
<1> SUFFICES ASSUME NEW of PROVE Bytes(<<>>, of) = 0
    OBVIOUS
<1>1. Units(<<>>, of) = {}
    BY DEF Units
<1> QED BY <1>1, FS_EmptySet DEF Bytes

\* Those of some of the clients are among those of all.
LEMMA BytesOfFewer ==
    ASSUME NEW M, NEW q \in Seq(M), NEW of, NEW few \in SUBSET of
    PROVE  Bytes(q, few) <= Bytes(q, of)
<1>1. Units(q, few) \in SUBSET Units(q, of)
    BY DEF Units
<1> QED BY <1>1, UnitsAreFinite, FS_Subset DEF Bytes

\* The units of one message are as many as its bytes.
LEMMA OneBatch ==
    ASSUME NEW n \in Nat, NEW x
    PROVE  IsFiniteSet({x} \X (1..n)) /\ Cardinality({x} \X (1..n)) = n
<1>1. IsFiniteSet(1..n) /\ Cardinality(1..n) = IF 1 > n THEN 0 ELSE n - 1 + 1
    BY FS_Interval
<1>2. Cardinality(1..n) = n
    BY <1>1
<1>3. IsFiniteSet({x}) /\ Cardinality({x}) = 1
    BY FS_Singleton
<1>4. /\ IsFiniteSet({x} \X (1..n))
      /\ Cardinality({x} \X (1..n)) = Cardinality({x}) * Cardinality(1..n)
    BY <1>1, <1>3, FS_Product
<1> QED BY <1>2, <1>3, <1>4

LEMMA AppendBytes ==
    ASSUME NEW M, NEW q \in Seq(M), NEW m \in M, NEW of
    PROVE  /\ m.kind \notin {"data", "ack"} => Bytes(Append(q, m), of) = Bytes(q, of)
           /\ IsBatch(m) => Bytes(Append(q, m), of) <= Bytes(q, of) + m.bytes
<1> DEFINE all == Append(q, m)
           own == {Len(q) + 1} \X (1..m.bytes)
<1>1. /\ Len(all) = Len(q) + 1 /\ Len(q) \in Nat /\ all[Len(q) + 1] = m
      /\ \A k \in 1..Len(q) : all[k] = q[k]
    BY AppendProperties
<1>2. ASSUME m.kind \notin {"data", "ack"}
      PROVE  Units(all, of) = Units(q, of)
    <2>1. \A k \in 1..Len(all) : all[k].kind \in {"data", "ack"} => k \in 1..Len(q)
        BY <1>1, <1>2
    <2>2. \A u : u \in Units(all, of) <=> u \in Units(q, of)
        BY <1>1, <2>1 DEF Units
    <2> QED BY <2>2
<1>3. ASSUME IsBatch(m)
      PROVE  Bytes(all, of) <= Bytes(q, of) + m.bytes
    <2>1. Units(all, of) \subseteq Units(q, of) \cup own
        <3> SUFFICES ASSUME NEW u \in Units(all, of), u \notin Units(q, of)
                     PROVE  u \in own
            OBVIOUS
        <3>1. /\ u \in (1..Len(all)) \X (1..FlushNow) /\ u[2] <= all[u[1]].bytes
              /\ all[u[1]].kind \in {"data", "ack"} /\ all[u[1]].of \in of
            BY DEF Units
        <3>2. u[1] \notin 1..Len(q)
            BY <1>1, <3>1 DEF Units
        <3>3. u[1] = Len(q) + 1
            BY <1>1, <3>1, <3>2
        <3> QED BY <1>1, <1>3, <3>1, <3>3 DEF IsBatch
    <2>2. m.bytes \in Nat /\ Len(q) + 1 \in Nat
        BY <1>1, <1>3, WatermarksAssumption DEF IsBatch
    <2>5. IsFiniteSet(own) /\ Cardinality(own) = m.bytes
        BY <2>2, OneBatch
    <2>6. IsFiniteSet(Units(q, of)) /\ Bytes(q, of) \in Nat
        BY UnitsAreFinite
    <2> HIDE DEF own
    <2>7. /\ IsFiniteSet(Units(q, of) \cup own)
          /\ Cardinality(Units(q, of) \cup own)
                 = Bytes(q, of) + m.bytes - Cardinality(Units(q, of) \cap own)
        BY <2>5, <2>6, FS_Union DEF Bytes
    <2>8. Cardinality(Units(q, of) \cap own) \in Nat
        BY <2>5, FS_Intersection, FS_CardinalityType
    <2>9. /\ Bytes(all, of) <= Cardinality(Units(q, of) \cup own)
          /\ Bytes(all, of) \in Nat
        BY <2>1, <2>7, FS_Subset, FS_CardinalityType DEF Bytes
    <2>10. Cardinality(Units(q, of) \cup own) \in Nat
        BY <2>7, FS_CardinalityType
    <2> QED BY <2>2, <2>6, <2>7, <2>8, <2>9, <2>10
<1> QED BY <1>2, <1>3 DEF Bytes

\* Reading a message takes its units off the queue.
LEMMA TailBytes ==
    ASSUME NEW M, NEW q \in Seq(M), q # <<>>, NEW of
    PROVE  /\ Bytes(Tail(q), of) <= Bytes(q, of)
           /\ IsBatch(Head(q)) /\ Head(q).of \in of =>
                  Bytes(Tail(q), of) + Head(q).bytes <= Bytes(q, of)
<1> DEFINE tail == Tail(q)
           m == Head(q)
           later == {u \in Units(q, of) : u[1] # 1}
           shift == [u \in Units(tail, of) |-> <<u[1] + 1, u[2]>>]
           own == {1} \X (1..m.bytes)
<1>1. /\ tail \in Seq(M) /\ Len(q) \in Nat /\ Len(tail) = Len(q) - 1 /\ m = q[1]
      /\ Len(q) >= 1 /\ \A k \in 1..Len(tail) : tail[k] = q[k + 1]
    BY HeadTailProperties, LenProperties, EmptySeq
<1>2. /\ IsFiniteSet(Units(q, of)) /\ Bytes(q, of) \in Nat
      /\ IsFiniteSet(Units(tail, of)) /\ Bytes(tail, of) \in Nat
    BY <1>1, UnitsAreFinite
<1>3. later \in SUBSET Units(q, of)
    OBVIOUS
<1>4. IsFiniteSet(later) /\ Cardinality(later) \in Nat /\ Cardinality(later) <= Bytes(q, of)
    BY <1>2, <1>3, FS_Subset, FS_CardinalityType DEF Bytes
<1>5. shift \in Injection(Units(tail, of), later)
    <2>1. \A u \in Units(tail, of) : <<u[1] + 1, u[2]>> \in later
        BY <1>1 DEF Units
    <2>2. shift \in [Units(tail, of) -> later]
        BY <2>1
    <2>3. \A u, v \in Units(tail, of) : shift[u] = shift[v] => u = v
        BY <1>1 DEF Units
    <2> QED BY <2>2, <2>3 DEF Injection, IsInjective
<1>6. Bytes(tail, of) <= Cardinality(later)
    BY <1>4, <1>5, FS_Injection DEF Bytes
<1>7. ASSUME IsBatch(m), m.of \in of
      PROVE  Bytes(tail, of) + m.bytes <= Bytes(q, of)
    <2>1. own \subseteq Units(q, of) /\ own \cap later = {}
        BY <1>1, <1>7, WatermarksAssumption DEF Units, IsBatch
    <2>2. m.bytes \in Nat
        BY <1>7 DEF IsBatch
    <2>4. IsFiniteSet(own) /\ Cardinality(own) = m.bytes
        BY <2>2, OneBatch
    <2> HIDE DEF own, later
    <2>5. /\ IsFiniteSet(own \cup later)
          /\ Cardinality(own \cup later) = m.bytes + Cardinality(later) - Cardinality({})
        BY <1>4, <2>1, <2>4, FS_Union
    <2>6. own \cup later \in SUBSET Units(q, of)
        BY <1>3, <2>1
    <2>7. Cardinality(own \cup later) <= Bytes(q, of)
        BY <1>2, <2>6, FS_Subset DEF Bytes
    <2> QED BY <1>2, <1>4, <1>6, <2>2, <2>5, <2>7, FS_EmptySet
<1> QED BY <1>2, <1>4, <1>6, <1>7

-----------------------------------------------------------------------------
(* Types *)

Statuses == {"running", "over"}
Stages == {"no", "begun", "disposed"}
Panes == [mount : Mounts, at : {"none", "mounted", "asked", "answered", "overlay"}]

LEMMA Watermarks ==
    /\ Low \in Nat /\ High \in Nat /\ FlushNow \in Nat
    /\ 1 <= Low /\ Low <= High /\ High <= FlushNow
    /\ MaxMounts \in Nat /\ MaxWindows \in Nat /\ MaxPrints \in Nat /\ MaxFailures \in Nat
    /\ 1 \in Windows /\ None \notin Clients /\ 0 \in 0..(FlushNow - 1)
BY WatermarksAssumption, BoundsAssumption DEF Windows, Clients, None

\* What the host keeps of its clients.
HostTyped ==
    /\ client \in [Clients -> Flows]
    /\ current \in Clients \cup {None}
    /\ spawned \in 0..MaxMounts

HostKept == HostTyped /\ HostInv /\ FlowInv

LEMMA FlowTyped ==
    \A at \in {"unborn", "live", "hungup", "gone"} :
        Flow(at) \in Flows /\ Flow(at).at = at /\ Flow(at).pending = 0
        /\ Flow(at).unacked = 0 /\ ~Flow(at).paused /\ ~Flow(at).free
BY Watermarks DEF Flow, Flows

\* The client there is makes room.
LEMMA DetachKeeps ==
    ASSUME HostKept
    PROVE  /\ Detached \in [Clients -> Flows]
           /\ HostDetach => HostKept'
<1>1. \A c \in Clients : /\ Detached[c] \in Flows
                         /\ Detached[c].at # "live"
                         /\ Detached[c] = Flow(Detached[c].at)
    BY FlowTyped DEF Detached, HostKept, HostTyped, HostInv
<1>2. Detached \in [Clients -> Flows]
    BY <1>1 DEF Detached
<1>3. \A c \in Clients : ~Detached[c].paused /\ Detached[c].unacked <= High
    BY <1>1, FlowTyped, Watermarks DEF Flows
<1>4. ASSUME HostDetach PROVE HostKept'
    <2>1. client' = Detached /\ current' = None /\ spawned' = spawned
        BY <1>4 DEF HostDetach
    <2> QED
        BY <1>1, <1>2, <1>3, <2>1, Watermarks DEF HostKept, HostTyped, HostInv, FlowInv
<1> QED BY <1>2, <1>4

\* A new client takes its place.
LEMMA AttachKeeps ==
    ASSUME HostKept, NEW w \in Windows, HostAttach(w),
           NEW owed \in Nat, owed = OnTheWay(Clients)
    PROVE  /\ HostKept'
           /\ current' \in Clients /\ client'[current'].window = w
           /\ client'[current'].unacked = 0 /\ client'[current'].owed = owed
<1> DEFINE c == spawned + 1
           new == [Flow("live") EXCEPT !.window = w, !.owed = owed]
<1>1. c \in Clients
    BY Watermarks DEF HostAttach, HostKept, HostTyped, Clients
<1>2. /\ new \in Flows /\ new.at = "live" /\ new.pending = 0 /\ new.unacked = 0
      /\ ~new.paused /\ ~new.free /\ new.window = w /\ new.owed = owed
    <2>1. Flow("live") \in Flows /\ Flow("live").at = "live" /\ Flow("live").pending = 0
          /\ Flow("live").unacked = 0 /\ ~Flow("live").paused /\ ~Flow("live").free
        BY FlowTyped
    <2> QED BY <2>1 DEF Flows
<1>3. client' = [Detached EXCEPT ![c] = new] /\ current' = c /\ spawned' = c
    BY DEF HostAttach
<1>4. Detached \in [Clients -> Flows]
    BY DetachKeeps
<1>5. \A d \in Clients : /\ Detached[d].at # "live"
                         /\ Detached[d] = Flow(Detached[d].at)
                         /\ ~Detached[d].paused /\ Detached[d].unacked <= High
    BY FlowTyped, Watermarks DEF Detached, HostKept, HostTyped, HostInv, Flows
<1> HIDE DEF new, c
<1>6. \A d \in Clients : client'[d] = IF d = c THEN new ELSE Detached[d]
    BY <1>1, <1>3, <1>4
<1>7. HostTyped'
    BY <1>1, <1>2, <1>3, <1>4, Watermarks DEF HostTyped, Clients
<1>8. HostInv'
    BY <1>2, <1>3, <1>5, <1>6 DEF HostInv
<1>9. FlowInv'
    BY <1>2, <1>5, <1>6, Watermarks DEF FlowInv
<1> QED BY <1>1, <1>2, <1>3, <1>6, <1>7, <1>8, <1>9 DEF HostKept

FlowSound(f) ==
    /\ f.paused => f.pending = 0
    /\ ~f.free => f.unacked <= IF f.paused THEN High + FlushNow ELSE High

\* What the current client counts changes.
LEMMA FlowKeeps ==
    ASSUME HostKept, NEW c \in Clients, c = current, NEW f \in Flows, f.at = "live",
           FlowSound(f), client' = [client EXCEPT ![c] = f], UNCHANGED <<spawned, current>>
    PROVE  HostKept'
<1>1. HostTyped'
    BY DEF HostKept, HostTyped
<1>2. \A d \in Clients : client'[d] = IF d = c THEN f ELSE client[d]
    BY DEF HostKept, HostTyped
<1>3. HostInv'
    BY <1>2 DEF HostKept, HostInv
<1>4. FlowInv'
    BY <1>2 DEF HostKept, FlowInv, FlowSound
<1> QED BY <1>1, <1>3, <1>4 DEF HostKept

LEMMA QueuesTyped ==
    ASSUME TypeOK
    PROVE  /\ toPage \in Seq(ToPage) /\ toMain \in Seq(ToMain)
           /\ Bytes(toPage, Clients) \in Nat /\ Bytes(toMain, Clients) \in Nat
           /\ OnTheWay(Clients) \in Nat
<1>1. toPage \in Seq(ToPage) /\ toMain \in Seq(ToMain)
    BY DEF TypeOK
<1> QED BY <1>1, UnitsAreFinite DEF OnTheWay

LEMMA BatchTyped ==
    /\ \A m \in ToPage : IF m.kind = "data" THEN IsBatch(m) /\ m.of \in Clients
                         ELSE m.kind = "exit"
    /\ \A m \in ToMain : IF m.kind = "ack" THEN IsBatch(m) /\ m.of \in Clients
                         ELSE m.kind \in {"attach", "detach"}
    /\ \A c \in Clients, n \in 1..FlushNow :
           /\ [kind |-> "data", of |-> c, bytes |-> n] \in ToPage
           /\ [kind |-> "ack", of |-> c, bytes |-> n] \in ToMain
    /\ [kind |-> "exit"] \in ToPage /\ [kind |-> "detach"] \in ToMain
    /\ \A m \in Mounts : [kind |-> "attach", mount |-> m] \in ToMain
BY DEF ToPage, ToMain, IsBatch

\* A client with the batch it is about to send.
Sending == [at : {"live"}, window : Windows, pending : 1..FlushNow, unacked : Nat,
            paused : BOOLEAN, heard : BOOLEAN, grace : BOOLEAN, free : BOOLEAN, owed : Nat]

LEMMA CountedKeeps ==
    ASSUME NEW f \in Sending, ~f.paused, f.free \/ f.unacked <= High
    PROVE  /\ Counted(f) \in Flows /\ Counted(f).at = "live" /\ FlowSound(Counted(f))
           /\ Counted(f).owed = f.owed /\ Counted(f).free = f.free
           /\ Counted(f).window = f.window
           /\ ~f.free => Counted(f).unacked = f.unacked + f.pending
<1>1. f.pending \in Nat /\ f.pending <= FlushNow /\ f.unacked \in Nat /\ ~f.paused
    BY Watermarks DEF Sending
<1>2. CASE f.free
    <2>1. Counted(f) = [f EXCEPT !.pending = 0]
        BY <1>2 DEF Counted
    <2> QED BY <1>2, <2>1, Watermarks DEF Sending, Flows, FlowSound
<1>3. CASE ~f.free
    <2> DEFINE sum == f.unacked + f.pending
               stops == ~f.paused /\ sum > High
               g == [f EXCEPT !.pending = 0, !.unacked = sum, !.paused = @ \/ stops,
                              !.grace = @ \/ (stops /\ ~f.heard)]
    <2>1. Counted(f) = g
        BY <1>3 DEF Counted
    <2>2. /\ g.at = "live" /\ g.pending = 0 /\ g.unacked = sum /\ g.window = f.window
          /\ g.owed = f.owed /\ g.free = f.free /\ g.heard = f.heard
        BY DEF Sending
    <2>3. g.paused \in BOOLEAN /\ g.grace \in BOOLEAN /\ (g.paused <=> sum > High)
        BY <1>1 DEF Sending
    <2>4. sum \in Nat /\ sum <= High + FlushNow
        BY <1>1, <1>3, Watermarks
    <2>5. g \in Flows
        BY <2>2, <2>3, <2>4, Watermarks DEF Flows, Sending
    <2>6. FlowSound(g)
        BY <2>2, <2>3, <2>4, Watermarks DEF FlowSound
    <2> HIDE DEF g
    <2> QED BY <2>1, <2>2, <2>5, <2>6
<1> QED BY <1>2, <1>3

\* A batch goes to the page, and the client that sent it counts it.
LEMMA FlushKeeps ==
    ASSUME TypeOK, HostKept, CreditInv, NEW c \in Clients, c = current,
           ~client[c].paused, NEW n \in 1..FlushNow,
           NEW f, f = [client[c] EXCEPT !.pending = n], Flush(c, f),
           UNCHANGED <<toMain, window>>
    PROVE  HostKept' /\ CreditInv' /\ toPage' \in Seq(ToPage)
<1>1. client[c] \in Flows /\ client[c].at = "live" /\ FlowSound(client[c])
    BY DEF HostKept, HostTyped, HostInv, FlowInv, FlowSound
<1>2. CASE f.window # window
    <2>1. HostDetach /\ toPage' = toPage
        BY <1>2 DEF Flush
    <2>2. HostKept' /\ current' = None
        BY <2>1, DetachKeeps DEF HostDetach
    <2> QED BY <2>1, <2>2, QueuesTyped DEF CreditInv
<1>3. CASE f.window = window
    <2> DEFINE msg == [kind |-> "data", of |-> c, bytes |-> n]
               g == Counted(f)
    <2>1. /\ f.pending = n /\ f.unacked = client[c].unacked /\ f.paused = FALSE
          /\ f.free = client[c].free /\ f.window = client[c].window
          /\ f.owed = client[c].owed
        BY <1>1 DEF Flows
    <2>2. /\ toPage' = Append(toPage, msg)
          /\ client' = [client EXCEPT ![c] = g] /\ UNCHANGED <<spawned, current>>
        BY <1>3, <2>1 DEF Flush
    <2>3. /\ g \in Flows /\ g.at = "live" /\ FlowSound(g)
          /\ g.owed = client[c].owed /\ g.free = client[c].free
          /\ g.window = client[c].window
          /\ ~g.free => g.unacked = client[c].unacked + n
        <3>1. f \in Sending /\ ~f.paused
            BY <1>1, <2>1 DEF Sending, Flows
        <3>2. f.free \/ f.unacked <= High
            BY <1>1, <2>1 DEF FlowSound
        <3> QED BY <2>1, <3>1, <3>2, CountedKeeps
    <2> HIDE DEF g
    <2>4. HostKept'
        BY <2>2, <2>3, FlowKeeps
    <2>5. /\ msg \in ToPage /\ IsBatch(msg) /\ msg.bytes = n /\ n \in Nat
          /\ toPage \in Seq(ToPage)
        BY BatchTyped, QueuesTyped, Watermarks DEF IsBatch, ToPage
    <2> HIDE DEF msg
    <2>6. toPage' \in Seq(ToPage)
        BY <2>2, <2>5, AppendProperties
    <2>7. /\ Bytes(toPage', Clients) <= Bytes(toPage, Clients) + n
          /\ Bytes(toPage', Clients) \in Nat
        BY <2>2, <2>5, <2>6, AppendBytes, UnitsAreFinite
    <2>8. /\ OnTheWay(Clients) = Bytes(toPage, Clients) + Bytes(toMain, Clients)
          /\ OnTheWay(Clients)' = Bytes(toPage', Clients) + Bytes(toMain, Clients)
        BY DEF OnTheWay, Bytes, Units
    <2>9. CreditInv'
        <3>1. client'[current'] = g /\ window' = window /\ current' = c
            BY <2>2 DEF HostKept, HostTyped
        <3>2. ~g.free /\ g.window = window =>
                  OnTheWay(Clients) <= client[c].unacked + client[c].owed
            BY <2>3, Watermarks DEF CreditInv
        <3>3. client[c].unacked \in Nat /\ client[c].owed \in Nat
            BY <1>1 DEF Flows
        <3>4. ASSUME ~g.free, g.window = window
              PROVE  OnTheWay(Clients)' <= g.unacked + g.owed
            <4>1. OnTheWay(Clients) <= client[c].unacked + client[c].owed
                BY <3>2, <3>4
            <4>2. g.unacked = client[c].unacked + n /\ g.owed = client[c].owed
                BY <2>3, <3>4
            <4>3. OnTheWay(Clients)' <= OnTheWay(Clients) + n
                BY <2>5, <2>7, <2>8, QueuesTyped
            <4>4. OnTheWay(Clients)' \in Nat /\ OnTheWay(Clients) \in Nat
                BY <2>5, <2>7, <2>8, QueuesTyped
            <4> QED BY <2>5, <3>3, <4>1, <4>2, <4>3, <4>4
        <3> QED BY <3>1, <3>4 DEF CreditInv
    <2> QED BY <2>4, <2>6, <2>9
<1> QED BY <1>2, <1>3

-----------------------------------------------------------------------------
(* The host, and what is on its way *)

Base == TypeOK /\ HostInv /\ FlowInv /\ CreditInv

Queued == toPage \in Seq(ToPage) /\ toMain \in Seq(ToMain)

LEMMA BaseHost ==
    ASSUME Base
    PROVE  HostKept /\ TypeOK /\ CreditInv /\ Queued
BY DEF Base, HostKept, HostTyped, TypeOK, Queued

LEMMA QueuedBytes ==
    ASSUME Queued
    PROVE  /\ OnTheWay(Clients) = Bytes(toPage, Clients) + Bytes(toMain, Clients)
           /\ Bytes(toPage, Clients) \in Nat /\ Bytes(toMain, Clients) \in Nat
           /\ OnTheWay(Clients) \in Nat
<1>1. toPage \in Seq(ToPage) /\ toMain \in Seq(ToMain)
    BY DEF Queued
<1> QED BY <1>1, UnitsAreFinite DEF OnTheWay

LEMMA CreditStays ==
    ASSUME Base, UNCHANGED <<client, current, window>>,
           OnTheWay(Clients)' <= OnTheWay(Clients), OnTheWay(Clients)' \in Nat
    PROVE  CreditInv'
<1> SUFFICES ASSUME current # None, client[current].window = window, ~client[current].free
             PROVE  OnTheWay(Clients)' <= client[current].unacked + client[current].owed
    BY DEF CreditInv
<1>1. OnTheWay(Clients) <= client[current].unacked + client[current].owed
    BY DEF Base, CreditInv
<1>2. client[current] \in Flows
    BY DEF Base, TypeOK
<1>3. client[current].unacked \in Nat /\ client[current].owed \in Nat
    BY <1>2 DEF Flows
<1> QED BY <1>1, <1>3, BaseHost, QueuedBytes

LEMMA PageHost ==
    ASSUME Base,
           Mount \/ AsksForAttach \/ Unmount \/ Reload \/ PageReads
    PROVE  HostKept' /\ CreditInv' /\ Queued'
<1>1. UNCHANGED <<client, current, spawned, window>>
    BY DEF Mount, AsksForAttach, Unmount, Reload, PageReads, hostVars
<1>2. HostKept'
    BY <1>1, BaseHost DEF HostKept, HostTyped, HostInv, FlowInv
<1>3. Queued /\ toPage \in Seq(ToPage) /\ toMain \in Seq(ToMain)
    BY BaseHost DEF Queued
<1>4. Queued' /\ OnTheWay(Clients)' <= OnTheWay(Clients)
    <2>1. ASSUME UNCHANGED toPage,
                 toMain' = toMain \/ \E m \in ToMain : /\ m.kind # "ack"
                                                       /\ toMain' = Append(toMain, m)
          PROVE  Queued' /\ OnTheWay(Clients)' <= OnTheWay(Clients)
        <3>1. toMain' \in Seq(ToMain) /\ Bytes(toMain', Clients) = Bytes(toMain, Clients)
            <4>1. CASE toMain' = toMain
                BY <1>3, <4>1
            <4>2. CASE \E m \in ToMain : m.kind # "ack" /\ toMain' = Append(toMain, m)
                <5> PICK m \in ToMain : m.kind # "ack" /\ toMain' = Append(toMain, m)
                    BY <4>2
                <5>1. m.kind \notin {"data", "ack"}
                    BY BatchTyped
                <5> QED BY <1>3, <5>1, AppendProperties, AppendBytes
            <4> QED BY <2>1, <4>1, <4>2
        <3>2. Queued'
            BY <1>3, <2>1, <3>1 DEF Queued
        <3>3. OnTheWay(Clients)' = Bytes(toPage', Clients) + Bytes(toMain', Clients)
            BY DEF OnTheWay, Bytes, Units
        <3> QED BY <1>3, <2>1, <3>1, <3>2, <3>3, QueuedBytes
    <2>2. CASE Mount
        BY <2>1, <2>2 DEF Mount
    <2>3. CASE AsksForAttach
        <3>1. [kind |-> "attach", mount |-> pane.mount] \in ToMain
            BY BaseHost, BatchTyped DEF TypeOK
        <3> QED BY <2>1, <2>3, <3>1 DEF AsksForAttach
    <2>4. CASE Unmount
        BY <2>1, <2>4, BatchTyped DEF Unmount
    <2>5. CASE Reload
        <3>1. toPage' = <<>> /\ toMain' = toMain
            BY <2>5 DEF Reload
        <3>2. Bytes(toPage', Clients) = 0
            BY <3>1, NoBytes
        <3>3. Queued'
            BY <1>3, <3>1, EmptySeq DEF Queued
        <3>4. OnTheWay(Clients)' = Bytes(toPage', Clients) + Bytes(toMain', Clients)
            BY DEF OnTheWay, Bytes, Units
        <3> QED BY <1>3, <3>1, <3>2, <3>3, <3>4, QueuedBytes
    <2>6. CASE PageReads
        <3> DEFINE msg == Head(toPage)
                   ack == [msg EXCEPT !.kind = "ack"]
        <3>1. /\ toPage # <<>> /\ toPage' = Tail(toPage)
              /\ \/ msg.kind = "data" /\ (toMain' = toMain \/ toMain' = Append(toMain, ack))
                 \/ toMain' = toMain
            BY <2>6 DEF PageReads
        <3>2. msg \in ToPage /\ toPage' \in Seq(ToPage)
            BY <1>3, <3>1, HeadTailProperties
        <3>3. Bytes(toPage', Clients) <= Bytes(toPage, Clients)
            BY <1>3, <3>1, TailBytes
        <3>4. CASE toMain' = toMain
            <4>1. Queued'
                BY <1>3, <3>2, <3>4 DEF Queued
            <4>2. OnTheWay(Clients)' = Bytes(toPage', Clients) + Bytes(toMain', Clients)
                BY DEF OnTheWay, Bytes, Units
            <4>3. Bytes(toPage', Clients) \in Nat
                BY <3>2, UnitsAreFinite
            <4> QED BY <1>3, <3>3, <3>4, <4>1, <4>2, <4>3, QueuedBytes
        <3>5. CASE msg.kind = "data" /\ toMain' = Append(toMain, ack)
            <4>1. IsBatch(msg) /\ msg.of \in Clients /\ msg.bytes \in Nat
                BY <3>2, <3>5, BatchTyped, Watermarks DEF IsBatch
            <4>2. ack \in ToMain /\ IsBatch(ack) /\ ack.bytes = msg.bytes
                BY <3>2, <3>5 DEF ToPage, ToMain, IsBatch
            <4> HIDE DEF ack, msg
            <4>3. /\ toMain' \in Seq(ToMain)
                  /\ Bytes(toMain', Clients) <= Bytes(toMain, Clients) + msg.bytes
                BY <1>3, <3>5, <4>2, AppendProperties, AppendBytes
            <4>4. Bytes(toPage', Clients) + msg.bytes <= Bytes(toPage, Clients)
                BY <1>3, <3>1, <4>1, TailBytes DEF msg
            <4>5. Queued'
                BY <3>2, <4>3 DEF Queued
            <4>6. OnTheWay(Clients)' = Bytes(toPage', Clients) + Bytes(toMain', Clients)
                BY DEF OnTheWay, Bytes, Units
            <4>7. Bytes(toPage', Clients) \in Nat /\ Bytes(toMain', Clients) \in Nat
                BY <3>2, <4>3, UnitsAreFinite
            <4> QED BY <1>3, <4>1, <4>3, <4>4, <4>5, <4>6, <4>7, QueuedBytes
        <3> QED BY <3>1, <3>4, <3>5
    <2> QED BY <2>2, <2>3, <2>4, <2>5, <2>6
<1>5. OnTheWay(Clients)' \in Nat
    <2>1. toPage' \in Seq(ToPage) /\ toMain' \in Seq(ToMain)
        BY <1>4 DEF Queued
    <2>2. OnTheWay(Clients)' = Bytes(toPage', Clients) + Bytes(toMain', Clients)
        BY DEF OnTheWay, Bytes, Units
    <2> QED BY <2>1, <2>2, UnitsAreFinite
<1> QED BY <1>1, <1>2, <1>4, <1>5, CreditStays

\* The host lets go of a client, takes one, or does nothing, and no queue grows.
LEMMA HostOperates ==
    ASSUME Base, Queued', UNCHANGED window, OnTheWay(Clients)' <= OnTheWay(Clients),
           UNCHANGED hostVars \/ HostDetach \/ \E w \in Windows : HostAttach(w)
    PROVE  HostKept' /\ CreditInv'
<1>1. OnTheWay(Clients)' \in Nat
    <2>1. toPage' \in Seq(ToPage) /\ toMain' \in Seq(ToMain)
        BY DEF Queued
    <2>2. OnTheWay(Clients)' = Bytes(toPage', Clients) + Bytes(toMain', Clients)
        BY DEF OnTheWay, Bytes, Units
    <2> QED BY <2>1, <2>2, UnitsAreFinite
<1>2. CASE UNCHANGED hostVars
    <2>1. HostKept'
        BY <1>2, BaseHost DEF HostKept, HostTyped, HostInv, FlowInv, hostVars
    <2> QED BY <1>1, <1>2, <2>1, CreditStays DEF hostVars
<1>3. CASE HostDetach
    <2>1. HostKept' /\ current' = None
        BY <1>3, BaseHost, DetachKeeps DEF HostDetach
    <2> QED BY <2>1 DEF CreditInv
<1>4. CASE \E w \in Windows : HostAttach(w)
    <2> PICK w \in Windows : HostAttach(w)
        BY <1>4
    <2> DEFINE owed == OnTheWay(Clients)
    <2>1. owed \in Nat
        BY BaseHost, QueuedBytes
    <2>2. HostKept' /\ client'[current'].unacked = 0 /\ client'[current'].owed = owed
        <3> HIDE DEF owed
        <3> QED BY <2>1, BaseHost, AttachKeeps DEF owed
    <2>3. OnTheWay(Clients)' <= client'[current'].unacked + client'[current'].owed
        BY <1>1, <2>1, <2>2
    <2> QED BY <2>2, <2>3 DEF CreditInv
<1> QED BY <1>2, <1>3, <1>4

LEMMA ResolvesHost ==
    ASSUME NEW call, call.window \in Windows, Resolves(call)
    PROVE  UNCHANGED hostVars \/ HostDetach \/ \E w \in Windows : HostAttach(w)
BY DEF Resolves, SpawnFails

\* What the main process does on a message or at the end of a wait.
LEMMA AcknowledgedKeeps ==
    ASSUME NEW f \in Flows, FlowSound(f), f.at = "live", NEW bytes \in 1..FlushNow
    PROVE  LET g == Acknowledged(f, bytes)
           IN  /\ g \in Flows /\ FlowSound(g) /\ g.at = "live"
               /\ g.owed = f.owed /\ g.free = f.free /\ g.window = f.window
               /\ f.unacked <= g.unacked + bytes
<1> DEFINE left == IF bytes > f.unacked THEN 0 ELSE f.unacked - bytes
           g == [f EXCEPT !.heard = TRUE, !.grace = FALSE, !.unacked = left,
                          !.paused = @ /\ left >= Low]
<1>1. f.unacked \in Nat /\ bytes \in Nat
    BY Watermarks DEF Flows
<1>2. left \in Nat /\ f.unacked <= left + bytes /\ left <= f.unacked
    BY <1>1
<1>3. g = Acknowledged(f, bytes)
    BY DEF Acknowledged
<1> HIDE DEF left
<1>4. /\ g.at = "live" /\ g.pending = f.pending /\ g.unacked = left
      /\ g.window = f.window /\ g.owed = f.owed /\ g.free = f.free
      /\ g.paused \in BOOLEAN /\ (g.paused <=> f.paused /\ left >= Low)
    BY DEF Flows
<1>5. g \in Flows
    BY <1>2, <1>4 DEF Flows
<1>6. FlowSound(g)
    BY <1>1, <1>2, <1>4, Watermarks DEF FlowSound
<1> HIDE DEF g
<1> QED BY <1>2, <1>3, <1>4, <1>5, <1>6

LEMMA MainHost ==
    ASSUME Base, MainReads
    PROVE  HostKept' /\ CreditInv' /\ Queued'
<1> DEFINE msg == Head(toMain)
<1>1. /\ toMain # <<>> /\ toMain' = Tail(toMain) /\ UNCHANGED <<toPage, window>>
      /\ Queued /\ toPage \in Seq(ToPage) /\ toMain \in Seq(ToMain)
    BY BaseHost DEF MainReads, Queued
<1>2. msg \in ToMain /\ toMain' \in Seq(ToMain)
    BY <1>1, HeadTailProperties
<1>3. Queued'
    BY <1>1, <1>2 DEF Queued
<1>4. /\ Bytes(toMain', Clients) <= Bytes(toMain, Clients)
      /\ msg.kind = "ack" => Bytes(toMain', Clients) + msg.bytes <= Bytes(toMain, Clients)
    BY <1>1, <1>2, BatchTyped, TailBytes
<1>5. /\ OnTheWay(Clients)' = Bytes(toPage', Clients) + Bytes(toMain', Clients)
      /\ Bytes(toPage', Clients) \in Nat /\ Bytes(toMain', Clients) \in Nat
    <2>1. OnTheWay(Clients)' = Bytes(toPage', Clients) + Bytes(toMain', Clients)
        BY DEF OnTheWay, Bytes, Units
    <2> QED BY <1>1, <1>2, <2>1, UnitsAreFinite
<1>6. OnTheWay(Clients)' <= OnTheWay(Clients)
    BY <1>1, <1>4, <1>5, QueuedBytes
<1>7. CASE UNCHANGED hostVars \/ HostDetach \/ \E w \in Windows : HostAttach(w)
    BY <1>1, <1>3, <1>6, <1>7, HostOperates
<1>8. CASE msg.kind = "ack" /\ Heard(msg)
    <2>1. CASE current = None \/ client[current].window # window
        BY <1>7, <1>8, <2>1 DEF Heard, hostVars
    <2>2. CASE current # None /\ client[current].window = window
        <3> DEFINE g == Acknowledged(client[current], msg.bytes)
        <3>1. /\ current \in Clients /\ client[current] \in Flows
              /\ client[current].at = "live" /\ FlowSound(client[current])
            BY <2>2, BaseHost DEF HostKept, HostTyped, HostInv, FlowInv, FlowSound
        <3>2. msg.bytes \in 1..FlushNow /\ msg.bytes \in Nat
            BY <1>2, <1>8, BatchTyped, Watermarks DEF IsBatch
        <3>3. /\ g \in Flows /\ FlowSound(g) /\ g.at = "live"
              /\ g.owed = client[current].owed /\ g.free = client[current].free
              /\ g.window = client[current].window
              /\ client[current].unacked <= g.unacked + msg.bytes
            BY <3>1, <3>2, AcknowledgedKeeps
        <3>4. client' = [client EXCEPT ![current] = g] /\ UNCHANGED <<spawned, current>>
            BY <1>8, <2>2 DEF Heard
        <3> HIDE DEF g, msg
        <3>5. HostKept'
            BY <3>1, <3>3, <3>4, BaseHost, FlowKeeps
        <3>6. client'[current'] = g
            BY <3>1, <3>4, BaseHost DEF HostKept, HostTyped
        <3>7. ASSUME ~g.free
              PROVE  OnTheWay(Clients)' <= g.unacked + g.owed
            <4>1. OnTheWay(Clients) <= client[current].unacked + client[current].owed
                BY <2>2, <3>3, <3>7, BaseHost DEF CreditInv
            <4>2. OnTheWay(Clients)' + msg.bytes <= OnTheWay(Clients)
                BY <1>1, <1>4, <1>5, <1>8, <3>2, QueuedBytes
            <4>3. /\ client[current].unacked \in Nat /\ client[current].owed \in Nat
                  /\ g.unacked \in Nat
                BY <3>1, <3>3 DEF Flows
            <4>4. OnTheWay(Clients)' \in Nat /\ OnTheWay(Clients) \in Nat
                BY <1>1, <1>5, QueuedBytes
            <4>5. g.owed = client[current].owed
                BY <3>3
            <4>6. client[current].unacked <= g.unacked + msg.bytes
                BY <3>3
            <4> QED BY <3>2, <4>1, <4>2, <4>3, <4>4, <4>5, <4>6
        <3>8. CreditInv'
            BY <3>6, <3>7 DEF CreditInv
        <3> QED BY <1>3, <3>5, <3>8
    <2> QED BY <2>1, <2>2
<1>9. \/ UNCHANGED hostVars \/ HostDetach \/ \E w \in Windows : HostAttach(w)
      \/ msg.kind = "ack" /\ Heard(msg)
    <2>1. window \in Windows
        BY BaseHost DEF TypeOK
    <2> QED
        BY <2>1, ResolvesHost
        DEF MainReads, TakesTicket, Refused, DetachSession
<1> QED BY <1>3, <1>7, <1>8, <1>9

LEMMA WaitHost ==
    ASSUME Base, NEW call \in calls, WaitEnds(call)
    PROVE  HostKept' /\ CreditInv' /\ Queued'
<1>1. UNCHANGED <<toPage, toMain, window>>
    BY DEF WaitEnds
<1>2. call.window \in Windows
    BY BaseHost DEF TypeOK, Calls
<1>3. UNCHANGED hostVars \/ HostDetach \/ \E w \in Windows : HostAttach(w)
    BY <1>2, ResolvesHost DEF WaitEnds
<1>4. Queued' /\ OnTheWay(Clients)' = OnTheWay(Clients) /\ OnTheWay(Clients) \in Nat
    BY <1>1, BaseHost, QueuedBytes DEF Queued, OnTheWay, Bytes, Units
<1> QED BY <1>1, <1>3, <1>4, HostOperates

\* What the core does to the host.
LEMMA CoreHost ==
    ASSUME Base, KillSession \/ CloseWindow \/ BeginShutdown \/ Disposes
    PROVE  HostKept' /\ CreditInv' /\ Queued'
<1>1. Queued /\ toPage \in Seq(ToPage) /\ toMain \in Seq(ToMain)
    BY BaseHost DEF Queued
<1>2. OnTheWay(Clients)' = Bytes(toPage', Clients) + Bytes(toMain', Clients)
    BY DEF OnTheWay, Bytes, Units
<1>3. CASE KillSession
    <2>1. [kind |-> "exit"] \in ToPage
        BY BatchTyped
    <2>2. /\ toPage' \in Seq(ToPage)
          /\ Bytes(toPage', Clients) = Bytes(toPage, Clients)
        BY <1>1, <1>3, <2>1, AppendProperties, AppendBytes DEF KillSession
    <2>3. Queued'
        BY <1>1, <1>3, <2>2 DEF KillSession, Queued
    <2>4. OnTheWay(Clients)' <= OnTheWay(Clients)
        BY <1>1, <1>2, <1>3, <2>2, QueuedBytes DEF KillSession
    <2> QED BY <1>3, <2>3, <2>4, HostOperates DEF KillSession
<1>4. CASE CloseWindow
    <2>1. toPage' = <<>> /\ toMain' = <<>>
        BY <1>4 DEF CloseWindow
    <2>2. OnTheWay(Clients)' = 0
        BY <1>2, <2>1, NoBytes
    <2>3. Queued'
        BY <2>1, EmptySeq DEF Queued
    <2>4. HostKept'
        BY <1>4, BaseHost, DetachKeeps
        DEF CloseWindow, HostKept, HostTyped, HostInv, FlowInv, hostVars
    <2>5. CreditInv'
        <3> SUFFICES ASSUME current' # None PROVE OnTheWay(Clients)' <=
                        client'[current'].unacked + client'[current'].owed
            BY DEF CreditInv
        <3>1. client'[current'] \in Flows
            BY <2>4 DEF HostKept, HostTyped
        <3> QED BY <2>2, <3>1 DEF Flows
    <2> QED BY <2>3, <2>4, <2>5
<1>5. CASE BeginShutdown \/ Disposes
    <2>1. UNCHANGED <<toPage, toMain, window>> /\ (UNCHANGED hostVars \/ HostDetach)
        BY <1>5 DEF BeginShutdown, Disposes, windowVars
    <2>2. Queued' /\ OnTheWay(Clients)' <= OnTheWay(Clients)
        BY <1>1, <1>2, <2>1, QueuedBytes DEF Queued
    <2> QED BY <2>1, <2>2, HostOperates
<1> QED BY <1>3, <1>4, <1>5

\* What a client of the host does.
LEMMA ClientHost ==
    ASSUME Base, NEW c \in Clients, Host(c)
    PROVE  HostKept' /\ CreditInv' /\ Queued'
<1>1. Queued /\ toPage \in Seq(ToPage) /\ toMain \in Seq(ToMain)
    BY BaseHost DEF Queued
<1>2. /\ client[c] \in Flows /\ client \in [Clients -> Flows] /\ FlowSound(client[c])
      /\ client[c].at = "live" <=> c = current
      /\ client[c].at # "live" => client[c] = Flow(client[c].at)
    BY BaseHost DEF HostKept, HostTyped, HostInv, FlowInv, FlowSound
<1>3. client[c].at # "live" => client[c].pending = 0 /\ ~client[c].grace
    <2>1. \A at : Flow(at).pending = 0 /\ ~Flow(at).grace
        BY DEF Flow
    <2> QED BY <1>2, <2>1
<1>4. CASE Prints(c)
    <2> DEFINE n == client[c].pending + 1
               f == [client[c] EXCEPT !.pending = n]
    <2>1. n \in 1..FlushNow /\ n \in Nat /\ c = current /\ ~client[c].paused
        BY <1>2, <1>4, Watermarks DEF Prints, Accepts, Flows
    <2>2. f.pending = n /\ f = [client[c] EXCEPT !.pending = @ + 1]
        BY <1>2 DEF Flows
    <2> HIDE DEF n
    <2>3. UNCHANGED <<toMain, window>>
        BY <1>4 DEF Prints
    <2>4. CASE n >= FlushNow
        <3>1. Flush(c, f)
            BY <1>4, <2>2, <2>4 DEF Prints
        <3>2. HostKept' /\ CreditInv' /\ toPage' \in Seq(ToPage)
            <4> HIDE DEF f
            <4> QED BY <2>1, <2>3, <3>1, BaseHost, FlushKeeps DEF f
        <3> QED BY <1>1, <2>3, <3>2 DEF Queued
    <2>5. CASE n < FlushNow
        <3>1. /\ client' = [client EXCEPT ![c] = f]
              /\ UNCHANGED <<toPage, spawned, current>>
            <4>1. f.pending = n /\ ~(n >= FlushNow)
                BY <2>1, <2>2, <2>5, Watermarks
            <4>2. LET g == [client[c] EXCEPT !.pending = @ + 1] IN
                      IF g.pending >= FlushNow THEN Flush(c, g)
                      ELSE /\ client' = [client EXCEPT ![c] = g]
                           /\ UNCHANGED <<toPage, spawned, current>>
                BY <1>4 DEF Prints
            <4>3. IF f.pending >= FlushNow THEN Flush(c, f)
                  ELSE /\ client' = [client EXCEPT ![c] = f]
                       /\ UNCHANGED <<toPage, spawned, current>>
                BY <2>2, <4>2
            <4> HIDE DEF f
            <4> QED BY <4>1, <4>3
        <3>2. f \in Flows /\ f.at = "live" /\ FlowSound(f)
              /\ f.unacked = client[c].unacked /\ f.owed = client[c].owed
              /\ f.window = client[c].window /\ f.free = client[c].free
            <4>1. n \in 0..(FlushNow - 1)
                BY <2>1, <2>5, Watermarks
            <4> QED BY <1>2, <2>1, <4>1 DEF Flows, FlowSound
        <3> HIDE DEF f
        <3>3. HostKept'
            BY <2>1, <3>1, <3>2, BaseHost, FlowKeeps
        <3>4. client'[current'] = f /\ UNCHANGED <<window, current>>
            BY <1>2, <2>1, <2>3, <3>1
        <3>5. Queued' /\ OnTheWay(Clients)' = OnTheWay(Clients)
            BY <1>1, <2>3, <3>1 DEF Queued, OnTheWay, Bytes, Units
        <3>6. CreditInv'
            BY <2>1, <3>2, <3>4, <3>5, BaseHost DEF CreditInv
        <3> QED BY <3>3, <3>5, <3>6
    <2> QED BY <2>1, <2>4, <2>5, Watermarks
<1>5. CASE FlushTimer(c)
    <2> DEFINE n == client[c].pending
    <2>1. n \in 1..FlushNow /\ ~client[c].paused /\ c = current
        BY <1>2, <1>3, <1>5, Watermarks DEF FlushTimer, Flows, FlowSound
    <2>2. client[c] = [client[c] EXCEPT !.pending = n]
        BY <1>2 DEF Flows
    <2>3. Flush(c, client[c]) /\ UNCHANGED <<toMain, window>>
        BY <1>5 DEF FlushTimer
    <2> HIDE DEF n
    <2>4. HostKept' /\ CreditInv' /\ toPage' \in Seq(ToPage)
        BY <2>1, <2>2, <2>3, BaseHost, FlushKeeps
    <2> QED BY <1>1, <2>3, <2>4 DEF Queued
<1>6. CASE GraceEnds(c)
    <2> DEFINE f == [client[c] EXCEPT !.grace = FALSE, !.free = TRUE, !.unacked = 0,
                                      !.paused = FALSE]
    <2>1. f \in Flows /\ f.at = client[c].at /\ f.free /\ ~f.paused
        BY <1>2 DEF Flows
    <2>2. client' = [client EXCEPT ![c] = f]
        BY <1>2, <1>6 DEF GraceEnds
    <2>3. UNCHANGED <<spawned, current, toPage, toMain, window>> /\ c = current
        BY <1>2, <1>3, <1>6 DEF GraceEnds, windowVars
    <2> HIDE DEF f
    <2>4. HostKept'
        BY <1>2, <2>1, <2>2, <2>3, BaseHost, FlowKeeps DEF FlowSound
    <2>5. client'[current'] = f
        BY <1>2, <2>2, <2>3
    <2> QED BY <1>1, <2>1, <2>3, <2>4, <2>5 DEF Queued, CreditInv
<1>7. CASE Exits(c)
    <2> DEFINE msg == [kind |-> "data", of |-> c, bytes |-> client[c].pending]
               exit == [kind |-> "exit"]
    <2>1. /\ client' = [client EXCEPT ![c] = Flow("gone")]
          /\ current' = (IF c = current THEN None ELSE current)
          /\ UNCHANGED <<spawned, toMain, window>>
        BY <1>7 DEF Exits, StillCurrent
    <2>2. \A d \in Clients : client'[d] = IF d = c THEN Flow("gone") ELSE client[d]
        BY <1>2, <2>1
    <2>3. /\ Flow("gone") \in Flows /\ Flow("gone").at = "gone"
          /\ Flow("gone").pending = 0
          /\ Flow("gone").unacked = 0 /\ ~Flow("gone").paused
        BY FlowTyped
    <2>4. HostKept'
        <3>1. HostTyped'
            BY <2>1, <2>3, BaseHost DEF HostKept, HostTyped
        <3>2. HostInv'
            BY <2>1, <2>2, <2>3, BaseHost, Watermarks DEF HostKept, HostTyped, HostInv
        <3>3. FlowInv'
            BY <2>2, <2>3, BaseHost, Watermarks DEF HostKept, FlowInv
        <3> QED BY <3>1, <3>2, <3>3 DEF HostKept
    <2>5. CASE c # current
        <3>1. toPage' = toPage \o <<>> \o <<>>
            BY <1>2, <1>7, <2>5 DEF Exits, StillCurrent
        <3>2. toPage' = toPage
            BY <1>1, <3>1, ConcatEmptySeq
        <3>3. Queued' /\ OnTheWay(Clients)' = OnTheWay(Clients)
            BY <1>1, <2>1, <3>2 DEF Queued, OnTheWay, Bytes, Units
        <3>4. current' = current /\ (current # None => client'[current] = client[current])
            BY <2>1, <2>2, <2>5, BaseHost DEF HostKept, HostTyped
        <3> QED BY <2>1, <2>4, <3>3, <3>4, BaseHost DEF CreditInv
    <2>6. CASE c = current
        <3>1. current' = None
            BY <2>1, <2>6
        <3>2. \E last \in {<<msg>>, <<>>}, notice \in {<<exit>>, <<>>} :
                  /\ last = <<msg>> => client[c].pending > 0
                  /\ toPage' = toPage \o last \o notice
            BY <1>7 DEF Exits
        <3>3. client[c].pending > 0 => msg \in ToPage
            <4>1. client[c].pending > 0 => client[c].pending \in 1..FlushNow
                BY <1>2, Watermarks DEF Flows
            <4> QED BY <4>1, BatchTyped
        <3>4. exit \in ToPage
            BY BatchTyped
        <3> HIDE DEF msg, exit
        <3>5. /\ client[c].pending > 0 => <<msg>> \in Seq(ToPage)
              /\ <<exit>> \in Seq(ToPage) /\ <<>> \in Seq(ToPage)
            BY <3>3, <3>4
        <3>6. toPage' \in Seq(ToPage)
            <4> PICK last \in {<<msg>>, <<>>}, notice \in {<<exit>>, <<>>} :
                    /\ last = <<msg>> => client[c].pending > 0
                    /\ toPage' = toPage \o last \o notice
                BY <3>2
            <4>1. last \in Seq(ToPage) /\ notice \in Seq(ToPage)
                BY <3>5
            <4>2. toPage \o last \in Seq(ToPage)
                BY <1>1, <4>1, ConcatProperties
            <4> QED BY <4>1, <4>2, ConcatProperties
        <3> QED BY <1>1, <2>1, <2>4, <3>1, <3>6 DEF Queued, CreditInv
    <2> QED BY <2>5, <2>6
<1> QED BY <1>4, <1>5, <1>6, <1>7 DEF Host

-----------------------------------------------------------------------------
(* The types *)

\* What the queues and the clients aside.
RestTyped ==
    /\ far \in BOOLEAN /\ bridge \in BOOLEAN /\ window \in Windows
    /\ pane \in Panes
    /\ taken \in Nat /\ ticket \in 0..taken /\ calls \subseteq Calls
    /\ session \in Statuses /\ quit \in Stages
    /\ prints \in 0..MaxPrints /\ failures \in 0..MaxFailures

LEMMA TypeParts == TypeOK <=> HostTyped /\ Queued /\ RestTyped
BY DEF TypeOK, HostTyped, Queued, RestTyped, Panes, Statuses, Stages

LEMMA AnswerTyped ==
    ASSUME pane \in Panes, NEW call, NEW at \in {"answered", "overlay"}, Answer(call, at)
    PROVE  pane' \in Panes
BY DEF Answer, Panes

LEMMA ResolvesTyped ==
    ASSUME RestTyped, NEW call, Resolves(call)
    PROVE  pane' \in Panes /\ failures' \in 0..MaxFailures
<1>1. pane' \in Panes
    BY AnswerTyped DEF Resolves, RestTyped
<1>2. failures' \in 0..MaxFailures
    BY Watermarks DEF Resolves, SpawnFails, RestTyped
<1> QED BY <1>1, <1>2

LEMMA MainRest ==
    ASSUME RestTyped, Queued, MainReads
    PROVE  RestTyped'
<1> DEFINE msg == Head(toMain)
           call == [ticket |-> taken + 1, mount |-> msg.mount, window |-> window]
<1>1. msg \in ToMain /\ UNCHANGED <<far, bridge, window, session, quit, prints>>
    BY HeadTailProperties DEF MainReads, Queued
<1>2. CASE msg.kind = "attach"
    <2>1. IF quit = "no" THEN TakesTicket(call) ELSE Refused(call)
        <3>1. [[ticket |-> taken + 1, mount |-> pane.mount, window |-> window]
                   EXCEPT !.mount = msg.mount] = call
            OBVIOUS
        <3> QED BY <1>2, <3>1 DEF MainReads
    <2>2. call \in Calls /\ call.ticket = taken + 1 /\ taken + 1 \in Nat
        BY <1>1, <1>2 DEF ToMain, Calls, RestTyped
    <2> HIDE DEF call, msg
    <2>3. CASE TakesTicket(call)
        <3>1. taken' = taken + 1 /\ ticket' \in 0..taken' /\ calls' \subseteq Calls
            BY <2>2, <2>3 DEF TakesTicket, RestTyped
        <3>2. pane' \in Panes /\ failures' \in 0..MaxFailures
            BY <2>3, ResolvesTyped DEF TakesTicket, RestTyped
        <3> QED BY <1>1, <2>2, <3>1, <3>2 DEF RestTyped
    <2>4. CASE Refused(call)
        <3>1. pane' \in Panes
            BY <2>4, AnswerTyped DEF Refused, RestTyped
        <3> QED BY <1>1, <2>4, <3>1 DEF Refused, RestTyped, callVars
    <2> QED BY <2>1, <2>3, <2>4
<1>3. CASE msg.kind = "detach" /\ DetachSession
    BY <1>1, <1>3 DEF DetachSession, RestTyped
<1>4. CASE msg.kind = "ack" /\ Heard(msg)
    BY <1>1, <1>4 DEF Heard, RestTyped, callVars
<1> QED BY <1>2, <1>3, <1>4 DEF MainReads

LEMMA RestStep ==
    ASSUME Base, [Next]_vars
    PROVE  RestTyped'
<1>1. RestTyped /\ Queued
    BY TypeParts DEF Base
<1>2. CASE UNCHANGED vars
    BY <1>1, <1>2 DEF RestTyped, vars, windowVars, callVars
<1>3. CASE Mount \/ AsksForAttach \/ Unmount \/ Reload \/ PageReads
    <2>1. pane' \in Panes
        <3>1. pane \in Panes /\ pane.mount \in 0..MaxMounts
            BY <1>1 DEF RestTyped, Panes, Mounts
        <3>2. CASE Mount
            BY <3>1, <3>2, Watermarks DEF Mount, Panes, Mounts
        <3>3. CASE AsksForAttach \/ Unmount \/ Reload
            BY <3>1, <3>3 DEF AsksForAttach, Unmount, Reload, Panes
        <3>4. CASE PageReads
            BY <3>1, <3>4 DEF PageReads, Panes
        <3> QED BY <1>3, <3>2, <3>3, <3>4
    <2> QED BY <1>1, <1>3, <2>1
        DEF Mount, AsksForAttach, Unmount, Reload, PageReads, RestTyped, callVars
<1>4. CASE MainReads
    BY <1>1, <1>4, MainRest
<1>5. ASSUME NEW call \in calls, WaitEnds(call) PROVE RestTyped'
    <2>1. pane' \in Panes /\ failures' \in 0..MaxFailures
        BY <1>1, <1>5, ResolvesTyped, AnswerTyped DEF WaitEnds, RestTyped
    <2> QED BY <1>1, <1>5, <2>1 DEF WaitEnds, RestTyped
<1>6. CASE KillSession \/ BeginShutdown \/ Disposes
    BY <1>1, <1>6
    DEF KillSession, BeginShutdown, Disposes, RestTyped, windowVars, callVars, Statuses, Stages
<1>7. CASE CloseWindow
    BY <1>1, <1>7, Watermarks DEF CloseWindow, RestTyped, callVars, Panes, Windows
<1>8. ASSUME NEW c \in Clients, Host(c) PROVE RestTyped'
    <2>1. prints' \in 0..MaxPrints
        <3>1. prints' = prints \/ (prints < MaxPrints /\ prints' = prints + 1)
            BY <1>8 DEF Host, Prints, FlushTimer, GraceEnds, Exits
        <3> QED BY <1>1, <3>1, Watermarks DEF RestTyped
    <2>2. session' \in Statuses
        BY <1>1, <1>8 DEF Host, Prints, FlushTimer, GraceEnds, Exits, RestTyped, Statuses
    <2>3. UNCHANGED <<far, bridge, window, pane, taken, ticket, calls, quit, failures>>
        BY <1>8 DEF Host, Prints, FlushTimer, GraceEnds, Exits, windowVars, callVars
    <2> QED BY <1>1, <2>1, <2>2, <2>3 DEF RestTyped
<1> QED BY <1>2, <1>3, <1>4, <1>5, <1>6, <1>7, <1>8 DEF Next, Person

\* The core of the invariant: what the queues hold and what the host counts.
LEMMA BaseStep ==
    ASSUME Base, [Next]_vars
    PROVE  Base'
<1>1. HostKept' /\ CreditInv' /\ Queued'
    <2>1. CASE UNCHANGED vars
        BY <2>1, BaseHost
        DEF HostKept, HostTyped, HostInv, FlowInv, CreditInv, Queued, OnTheWay, Bytes, Units,
            vars, windowVars, hostVars
    <2> QED BY <2>1, PageHost, MainHost, WaitHost, CoreHost, ClientHost DEF Next, Person
<1>2. TypeOK'
    BY <1>1, RestStep
    DEF HostKept, TypeOK, HostTyped, Queued, RestTyped, Panes, Statuses, Stages
<1> QED BY <1>1, <1>2 DEF Base, HostKept

LEMMA BaseInit == Init => Base
<1> SUFFICES ASSUME Init PROVE Base
    OBVIOUS
<1>1. TypeOK
    BY Watermarks, FlowTyped, EmptySeq
    DEF Init, TypeOK, Windows, Mounts, Clients, None
<1>2. \A c \in Clients : client[c] = Flow("unborn")
    BY DEF Init
<1>3. HostInv /\ FlowInv /\ CreditInv
    BY <1>2, FlowTyped, Watermarks DEF Init, HostInv, FlowInv, CreditInv
<1> QED BY <1>1, <1>3 DEF Base

\* Every variable keeps its type.  In particular no batch ever holds FlushNow units
\* that wait, for the print that fills it sends it (onData and flush).
THEOREM TypeCorrect == Spec => []TypeOK
<1>1. Base /\ [Next]_vars => Base'
    BY BaseStep
<1>2. Base => TypeOK
    BY DEF Base
<1> QED BY BaseInit, <1>1, <1>2, PTL DEF Spec

-----------------------------------------------------------------------------
(* The pane, and the attach calls that wait *)

AskInv == TicketInv /\ MountInv /\ AskedInv

\* An exit message tells the page that nothing serves it.
ExitComes == \E k \in 1..Len(toPage) : toPage[k].kind = "exit"

\* What the page says and what the main process waits for are as they were.
LEMMA AskStays ==
    ASSUME AskInv, UNCHANGED <<far, window, pane, toMain, taken, ticket, calls>>
    PROVE  AskInv'
BY DEF AskInv, TicketInv, MountInv, AskedInv, OnlyAcks, AsksHere

\* The window of a client never changes, so that a queue to the page that loses no exit
\* message keeps what a pane waits for.
LEMMA FarStays ==
    ASSUME FarInv, UNCHANGED <<far, window, current>>,
           current # None => client'[current].window = client[current].window,
           pane'.at = "answered" => pane.at = "answered",
           quit' = "no" => quit = "no",
           ExitComes /\ pane'.at = "answered" => ExitComes'
    PROVE  FarInv'
BY DEF FarInv, FarPaneIsServed, ExitComes

LEMMA ExitAppended ==
    ASSUME NEW q \in Seq(ToPage), NEW m \in ToPage
    PROVE  \A k \in 1..(Len(q) + 1) :
               Append(q, m)[k] = IF k \in 1..Len(q) THEN q[k] ELSE m
BY AppendProperties, LenProperties

\* The page appends to its queue: an acknowledgement, or nothing.
LEMMA MainAppended ==
    ASSUME Queued, NEW m \in ToMain, toMain' = Append(toMain, m)
    PROVE  /\ Len(toMain) \in Nat /\ Len(toMain') = Len(toMain) + 1
           /\ \A k \in 1..Len(toMain') :
                  toMain'[k] = IF k \in 1..Len(toMain) THEN toMain[k] ELSE m
BY AppendProperties, LenProperties DEF Queued

LEMMA PagePane ==
    ASSUME Base, PaneInv, Mount \/ AsksForAttach \/ Unmount \/ Reload \/ PageReads
    PROVE  PaneInv'
<1>1. /\ pane \in Panes /\ pane.mount \in Nat /\ Queued /\ toPage \in Seq(ToPage)
      /\ Len(toMain) \in Nat /\ current \in Clients \cup {None}
      /\ \A call \in calls : call.mount \in Nat
      /\ \A k \in 1..Len(toMain) : toMain[k] \in ToMain
    BY BaseHost, LenProperties, ElementOfSeq
    DEF TypeOK, Panes, Mounts, Calls, Queued
<1>2. /\ UNCHANGED <<far, window, taken, ticket, calls, client, current, quit>>
      /\ AskInv /\ TicketInv /\ MountInv /\ AskedInv /\ FarInv
    BY DEF Mount, AsksForAttach, Unmount, Reload, PageReads, callVars, hostVars, PaneInv,
           AskInv
<1>3. TicketInv'
    BY <1>2 DEF TicketInv
<1>4. \A k \in 1..Len(toMain) : toMain[k].kind = "attach" => toMain[k].mount \in Nat
    BY <1>1 DEF ToMain, Mounts
<1>5. CASE Mount
    <2>1. /\ pane'.mount = pane.mount + 1 /\ pane'.at = "mounted"
          /\ UNCHANGED <<toMain, toPage>>
        BY <1>5 DEF Mount
    <2>2. MountInv'
        BY <1>1, <1>2, <1>4, <2>1 DEF MountInv
    <2>3. AskedInv' /\ FarInv'
        BY <1>2, <2>1 DEF AskedInv, FarInv, FarPaneIsServed
    <2> QED BY <1>3, <2>2, <2>3 DEF PaneInv
<1>6. CASE AsksForAttach
    <2> DEFINE m == [kind |-> "attach", mount |-> pane.mount]
    <2>1. /\ pane.at = "mounted" /\ pane'.mount = pane.mount /\ pane'.at = "asked"
          /\ UNCHANGED toPage /\ toMain' = Append(toMain, m)
        BY <1>1, <1>6 DEF AsksForAttach, Panes
    <2>2. m \in ToMain
        BY BaseHost, BatchTyped DEF TypeOK
    <2>3. /\ Len(toMain') = Len(toMain) + 1
          /\ \A k \in 1..Len(toMain') :
                 toMain'[k] = IF k \in 1..Len(toMain) THEN toMain[k] ELSE m
        BY <1>1, <2>1, <2>2, MainAppended
    <2>4. \A k \in 1..Len(toMain) : toMain[k].kind = "attach" =>
              toMain[k].mount <= pane.mount /\ toMain[k].mount # pane.mount
        BY <1>2, <2>1 DEF MountInv
    <2>5. \A call \in calls : call.mount <= pane.mount /\ call.mount # pane.mount
        BY <1>2, <2>1 DEF MountInv
    <2>6. \A k \in 1..Len(toMain') : toMain'[k].kind = "attach" =>
              /\ toMain'[k].mount <= pane'.mount
              /\ toMain'[k].mount = pane'.mount => k = Len(toMain')
        BY <1>1, <2>1, <2>3, <2>4
    <2>7. MountInv'
        <3>1. \A k \in 1..Len(toMain') : k = Len(toMain') => OnlyAcks(k + 1)'
            BY <1>1, <2>3 DEF OnlyAcks
        <3> QED BY <1>2, <2>1, <2>5, <2>6, <3>1 DEF MountInv
    <2>8. AskedInv'
        <3>1. \E k \in 1..Len(toMain') : /\ toMain'[k].kind = "attach"
                                         /\ toMain'[k].mount = pane'.mount
            <4>1. Len(toMain') \in 1..Len(toMain') /\ toMain'[Len(toMain')] = m
                BY <1>1, <2>3
            <4> QED BY <2>1, <4>1
        <3> QED BY <2>1, <3>1 DEF AskedInv, AsksHere
    <2>9. FarInv'
        BY <1>2, <2>1 DEF FarInv, FarPaneIsServed
    <2> QED BY <1>3, <2>7, <2>8, <2>9 DEF PaneInv
<1>7. CASE Unmount \/ Reload
    <2>1. pane'.mount = pane.mount /\ pane'.at = "none"
        BY <1>1, <1>7 DEF Unmount, Reload, Panes
    <2>2. \A k \in 1..Len(toMain') : toMain'[k].kind = "attach" =>
              toMain'[k].mount <= pane'.mount
        <3>1. CASE Unmount
            <4>1. [kind |-> "detach"] \in ToMain /\ toMain' = Append(toMain, [kind |-> "detach"])
                BY <3>1, BatchTyped DEF Unmount
            <4> QED BY <1>1, <1>2, <2>1, <4>1, MainAppended DEF MountInv
        <3>2. CASE Reload
            BY <1>2, <2>1, <3>2 DEF Reload, MountInv
        <3> QED BY <1>7, <3>1, <3>2
    <2>3. MountInv'
        BY <1>2, <2>1, <2>2 DEF MountInv
    <2>4. AskedInv' /\ FarInv'
        BY <1>2, <2>1 DEF AskedInv, FarInv, FarPaneIsServed
    <2> QED BY <1>3, <2>3, <2>4 DEF PaneInv
<1>8. CASE PageReads
    <2> DEFINE msg == Head(toPage)
               ack == [msg EXCEPT !.kind = "ack"]
    <2>1. /\ toPage # <<>> /\ toPage' = Tail(toPage) /\ msg \in ToPage
          /\ Len(toPage) \in Nat /\ Len(toPage') = Len(toPage) - 1 /\ msg = toPage[1]
          /\ \A k \in 1..Len(toPage') : toPage'[k] = toPage[k + 1]
        BY <1>1, <1>8, HeadTailProperties, LenProperties DEF PageReads
    <2>2. CASE msg.kind = "data"
        <3>1. pane' = pane /\ (toMain' = toMain \/ toMain' = Append(toMain, ack))
            BY <1>8, <2>2 DEF PageReads
        <3>2. ack \in ToMain /\ ack.kind = "ack"
            BY <2>1, <2>2 DEF ToPage, ToMain
        <3> HIDE DEF ack
        <3>3. /\ Len(toMain') \in Nat /\ Len(toMain) <= Len(toMain')
              /\ \A k \in 1..Len(toMain') :
                     IF k \in 1..Len(toMain) THEN toMain'[k] = toMain[k]
                     ELSE toMain'[k].kind = "ack"
            <4>1. CASE toMain' = toMain
                BY <1>1, <4>1
            <4>2. CASE toMain' = Append(toMain, ack)
                BY <1>1, <3>2, <4>2, MainAppended
            <4> QED BY <3>1, <4>1, <4>2
        <3>4. \A k \in 1..(Len(toMain) + 1) : OnlyAcks(k) => OnlyAcks(k)'
            BY <1>1, <3>3 DEF OnlyAcks
        <3>5. \A k \in 1..Len(toMain') : AsksHere(k)' <=> k \in 1..Len(toMain) /\ AsksHere(k)
            BY <1>1, <3>1, <3>3 DEF AsksHere
        <3>6. MountInv'
            <4>1. \A k \in 1..Len(toMain') : toMain'[k].kind = "attach" =>
                      /\ toMain'[k].mount <= pane'.mount
                      /\ pane'.at = "mounted" => toMain'[k].mount # pane'.mount
                      /\ pane'.at = "asked" /\ toMain'[k].mount = pane'.mount
                             => OnlyAcks(k + 1)'
                <5> TAKE k \in 1..Len(toMain')
                <5> HAVE toMain'[k].kind = "attach"
                <5>1. k \in 1..Len(toMain) /\ toMain'[k] = toMain[k]
                      /\ k + 1 \in 1..(Len(toMain) + 1)
                    BY <1>1, <3>3
                <5> QED BY <1>2, <3>1, <3>4, <5>1 DEF MountInv
            <4>2. (\E k \in 1..Len(toMain') : AsksHere(k)')
                      => \E k \in 1..Len(toMain) : AsksHere(k)
                BY <3>5
            <4> QED BY <1>2, <3>1, <4>1, <4>2 DEF MountInv
        <3>7. AskedInv'
            <4>1. (\A k \in 1..Len(toMain') : ~AsksHere(k)')
                      => \A k \in 1..Len(toMain) : ~AsksHere(k)
                BY <1>1, <3>3, <3>5
            <4>2. OnlyAcks(1) => OnlyAcks(1)'
                BY <1>1, <3>4
            <4> QED BY <1>2, <3>1, <4>1, <4>2 DEF AskedInv
        <3>8. FarInv'
            <4>1. ExitComes => ExitComes'
                <5> SUFFICES ASSUME NEW k \in 1..Len(toPage), toPage[k].kind = "exit"
                             PROVE  ExitComes'
                    BY DEF ExitComes
                <5>1. k # 1
                    BY <2>1, <2>2
                <5>2. k - 1 \in 1..Len(toPage') /\ toPage'[k - 1] = toPage[k - 1 + 1]
                    BY <2>1, <5>1
                <5>3. toPage'[k - 1].kind = "exit"
                    BY <2>1, <5>2
                <5> QED BY <5>2, <5>3 DEF ExitComes
            <4> QED BY <1>2, <3>1, <4>1, FarStays
        <3> QED BY <1>3, <3>6, <3>7, <3>8 DEF PaneInv
    <2>3. CASE msg.kind = "exit"
        <3>1. /\ toMain' = toMain /\ pane'.mount = pane.mount
              /\ pane'.at \in {"none", "overlay"}
            BY <1>1, <1>8, <2>3 DEF PageReads, Panes
        <3>2. MountInv' /\ AskedInv'
            BY <1>2, <3>1 DEF MountInv, AskedInv
        <3>3. FarInv'
            BY <1>2, <3>1 DEF FarInv, FarPaneIsServed
        <3> QED BY <1>3, <3>2, <3>3 DEF PaneInv
    <2> QED BY <2>1, <2>2, <2>3, BatchTyped
<1> QED BY <1>5, <1>6, <1>7, <1>8

\* Whatever a client counts, it is of the window it was of.
LEMMA CountedWindow ==
    ASSUME NEW f \in Sending
    PROVE  Counted(f).window = f.window
<1>1. CASE f.free
    BY <1>1 DEF Counted, Sending
<1>2. CASE ~f.free
    BY <1>2 DEF Counted, Sending
<1> QED BY <1>1, <1>2

\* What neither asks nor answers: the clients, a kill, a close, the quit.
LEMMA ClientPane ==
    ASSUME Base, PaneInv, NEW c \in Clients, Host(c)
    PROVE  PaneInv'
<1>1. /\ Queued /\ toPage \in Seq(ToPage) /\ current \in Clients \cup {None}
      /\ client[c] \in Flows /\ client \in [Clients -> Flows]
      /\ client[c].at = "live" <=> c = current
      /\ client[c].at # "live" => client[c] = Flow(client[c].at)
      /\ FarInv
    BY BaseHost DEF HostKept, HostTyped, HostInv, Queued, PaneInv
<1>2. UNCHANGED <<far, window, pane, toMain, taken, ticket, calls, quit>>
    BY DEF Host, Prints, FlushTimer, GraceEnds, Exits, callVars, windowVars
<1>11. AskInv'
    BY <1>2, AskStays DEF AskInv, PaneInv
<1>3. ASSUME current' = current, ExitComes => ExitComes',
             current # None => client'[current].window = client[current].window
      PROVE  FarInv'
    BY <1>1, <1>2, <1>3, FarStays
<1>4. ASSUME UNCHANGED <<toPage, current>>,
             \A d \in Clients : client'[d].window = client[d].window
      PROVE  FarInv'
    <2>1. ExitComes => ExitComes'
        BY <1>4 DEF ExitComes
    <2>2. current # None => client'[current].window = client[current].window
        BY <1>1, <1>4
    <2> QED BY <1>4, <2>1, <2>2, <1>3
<1>5. ASSUME NEW f \in Sending, f.window = client[c].window, c = current, Flush(c, f)
      PROVE  FarInv'
    <2>1. CASE f.window # window
        BY <1>1, <1>2, <1>5, <2>1, Watermarks DEF FarInv, FarPaneIsServed
    <2>2. CASE f.window = window
        <3> DEFINE m == [kind |-> "data", of |-> c, bytes |-> f.pending]
        <3>1. /\ toPage' = Append(toPage, m) /\ current' = current
              /\ client' = [client EXCEPT ![c] = Counted(f)]
            BY <1>5, <2>2 DEF Flush
        <3>2. m \in ToPage /\ Counted(f).window = f.window
            BY <1>5, BatchTyped, CountedWindow DEF Sending
        <3> HIDE DEF m
        <3>3. client'[current].window = client[current].window
            BY <1>1, <1>5, <3>1, <3>2
        <3>4. ExitComes => ExitComes'
            <4>1. /\ Len(toPage') = Len(toPage) + 1 /\ Len(toPage) \in Nat
                  /\ \A k \in 1..Len(toPage) : toPage'[k] = toPage[k]
                BY <1>1, <3>1, <3>2, AppendProperties
            <4> QED BY <4>1 DEF ExitComes
        <3> QED BY <1>3, <3>1, <3>3, <3>4
    <2> QED BY <2>1, <2>2
<1>6. Flow("unborn").pending = 0 /\ \A at : Flow(at).pending = 0 /\ ~Flow(at).grace
    BY DEF Flow
<1>7. ASSUME Prints(c) PROVE FarInv'
    <2> DEFINE f == [client[c] EXCEPT !.pending = @ + 1]
    <2>1. /\ client[c].at = "live" /\ c = current /\ client[c].pending \in 0..(FlushNow - 1)
          /\ Flush(c, f) \/ (client' = [client EXCEPT ![c] = f] /\ UNCHANGED <<toPage, current>>)
        <3>1. /\ client[c].at = "live"
              /\ IF f.pending >= FlushNow THEN Flush(c, f)
                 ELSE client' = [client EXCEPT ![c] = f] /\ UNCHANGED <<toPage, current>>
            BY <1>7 DEF Prints, Accepts
        <3> HIDE DEF f
        <3>2. Flush(c, f) \/ (client' = [client EXCEPT ![c] = f] /\ UNCHANGED <<toPage, current>>)
            BY <3>1
        <3>3. client[c].pending \in 0..(FlushNow - 1) /\ c = current
            BY <1>1, <3>1 DEF Flows
        <3> QED BY <3>1, <3>2, <3>3
    <2>2. f \in Sending /\ f.window = client[c].window
        <3>1. client[c].pending + 1 \in 1..FlushNow
            BY <2>1, Watermarks
        <3> QED BY <1>1, <2>1, <3>1 DEF Sending, Flows
    <2> HIDE DEF f
    <2>3. CASE client' = [client EXCEPT ![c] = f] /\ UNCHANGED <<toPage, current>>
        <3>1. \A d \in Clients : client'[d].window = client[d].window
            BY <1>1, <2>2, <2>3
        <3> QED BY <1>4, <2>3, <3>1
    <2>4. CASE Flush(c, f)
        BY <1>5, <2>1, <2>2, <2>4
    <2> QED BY <2>1, <2>3, <2>4
<1>8. ASSUME FlushTimer(c) PROVE FarInv'
    <2>1. client[c].pending \in 1..FlushNow /\ client[c].at = "live" /\ c = current
        BY <1>1, <1>6, <1>8, Watermarks DEF FlushTimer, Flows
    <2>2. client[c] \in Sending
        BY <1>1, <2>1 DEF Sending, Flows
    <2>3. Flush(c, client[c])
        BY <1>8 DEF FlushTimer
    <2> QED BY <1>5, <2>1, <2>2, <2>3
<1>9. ASSUME GraceEnds(c) PROVE FarInv'
    <2> DEFINE f == [client[c] EXCEPT !.grace = FALSE, !.free = TRUE, !.unacked = 0,
                                      !.paused = FALSE]
    <2>1. f.window = client[c].window
        BY <1>1 DEF Flows
    <2>2. client' = [client EXCEPT ![c] = f] /\ UNCHANGED <<toPage, current>>
        BY <1>1, <1>9 DEF GraceEnds, windowVars
    <2> HIDE DEF f
    <2>3. \A d \in Clients : client'[d].window = client[d].window
        BY <1>1, <2>1, <2>2
    <2> QED BY <1>4, <2>2, <2>3
<1>10. ASSUME Exits(c) PROVE FarInv'
    <2> DEFINE msg == [kind |-> "data", of |-> c, bytes |-> client[c].pending]
               exit == [kind |-> "exit"]
    <2>1. /\ client' = [client EXCEPT ![c] = Flow("gone")]
          /\ current' = (IF c = current THEN None ELSE current)
        BY <1>10 DEF Exits, StillCurrent
    <2>2. CASE c # current
        <3>1. toPage' = toPage \o <<>> \o <<>>
            BY <1>1, <1>10, <2>2 DEF Exits, StillCurrent
        <3>2. toPage' = toPage /\ current' = current
            BY <1>1, <2>1, <2>2, <3>1, ConcatEmptySeq
        <3>3. current # None => client'[current].window = client[current].window
            BY <1>1, <2>1, <2>2
        <3>4. ExitComes => ExitComes'
            BY <3>2 DEF ExitComes
        <3> QED BY <1>3, <3>2, <3>3, <3>4
    <2>3. CASE c = current
        <3>1. client[c].at = "live" /\ current' = None /\ c # None
            BY <1>1, <2>1, <2>3, Watermarks
        <3> SUFFICES ASSUME far PROVE ExitComes'
            BY <1>2, <3>1 DEF FarInv, FarPaneIsServed, ExitComes
        <3>2. client[c].window = window
            BY <1>1, <2>3, <3>1 DEF FarInv
        <3>3. \E last \in {<<msg>>, <<>>} :
                  /\ last = <<msg>> => client[c].pending > 0
                  /\ toPage' = toPage \o last \o <<exit>>
            BY <1>10, <3>1, <3>2 DEF Exits
        <3> PICK last \in {<<msg>>, <<>>} :
                  /\ last = <<msg>> => client[c].pending > 0
                  /\ toPage' = toPage \o last \o <<exit>>
            BY <3>3
        <3>4. msg \in ToPage \/ client[c].pending = 0
            <4>1. client[c].pending = 0 \/ client[c].pending \in 1..FlushNow
                BY <1>1, Watermarks DEF Flows
            <4> QED BY <4>1, BatchTyped
        <3>5. toPage \o last \in Seq(ToPage) /\ exit \in ToPage /\ exit.kind = "exit"
            <4>1. exit \in ToPage
                BY BatchTyped
            <4> HIDE DEF msg
            <4>2. last = <<>> \/ (last = <<msg>> /\ msg \in ToPage)
                BY <3>4
            <4>3. <<>> \in Seq(ToPage) /\ (msg \in ToPage => <<msg>> \in Seq(ToPage))
                BY EmptySeq
            <4>4. last \in Seq(ToPage)
                BY <4>2, <4>3
            <4> QED BY <1>1, <4>1, <4>4, ConcatProperties
        <3> HIDE DEF msg, exit
        <3>6. toPage' = Append(toPage \o last, exit)
            BY <3>5
        <3>7. /\ Len(toPage') = Len(toPage \o last) + 1 /\ Len(toPage \o last) \in Nat
              /\ toPage'[Len(toPage \o last) + 1] = exit
            BY <3>5, <3>6, AppendProperties
        <3> QED BY <3>5, <3>7 DEF ExitComes
    <2> QED BY <2>2, <2>3
<1> QED BY <1>11, <1>7, <1>8, <1>9, <1>10 DEF Host, PaneInv, AskInv

LEMMA CorePane ==
    ASSUME Base, PaneInv, KillSession \/ CloseWindow \/ BeginShutdown \/ Disposes
    PROVE  PaneInv'
<1>1. /\ Queued /\ toPage \in Seq(ToPage) /\ pane \in Panes
      /\ AskInv /\ TicketInv /\ MountInv /\ FarInv
    BY BaseHost DEF TypeOK, Panes, Queued, PaneInv, AskInv
<1>2. CASE CloseWindow
    <2>1. /\ pane'.at = "none" /\ pane'.mount = pane.mount /\ toMain' = <<>>
          /\ UNCHANGED <<far, taken, ticket, calls>>
        BY <1>1, <1>2 DEF CloseWindow, callVars, Panes
    <2>2. TicketInv' /\ MountInv' /\ AskedInv'
        BY <1>1, <2>1 DEF TicketInv, MountInv, AskedInv
    <2>3. far => current' = None
        BY <1>1, <1>2 DEF CloseWindow, HostDetach, FarInv, hostVars
    <2> QED BY <2>1, <2>2, <2>3 DEF PaneInv, FarInv, FarPaneIsServed
<1>3. CASE KillSession \/ BeginShutdown \/ Disposes
    <2>1. AskInv'
        <3>1. UNCHANGED <<far, window, pane, toMain, taken, ticket, calls>>
            BY <1>3 DEF KillSession, BeginShutdown, Disposes, windowVars, callVars
        <3> QED BY <1>1, <3>1, AskStays
    <2>2. FarInv'
        <3>1. CASE KillSession
            <4>1. [kind |-> "exit"] \in ToPage
                BY BatchTyped
            <4>2. /\ Len(toPage') = Len(toPage) + 1 /\ Len(toPage) \in Nat
                  /\ toPage'[Len(toPage) + 1] = [kind |-> "exit"] /\ current' = None
                BY <1>1, <3>1, <4>1, AppendProperties DEF KillSession, HostDetach
            <4> QED BY <4>2 DEF FarInv, FarPaneIsServed
        <3>2. CASE BeginShutdown
            BY <1>1, <3>2
            DEF BeginShutdown, FarInv, FarPaneIsServed, hostVars, windowVars
        <3>3. CASE Disposes
            BY <3>3 DEF Disposes, HostDetach, FarInv, FarPaneIsServed
        <3> QED BY <1>3, <3>1, <3>2, <3>3
    <2> QED BY <2>1, <2>2 DEF PaneInv, AskInv
<1> QED BY <1>2, <1>3

\* An answer is for the mount that asked, and changes no other pane.
LEMMA Answers ==
    ASSUME pane \in Panes, NEW call, NEW at \in {"answered", "overlay"}, Answer(call, at)
    PROVE  /\ pane'.mount = pane.mount
           /\ \/ pane' = pane /\ ~(/\ pane.at = "asked" /\ pane.mount = call.mount
                                   /\ call.window = window)
              \/ /\ pane.at = "asked" /\ pane.mount = call.mount /\ call.window = window
                 /\ pane'.at = at
<1>1. pane = [mount |-> pane.mount, at |-> pane.at]
    BY DEF Panes
<1>2. CASE pane = [mount |-> call.mount, at |-> "asked"] /\ call.window = window
    BY <1>1, <1>2 DEF Answer, Panes
<1>3. CASE ~(pane = [mount |-> call.mount, at |-> "asked"] /\ call.window = window)
    BY <1>1, <1>3 DEF Answer
<1> QED BY <1>2, <1>3

\* A wait that ends, for another machine's list or this Mac's.
LEMMA WaitAsk ==
    ASSUME Base, PaneInv, NEW call \in calls, calls' = calls \ {call},
           UNCHANGED <<far, window, toMain, taken, ticket>>,
           NEW at \in {"answered", "overlay"}, Answer(call, at)
    PROVE  /\ AskInv'
           /\ \/ pane' = pane
              \/ /\ pane.at = "asked" /\ pane'.at = at
                 /\ call.ticket = ticket /\ call.window = window
<1>1. /\ pane \in Panes /\ TicketInv /\ MountInv /\ AskedInv
      /\ \A other \in calls' : other \in calls /\ other # call
    BY DEF Base, TypeOK, Panes, PaneInv
<1>2. TicketInv'
    BY <1>1 DEF TicketInv
<1>3. CASE pane' = pane
    <2>1. MountInv'
        BY <1>1, <1>3 DEF MountInv, OnlyAcks, AsksHere
    <2>2. AskedInv'
        BY <1>1, <1>3 DEF AskedInv, OnlyAcks, AsksHere
    <2> QED BY <1>2, <1>3, <2>1, <2>2 DEF AskInv
<1>4. CASE /\ pane.at = "asked" /\ pane.mount = call.mount /\ pane'.mount = pane.mount
           /\ pane'.at = at
    <2>1. \A k \in 1..Len(toMain) : ~AsksHere(k)
        BY <1>1, <1>4 DEF MountInv
    <2>2. OnlyAcks(1) /\ call.ticket = ticket /\ call.window = window
        BY <1>1, <1>4, <2>1 DEF AskedInv
    <2>3. \A other \in calls' : other.ticket # ticket
        BY <1>1, <2>2 DEF TicketInv
    <2>4. MountInv'
        BY <1>1, <1>4 DEF MountInv
    <2>5. AskedInv'
        BY <1>4, <2>2, <2>3 DEF AskedInv, OnlyAcks
    <2> QED BY <1>2, <1>4, <2>2, <2>4, <2>5 DEF AskInv
<1> QED BY <1>1, <1>3, <1>4, Answers

\* The client that takes its place is of the window that asked for it.
LEMMA AttachWindow ==
    ASSUME Base, NEW w \in Windows, HostAttach(w)
    PROVE  current' \in Clients /\ client'[current'].window = w
<1> DEFINE owed == OnTheWay(Clients)
<1>1. owed \in Nat
    BY BaseHost, QueuedBytes
<1> HIDE DEF owed
<1> QED BY <1>1, BaseHost, AttachKeeps DEF owed

LEMMA WaitPane ==
    ASSUME Base, PaneInv, NEW call \in calls, WaitEnds(call)
    PROVE  PaneInv'
<1>1. /\ calls' = calls \ {call}
      /\ UNCHANGED <<far, window, toMain, toPage, taken, ticket, quit>>
      /\ IF GoesOn(call) THEN Resolves(call)
         ELSE Answer(call, "answered") /\ UNCHANGED <<hostVars, failures>>
    BY DEF WaitEnds
<1>2. /\ TicketInv /\ AskedInv /\ FarInv /\ call.window \in Windows
      /\ current \in Clients \cup {None} /\ None \notin Clients
    BY Watermarks DEF Base, TypeOK, Calls, PaneInv
<1>3. ASSUME NEW at \in {"answered", "overlay"}, Answer(call, at)
      PROVE  /\ AskInv'
             /\ \/ pane' = pane
                \/ /\ pane.at = "asked" /\ pane'.at = at
                   /\ call.ticket = ticket /\ call.window = window
    BY <1>1, <1>3, WaitAsk
<1>4. AskInv'
    BY <1>1, <1>3 DEF Resolves
<1>5. ASSUME UNCHANGED hostVars, pane'.at = "answered" => pane.at = "answered"
      PROVE  FarInv'
    BY <1>1, <1>2, <1>5, FarStays DEF hostVars, ExitComes
<1>6. ASSUME GoesOn(call), HostAttach(call.window) PROVE FarInv'
    <2>1. current' # None /\ client'[current'].window = call.window
        BY <1>2, <1>6, AttachWindow
    <2> QED BY <1>1, <1>6, <2>1 DEF FarInv, FarPaneIsServed, GoesOn, Wanted
<1>7. ASSUME GoesOn(call), SpawnFails, Answer(call, "overlay") PROVE FarInv'
    <2>1. current' = None
        BY <1>7 DEF SpawnFails, HostDetach
    <2>2. far /\ pane'.at = "answered" => pane.at = "answered" /\ call.ticket = ticket
        BY <1>3, <1>7 DEF GoesOn, Wanted
    <2> QED BY <1>1, <1>2, <2>1, <2>2 DEF FarInv, FarPaneIsServed, AskedInv
<1>8. ASSUME Answer(call, "overlay"), UNCHANGED hostVars PROVE FarInv'
    BY <1>3, <1>5, <1>8
<1>9. ASSUME ~GoesOn(call), Answer(call, "answered"), UNCHANGED hostVars PROVE FarInv'
    <2>1. CASE pane' = pane
        BY <1>5, <1>9, <2>1
    <2>2. CASE call.ticket = ticket /\ call.window = window
        <3>1. far /\ quit # "no"
            BY <1>9, <2>2 DEF GoesOn, Wanted
        <3> QED BY <1>1, <1>2, <1>9, <3>1 DEF FarInv, FarPaneIsServed, hostVars
    <2> QED BY <1>3, <1>9, <2>1, <2>2
<1>10. FarInv'
    <2>1. CASE GoesOn(call)
        BY <1>1, <1>6, <1>7, <1>8, <2>1 DEF Resolves
    <2>2. CASE ~GoesOn(call)
        BY <1>1, <1>9, <2>2
    <2> QED BY <2>1, <2>2
<1> QED BY <1>4, <1>10 DEF PaneInv, AskInv

\* The main process takes the first message of the page off the queue.
LEMMA Taking ==
    ASSUME Base, toMain # <<>>, toMain' = Tail(toMain), UNCHANGED window
    PROVE  /\ Len(toMain) \in Nat \ {0} /\ Len(toMain') = Len(toMain) - 1
           /\ Head(toMain) = toMain[1] /\ Head(toMain) \in ToMain
           /\ \A k \in 1..Len(toMain') : toMain'[k] = toMain[k + 1]
           /\ \A k \in 1..Len(toMain) : OnlyAcks(k + 1) => OnlyAcks(k)'
<1>1. /\ toMain \in Seq(ToMain) /\ Len(toMain) \in Nat \ {0}
      /\ Len(toMain') = Len(toMain) - 1
      /\ Head(toMain) = toMain[1] /\ Head(toMain) \in ToMain
      /\ \A k \in 1..Len(toMain') : toMain'[k] = toMain[k + 1]
    BY BaseHost, HeadTailProperties, LenProperties, EmptySeq DEF Queued
<1>2. \A k \in 1..Len(toMain) : OnlyAcks(k + 1) => OnlyAcks(k)'
    BY <1>1 DEF OnlyAcks
<1> QED BY <1>1, <1>2

\* The page's queue loses a message that is no ask of the mount there is, and nothing is
\* answered: its asks are where they were, one place nearer.
LEMMA TakenMounts ==
    ASSUME Base, PaneInv, toMain # <<>>, toMain' = Tail(toMain), UNCHANGED window,
           pane'.mount = pane.mount,
           pane'.at \in {"mounted", "asked"} => pane'.at = pane.at
    PROVE  /\ \A k \in 1..Len(toMain') : toMain'[k].kind = "attach" =>
                  /\ toMain'[k].mount <= pane'.mount
                  /\ pane'.at = "mounted" => toMain'[k].mount # pane'.mount
                  /\ pane'.at = "asked" /\ toMain'[k].mount = pane'.mount => OnlyAcks(k + 1)'
           /\ (\E k \in 1..Len(toMain') : AsksHere(k)') => \E k \in 1..Len(toMain) : AsksHere(k)
           /\ AsksHere(1) \/ ((\A k \in 1..Len(toMain') : ~AsksHere(k)')
                                  => \A k \in 1..Len(toMain) : ~AsksHere(k))
<1>1. /\ Len(toMain) \in Nat \ {0} /\ Len(toMain') = Len(toMain) - 1
      /\ \A k \in 1..Len(toMain') : toMain'[k] = toMain[k + 1]
      /\ \A k \in 1..Len(toMain) : OnlyAcks(k + 1) => OnlyAcks(k)'
      /\ MountInv
    BY Taking DEF PaneInv
<1>2. ASSUME NEW k \in 1..Len(toMain'), toMain'[k].kind = "attach"
      PROVE  /\ toMain'[k].mount <= pane'.mount
             /\ pane'.at = "mounted" => toMain'[k].mount # pane'.mount
             /\ pane'.at = "asked" /\ toMain'[k].mount = pane'.mount => OnlyAcks(k + 1)'
    <2> DEFINE j == k + 1
    <2>1. j \in 1..Len(toMain) /\ toMain'[k] = toMain[j]
        BY <1>1
    <2>2. OnlyAcks(j + 1) => OnlyAcks(j)'
        BY <1>1, <2>1
    <2> HIDE DEF j
    <2>3. /\ toMain[j].mount <= pane.mount
          /\ pane.at = "mounted" => toMain[j].mount # pane.mount
          /\ pane.at = "asked" /\ toMain[j].mount = pane.mount => OnlyAcks(j + 1)
        BY <1>1, <1>2, <2>1 DEF MountInv
    <2>4. OnlyAcks(j + 1) => OnlyAcks(k + 1)'
        BY <2>2 DEF j
    <2> QED BY <2>1, <2>3, <2>4
<1>3. \A k \in 1..Len(toMain') :
          k + 1 \in 1..Len(toMain) /\ (AsksHere(k)' <=> AsksHere(k + 1))
    BY <1>1 DEF AsksHere
<1>4. \A k \in 1..Len(toMain) : k = 1 \/ k - 1 \in 1..Len(toMain')
    BY <1>1
<1>5. \A k \in 1..Len(toMain) : k = 1 \/ (AsksHere(k - 1)' <=> AsksHere(k))
    <2> TAKE k \in 1..Len(toMain)
    <2>1. ASSUME k # 1 PROVE AsksHere(k - 1)' <=> AsksHere(k)
        BY <1>1, <1>4, <2>1 DEF AsksHere
    <2> QED BY <2>1
<1> QED BY <1>2, <1>3, <1>4, <1>5

\* An attach arrives, to be answered at once or to wait for its list.
LEMMA AttachAsk ==
    ASSUME Base, PaneInv, toMain # <<>>, toMain' = Tail(toMain), UNCHANGED <<far, window>>,
           Head(toMain).kind = "attach",
           NEW call, call.mount = Head(toMain).mount, call.window = window,
           call.ticket = taken + 1,
           \/ /\ taken' = call.ticket /\ ticket' = call.ticket
              /\ \/ calls' = calls
                 \/ calls' = calls \cup {call} /\ pane' = pane
           \/ UNCHANGED <<taken, ticket, calls>> /\ quit # "no",
           \/ pane' = pane /\ calls' = calls \cup {call}
           \/ \E at \in {"answered", "overlay"} :
                  /\ Answer(call, at)
                  /\ quit # "no" => at = "overlay"
    PROVE  AskInv' /\ (pane'.at = "answered" => pane.at = "asked" /\ quit = "no")
<1>1. /\ Len(toMain) \in Nat \ {0} /\ toMain[1] = Head(toMain)
      /\ OnlyAcks(2) => OnlyAcks(1)'
      /\ pane \in Panes /\ taken \in Nat /\ TicketInv /\ MountInv /\ AskedInv
      /\ 1 \in 1..Len(toMain) /\ 1 + 1 = 2
      /\ \A other \in calls : other.ticket \in Nat /\ other.ticket <= taken
    BY Taking DEF Base, TypeOK, Panes, Calls, PaneInv, TicketInv
<1>2. ~OnlyAcks(1)
    BY <1>1 DEF OnlyAcks
<1>3. pane.at # "answered"
    BY <1>1, <1>2 DEF AskedInv
<1>4. AsksHere(1) /\ pane.at = "asked" =>
          OnlyAcks(2) /\ \A other \in calls : other.mount # pane.mount
    BY <1>1 DEF MountInv, AsksHere
<1>5. pane'.mount = pane.mount
      /\ \/ pane' = pane /\ (calls' = calls \cup {call} \/ ~(pane.at = "asked" /\ AsksHere(1)))
         \/ /\ pane.at = "asked" /\ AsksHere(1) /\ pane'.at \in {"answered", "overlay"}
            /\ quit # "no" => pane'.at = "overlay"
    BY <1>1, Answers DEF AsksHere
<1>6. TicketInv'
    BY <1>1 DEF TicketInv
<1>7. /\ \A k \in 1..Len(toMain') : toMain'[k].kind = "attach" =>
             /\ toMain'[k].mount <= pane'.mount
             /\ pane'.at = "mounted" => toMain'[k].mount # pane'.mount
             /\ pane'.at = "asked" /\ toMain'[k].mount = pane'.mount => OnlyAcks(k + 1)'
      /\ (\E k \in 1..Len(toMain') : AsksHere(k)') => \E k \in 1..Len(toMain) : AsksHere(k)
      /\ AsksHere(1) \/ ((\A k \in 1..Len(toMain') : ~AsksHere(k)')
                             => \A k \in 1..Len(toMain) : ~AsksHere(k))
    BY <1>5, TakenMounts
<1>8. OnlyAcks(2) => \A k \in 1..Len(toMain') : ~AsksHere(k)'
    BY <1>1, Taking DEF OnlyAcks, AsksHere
<1>9. calls' = calls \/ calls' = calls \cup {call}
    OBVIOUS
<1>10. MountInv'
    <2>1. call.mount <= pane.mount /\ (pane.at = "mounted" => call.mount # pane.mount)
        BY <1>1 DEF MountInv
    <2>2. call.mount = pane.mount /\ pane.at = "asked" =>
              \A k \in 1..Len(toMain') : ~AsksHere(k)'
        BY <1>1, <1>4, <1>8 DEF AsksHere
    <2>3. ASSUME NEW other \in calls'
          PROVE  /\ other.mount <= pane'.mount
                 /\ pane'.at = "mounted" => other.mount # pane'.mount
                 /\ (\E k \in 1..Len(toMain') : AsksHere(k)') /\ pane'.at = "asked"
                        => other.mount # pane'.mount
        <3>1. CASE other \in calls
            <4>1. /\ other.mount <= pane.mount
                  /\ pane.at = "mounted" => other.mount # pane.mount
                  /\ (\E k \in 1..Len(toMain) : AsksHere(k)) /\ pane.at = "asked"
                         => other.mount # pane.mount
                BY <1>1, <3>1 DEF MountInv
            <4> QED BY <1>5, <1>7, <4>1
        <3>2. CASE other = call
            BY <1>5, <2>1, <2>2, <3>2
        <3> QED BY <1>9, <2>3, <3>1, <3>2
    <2> QED BY <1>7, <2>3 DEF MountInv
<1>11. AskedInv'
    <2>1. ASSUME pane'.at = "asked", \A k \in 1..Len(toMain') : ~AsksHere(k)'
          PROVE  /\ OnlyAcks(1)'
                 /\ \A other \in calls' : other.mount = pane'.mount =>
                        other.ticket = ticket' /\ other.window = window'
        <3>1. pane' = pane
            BY <1>5, <2>1
        <3>2. AsksHere(1)
            BY <1>1, <1>2, <1>7, <2>1, <3>1 DEF AskedInv
        <3>3. /\ OnlyAcks(1)' /\ \A other \in calls : other.mount # pane.mount
              /\ calls' = calls \cup {call}
            BY <1>1, <1>4, <1>5, <2>1, <3>1, <3>2
        <3>4. call \in calls => call.mount # pane.mount
            BY <3>3
        <3>5. call.mount = pane.mount
            BY <1>1, <3>2 DEF AsksHere
        <3>6. call.ticket = ticket'
            BY <3>3, <3>4, <3>5
        <3> QED BY <3>1, <3>3, <3>6
    <2>2. ASSUME pane'.at = "answered"
          PROVE  OnlyAcks(1)' /\ (far' => \A other \in calls' : other.ticket # ticket')
        <3>1. pane.at = "asked" /\ AsksHere(1) /\ quit = "no"
            BY <1>3, <1>5, <2>2
        <3>2. OnlyAcks(1)'
            BY <1>1, <1>4, <3>1
        <3>3. calls' = calls
            BY <1>3, <2>2
        <3>4. ticket' = taken + 1
            BY <3>1
        <3> QED BY <1>1, <3>2, <3>3, <3>4
    <2> QED BY <2>1, <2>2 DEF AskedInv
<1> QED BY <1>3, <1>5, <1>6, <1>10, <1>11 DEF AskInv

LEMMA MainPane ==
    ASSUME Base, PaneInv, MainReads
    PROVE  PaneInv'
<1> DEFINE msg == Head(toMain)
           call == [ticket |-> taken + 1, mount |-> msg.mount, window |-> window]
<1>1. /\ toMain # <<>> /\ toMain' = Tail(toMain) /\ UNCHANGED <<far, window, toPage, quit>>
      /\ Len(toMain) \in Nat \ {0} /\ toMain[1] = msg /\ msg \in ToMain
      /\ OnlyAcks(2) => OnlyAcks(1)'
      /\ OnlyAcks(1) => msg.kind = "ack"
      /\ pane \in Panes /\ window \in Windows /\ client \in [Clients -> Flows]
      /\ current \in Clients \cup {None} /\ None \notin Clients
      /\ TicketInv /\ MountInv /\ AskedInv /\ FarInv
    <2>1. toMain # <<>> /\ toMain' = Tail(toMain) /\ UNCHANGED <<far, window, toPage, quit>>
        BY DEF MainReads
    <2>2. 1 \in 1..Len(toMain) /\ 1 + 1 = 2
        BY <2>1, Taking
    <2> QED BY <2>1, <2>2, Taking, Watermarks DEF Base, TypeOK, Panes, OnlyAcks, PaneInv
<1>2. CASE msg.kind = "attach"
    <2>1. IF quit = "no" THEN TakesTicket(call) ELSE Refused(call)
        <3>1. [[ticket |-> taken + 1, mount |-> pane.mount, window |-> window]
                   EXCEPT !.mount = msg.mount] = call
            OBVIOUS
        <3> QED BY <1>2, <3>1 DEF MainReads
    <2>2. call.mount = msg.mount /\ call.window = window /\ call.ticket = taken + 1
        OBVIOUS
    <2> HIDE DEF call
    <2>3. /\ \/ /\ taken' = call.ticket /\ ticket' = call.ticket
                /\ calls' = calls \/ (calls' = calls \cup {call} /\ pane' = pane)
             \/ UNCHANGED <<taken, ticket, calls>> /\ quit # "no"
          /\ \/ pane' = pane /\ calls' = calls \cup {call}
             \/ \E at \in {"answered", "overlay"} :
                    Answer(call, at) /\ (quit # "no" => at = "overlay")
        BY <2>1 DEF TakesTicket, Refused, Resolves, callVars
    <2>4. AskInv' /\ (pane'.at = "answered" => pane.at = "asked" /\ quit = "no")
        BY <1>1, <1>2, <2>2, <2>3, AttachAsk
    <2>5. FarInv'
        <3>1. ASSUME HostAttach(window) PROVE FarInv'
            <4>1. current' # None /\ client'[current'].window = window
                BY <1>1, <3>1, AttachWindow
            <4> QED BY <1>1, <4>1 DEF FarInv, FarPaneIsServed
        <3>2. ASSUME UNCHANGED hostVars \/ HostDetach,
                     pane' = pane \/ Answer(call, "overlay")
              PROVE  FarInv'
            <4>1. pane'.at # "answered"
                <5>1. pane.at # "answered"
                    BY <1>1, <1>2 DEF AskedInv
                <5> QED BY <1>1, <3>2, <5>1, Answers
            <4> QED BY <1>1, <3>2, <4>1
                DEF FarInv, FarPaneIsServed, hostVars, HostDetach
        <3> QED BY <2>1, <2>2, <3>1, <3>2 DEF TakesTicket, Refused, Resolves, SpawnFails
    <2> QED BY <2>4, <2>5 DEF PaneInv, AskInv
<1>3. ASSUME msg.kind # "attach", pane' = pane, UNCHANGED <<taken, calls>>
      PROVE  TicketInv' /\ MountInv'
    <2>1. TicketInv'
        BY <1>1, <1>3 DEF TicketInv
    <2>2. /\ \A k \in 1..Len(toMain') : toMain'[k].kind = "attach" =>
                 /\ toMain'[k].mount <= pane'.mount
                 /\ pane'.at = "mounted" => toMain'[k].mount # pane'.mount
                 /\ pane'.at = "asked" /\ toMain'[k].mount = pane'.mount
                        => OnlyAcks(k + 1)'
          /\ (\E k \in 1..Len(toMain') : AsksHere(k)')
                 => \E k \in 1..Len(toMain) : AsksHere(k)
        BY <1>1, <1>3, TakenMounts
    <2>3. MountInv'
        BY <1>1, <1>3, <2>2 DEF MountInv
    <2> QED BY <2>1, <2>3
<1>4. CASE msg.kind = "detach" /\ DetachSession
    <2>1. TicketInv' /\ MountInv'
        BY <1>3, <1>4 DEF DetachSession
    <2>2. pane.at # "answered" /\ pane' = pane /\ current' = None
        BY <1>1, <1>4 DEF AskedInv, DetachSession, HostDetach
    <2>3. AskedInv'
        <3> SUFFICES ASSUME pane.at = "asked", \A k \in 1..Len(toMain') : ~AsksHere(k)'
                     PROVE  FALSE
            BY <2>2 DEF AskedInv
        <3>1. ~AsksHere(1)
            BY <1>1, <1>4 DEF AsksHere
        <3>2. \A k \in 1..Len(toMain) : ~AsksHere(k)
            BY <1>1, <2>2, <3>1, TakenMounts
        <3> QED BY <1>1, <1>4, <3>2 DEF AskedInv
    <2>4. FarInv'
        BY <2>2 DEF FarInv, FarPaneIsServed
    <2> QED BY <2>1, <2>3, <2>4 DEF PaneInv
<1>5. CASE msg.kind = "ack" /\ Heard(msg)
    <2>1. UNCHANGED <<pane, taken, ticket, calls, spawned, current>>
        BY <1>5 DEF Heard, callVars
    <2>2. TicketInv' /\ MountInv'
        BY <1>3, <1>5, <2>1
    <2>3. AskedInv'
        <3>1. OnlyAcks(1) => OnlyAcks(2)
            BY <1>1 DEF OnlyAcks
        <3>2. ~AsksHere(1)
            BY <1>1, <1>5 DEF AsksHere
        <3>3. (\A k \in 1..Len(toMain') : ~AsksHere(k)')
                  => \A k \in 1..Len(toMain) : ~AsksHere(k)
            BY <1>1, <2>1, <3>2, TakenMounts
        <3> QED BY <1>1, <2>1, <3>1, <3>3 DEF AskedInv
    <2>4. FarInv'
        <3>1. current # None => client'[current].window = client[current].window
            <4> SUFFICES ASSUME current # None, client[current].window = window
                         PROVE  client'[current].window = client[current].window
                BY <1>5 DEF Heard
            <4>1. client[current] \in Flows /\ current \in Clients
                BY <1>1
            <4>2. Acknowledged(client[current], msg.bytes).window = client[current].window
                BY <4>1 DEF Acknowledged, Flows
            <4>3. client' = [client EXCEPT ![current]
                                 = Acknowledged(client[current], msg.bytes)]
                BY <1>5 DEF Heard
            <4> HIDE DEF msg
            <4> QED BY <1>1, <4>1, <4>2, <4>3
        <3> QED BY <1>1, <2>1, <3>1, FarStays DEF ExitComes
    <2> QED BY <2>2, <2>3, <2>4 DEF PaneInv
<1> QED BY <1>2, <1>4, <1>5 DEF MainReads

LEMMA InvariantStep ==
    ASSUME IInv, [Next]_vars
    PROVE  IInv'
<1>1. Base /\ PaneInv
    BY DEF IInv, Base
<1>2. Base'
    BY <1>1, BaseStep
<1>3. PaneInv'
    <2>1. CASE UNCHANGED vars
        <3>1. AskInv'
            BY <1>1, <2>1, AskStays DEF vars, windowVars, callVars, PaneInv, AskInv
        <3>2. FarInv'
            BY <1>1, <2>1, FarStays DEF vars, windowVars, hostVars, PaneInv, ExitComes
        <3> QED BY <3>1, <3>2 DEF PaneInv, AskInv
    <2> QED BY <1>1, <2>1, PagePane, ClientPane, CorePane, WaitPane, MainPane
        DEF Next, Person
<1> QED BY <1>2, <1>3 DEF IInv, Base

LEMMA InvariantInit == Init => IInv
<1> SUFFICES ASSUME Init PROVE IInv
    OBVIOUS
<1>1. PaneInv
    BY DEF Init, PaneInv, TicketInv, MountInv, AskedInv, FarInv, FarPaneIsServed
<1> QED BY <1>1, BaseInit DEF IInv, Base

-----------------------------------------------------------------------------
(* What holds of the terminal *)

\* The queues, the clients' counts, the calls that wait and the pane agree, whatever
\* remounts, reloads, closed windows, failed spawns and late lists come between: the
\* invariant the properties below follow from.
THEOREM StreamInvariant == Spec => []IInv
BY InvariantInit, InvariantStep, PTL DEF Spec

\* A PTY nobody told to end is the one the host has in its map (attach, detach and the
\* exits of attach-host.ts).
THEOREM NoOrphanAlways == Spec => []NoOrphan
<1>1. IInv => NoOrphan
    BY DEF IInv, HostInv, NoOrphan
<1> QED BY <1>1, StreamInvariant, PTL

\* What is on its way to the page of a client whose valve did not open is at most the
\* high watermark and one batch, and what a former client had on its way (flush, the
\* acknowledgements of term:ack and the counts of attach-host.ts).
THEOREM BackpressureAlways == Spec => []Backpressure
<1>1. IInv => Backpressure
    <2> SUFFICES ASSUME IInv, current # None, ~client[current].free,
                        client[current].window = window
                 PROVE  Bytes(toPage, {current}) <= High + FlushNow + client[current].owed
        BY DEF Backpressure
    <2>1. current \in Clients /\ toPage \in Seq(ToPage) /\ Queued /\ client[current] \in Flows
        BY DEF IInv, TypeOK, Queued
    <2>2. Bytes(toPage, {current}) <= Bytes(toPage, Clients)
        BY <2>1, BytesOfFewer
    <2>3. Bytes(toPage, {current}) \in Nat
        BY <2>1, UnitsAreFinite
    <2>4. OnTheWay(Clients) <= client[current].unacked + client[current].owed
        BY DEF IInv, CreditInv
    <2>5. client[current].unacked <= High + FlushNow
        BY <2>1, Watermarks DEF IInv, FlowInv, Flows
    <2>6. client[current].unacked \in Nat /\ client[current].owed \in Nat
        BY <2>1 DEF Flows
    <2>7. Bytes(toPage, Clients) <= OnTheWay(Clients)
        BY <2>1, QueuedBytes
    <2>8. Bytes(toPage, Clients) \in Nat /\ OnTheWay(Clients) \in Nat
        BY <2>1, QueuedBytes
    <2> QED BY <2>2, <2>3, <2>4, <2>5, <2>6, <2>7, <2>8, Watermarks
<1> QED BY <1>1, StreamInvariant, PTL

\* The pane of a session on another machine whose attach was answered has a client, or
\* is about to hear that it has none (attachStillWanted and attachSession of core.ts).
THEOREM FarPaneIsServedAlways == Spec => []FarPaneIsServed
<1>1. IInv => FarPaneIsServed
    BY DEF IInv, PaneInv, FarInv
<1> QED BY <1>1, StreamInvariant, PTL

=============================================================================
