------------------------------- MODULE Events -------------------------------
(***************************************************************************)
(* epoll_pwait on one socket: the event masks of its connection, which the *)
(* peer sets from the other process, and the application that waits,       *)
(* handles what it is told and waits again (event.c; SET_EVENT in util.c). *)
(*                                                                         *)
(* SET_EVENT and CLEAR_EVENT are not atomic across processes: the mask is  *)
(* read, then written (event.h:60-61).  The level-triggered mask is local  *)
(* to the process that polls.                                              *)
(*                                                                         *)
(* Abstractions: packets are counted; recv takes a whole packet; races     *)
(* over the connection and its list are the subject of Connection.  The    *)
(* application is external: like an event loop, it receives when it is     *)
(* told something, edge-triggered until there is nothing left, and it does *)
(* not close before it sees the end.                                       *)
(***************************************************************************)
EXTENDS Integers

CONSTANTS
    Timeouts,     \* the timeouts, in milliseconds, the application waits with
    IntMax,       \* the greatest int: 2^31 - 1 in the code
    MaxPackets,   \* bound: packets waiting in recvBuffer
    MaxPending    \* bound: connections waiting to be accepted

ASSUME TimeoutsAssumption == Timeouts \subseteq Nat \union {-1}
\* 2^31 - 1 leaves room for a sleep beyond the longest timeout that fits.
ASSUME IntMaxAssumption ==
    /\ IntMax \in Nat
    /\ \A t \in Timeouts : t * 1000 <= IntMax => t * 1000 + 100 <= IntMax
ASSUME BoundsAssumption == MaxPackets \in Nat /\ MaxPending \in Nat

VARIABLES
    fdState,     \* state of the watched socket
    connState,   \* state of its connection
    packets,     \* packets in recvBuffer
    pending,     \* connections a listening socket can accept
    own,         \* own_events: edge triggered, shared with the peer
    lt,          \* own_lt_events: level triggered
    interest,    \* event.events of the listener
    level,       \* isLevelTriggered
    peer,        \* the peer's call: step, event it sets, mask it has read
    poll,        \* the application: step, mask read, events to be returned
    timeout,     \* of the wait
    elapsed,     \* elapsedSleep
    slept,       \* history: sleeps of a wait that has a timeout
    expired      \* history: the last wait returned because of its timeout

vars == <<fdState, connState, packets, pending, own, lt, interest, level, peer,
          poll, timeout, elapsed, slept, expired>>

connVars  == <<fdState, connState, packets, pending>>
timeVars  == <<timeout, elapsed, slept, expired>>
fixedVars == <<interest, level>>

EventSet   == {"IN", "OUT", "HUP"}
FdStates   == {"listen", "connecting", "open", "close"}
ConnStates == {"listen", "create", "open", "close"}

AppPCs   == {"idle", "connected", "handle", "recvTest", "done"}
EpollPCs == {"scan", "ltClose", "etTest", "etReport", "etClear", "etWrite",
             "conSet", "conWrite", "conOpen", "sleep"}
SLEEP_DURATION == 100

\* Signed arithmetic that wraps around.
Wrap(n) == ((n + IntMax + 1) % (2 * (IntMax + 1))) - (IntMax + 1)

Init ==
    /\ \/ fdState = "listen" /\ connState = "listen"
       \/ fdState = "connecting" /\ connState = "create"
       \/ fdState = "open" /\ connState = "open"
    /\ packets = 0 /\ pending = 0
    /\ own = {} /\ lt = {}
    /\ interest \in SUBSET EventSet /\ level \in BOOLEAN
    /\ peer = [at |-> "idle", ev |-> "IN", mask |-> {}]
    /\ poll = [at |-> "idle", mask |-> {}, got |-> {}]
    /\ timeout = -1 /\ elapsed = 0 /\ slept = 0 /\ expired = FALSE

---------------------------------------------------------------------------
(* The peer                                                               *)

\* Its connect makes a connection that can be accepted; a non-blocking one is
\* withdrawn by close.
PeerConnect ==
    /\ fdState = "listen"
    /\ \/ pending < MaxPending /\ pending' = pending + 1
       \/ pending > 0 /\ pending' = pending - 1
    /\ UNCHANGED <<fdState, connState, packets, own, lt, peer, poll>>
    /\ UNCHANGED timeVars /\ UNCHANGED fixedVars

PeerAccept ==
    /\ connState = "create"
    /\ connState' = "open"
    /\ UNCHANGED <<fdState, packets, pending, own, lt, peer, poll>>
    /\ UNCHANGED timeVars /\ UNCHANGED fixedVars

\* sendConnection: the packet, then SET_EVENT(remote_events, EPOLLIN).
PeerSend ==
    /\ peer.at = "idle" /\ connState = "open"
    /\ packets < MaxPackets
    /\ packets' = packets + 1
    /\ peer' = [peer EXCEPT !.at = "setRead", !.ev = "IN"]
    /\ UNCHANGED <<fdState, connState, pending, own, lt, poll>>
    /\ UNCHANGED timeVars /\ UNCHANGED fixedVars

\* Mutant of PeerClose: closing is signalled like data.
PeerCloseSetsIn ==
    /\ peer.at = "idle" /\ connState = "open"
    /\ connState' = "close"
    /\ peer' = [peer EXCEPT !.at = "setRead", !.ev = "IN"]
    /\ UNCHANGED <<fdState, packets, pending, own, lt, poll>>
    /\ UNCHANGED timeVars /\ UNCHANGED fixedVars

\* closeConnection: c_close, then SET_EVENT(remote_events, EPOLLHUP).
PeerClose ==
    /\ peer.at = "idle" /\ connState = "open"
    /\ connState' = "close"
    /\ peer' = [peer EXCEPT !.at = "setRead", !.ev = "HUP"]
    /\ UNCHANGED <<fdState, packets, pending, own, lt, poll>>
    /\ UNCHANGED timeVars /\ UNCHANGED fixedVars

PeerSetRead ==
    /\ peer.at = "setRead"
    /\ peer' = [peer EXCEPT !.at = "setWrite", !.mask = own]
    /\ UNCHANGED <<own, lt, poll>>
    /\ UNCHANGED connVars /\ UNCHANGED timeVars /\ UNCHANGED fixedVars

\* Mutant of PeerSetWrite: the event is assigned, not set.
PeerSetWriteAssigns ==
    /\ peer.at = "setWrite"
    /\ own' = {peer.ev}
    /\ peer' = [peer EXCEPT !.at = "idle"]
    /\ UNCHANGED <<lt, poll>>
    /\ UNCHANGED connVars /\ UNCHANGED timeVars /\ UNCHANGED fixedVars

PeerSetWrite ==
    /\ peer.at = "setWrite"
    /\ own' = peer.mask \union {peer.ev}
    /\ peer' = [peer EXCEPT !.at = "idle"]
    /\ UNCHANGED <<lt, poll>>
    /\ UNCHANGED connVars /\ UNCHANGED timeVars /\ UNCHANGED fixedVars

---------------------------------------------------------------------------
(* epoll_pwait                                                            *)

Goto(l) == poll' = [poll EXCEPT !.at = l]

\* Return the events, to a handler, or go to sleep if there are none.
Finish(events, handler) ==
    poll' = [poll EXCEPT !.at = IF events = {} THEN "sleep" ELSE handler,
                         !.got = events]

\* Mutant of EpollWait: the sleeps of the last wait count.
EpollWaitNoReset ==
    /\ poll.at = "idle"
    /\ timeout' \in Timeouts
    /\ slept' = 0 /\ expired' = FALSE
    /\ poll' = [poll EXCEPT !.at = "scan", !.got = {}]
    /\ UNCHANGED <<own, lt, peer, elapsed>>
    /\ UNCHANGED connVars /\ UNCHANGED fixedVars

EpollWait ==
    /\ poll.at = "idle"
    /\ timeout' \in Timeouts
    /\ elapsed' = 0 /\ slept' = 0 /\ expired' = FALSE
    /\ poll' = [poll EXCEPT !.at = "scan", !.got = {}]
    /\ UNCHANGED <<own, lt, peer>>
    /\ UNCHANGED connVars /\ UNCHANGED fixedVars

\* Mutant of ScanListen: the level-triggered event is not set.
ScanListenNoSet ==
    /\ poll.at = "scan" /\ fdState = "listen"
    /\ IF pending > 0
         THEN /\ own' = IF level THEN own \union {"IN"} ELSE own \ {"IN"}
              /\ Finish(IF level THEN lt \intersect {"IN"} ELSE {"IN"}, "handle")
              /\ UNCHANGED lt
         ELSE /\ lt' = lt \ {"IN"}
              /\ Finish({}, "handle")
              /\ UNCHANGED own
    /\ UNCHANGED peer
    /\ UNCHANGED connVars /\ UNCHANGED timeVars /\ UNCHANGED fixedVars

\* A listening socket: EPOLLIN, whether it was asked for or not, when there is
\* a connection to accept.  Its own connection is not shared.
ScanListen ==
    /\ poll.at = "scan" /\ fdState = "listen"
    /\ IF pending > 0
         THEN /\ own' = IF level THEN own \union {"IN"} ELSE own \ {"IN"}
              /\ lt' = lt \union {"IN"}
              /\ Finish({"IN"}, "handle")
         ELSE /\ lt' = lt \ {"IN"}
              /\ Finish({}, "handle")
              /\ UNCHANGED own
    /\ UNCHANGED peer
    /\ UNCHANGED connVars /\ UNCHANGED timeVars /\ UNCHANGED fixedVars

\* Mutant of ScanConnecting: it waits for a connection that is created.
ScanConnectingInverted ==
    /\ poll.at = "scan" /\ fdState = "connecting"
    /\ IF connState = "create"
         THEN Goto("conSet") /\ UNCHANGED lt
         ELSE lt' = lt \ {"IN"} /\ Finish({}, "handle")
    /\ UNCHANGED <<own, peer>>
    /\ UNCHANGED connVars /\ UNCHANGED timeVars /\ UNCHANGED fixedVars

\* A connecting socket: checkIfAcceptedConnection.
ScanConnecting ==
    /\ poll.at = "scan" /\ fdState = "connecting"
    /\ IF connState = "open"
         THEN Goto("conSet") /\ UNCHANGED lt
         ELSE lt' = lt \ {"IN"} /\ Finish({}, "handle")
    /\ UNCHANGED <<own, peer>>
    /\ UNCHANGED connVars /\ UNCHANGED timeVars /\ UNCHANGED fixedVars

\* SET_EVENT of both masks.
ConnectingSetRead ==
    /\ poll.at = "conSet"
    /\ poll' = [poll EXCEPT !.at = "conWrite", !.mask = own]
    /\ UNCHANGED <<own, lt, peer>>
    /\ UNCHANGED connVars /\ UNCHANGED timeVars /\ UNCHANGED fixedVars

ConnectingSetWrite ==
    /\ poll.at = "conWrite"
    /\ own' = poll.mask \union {"IN"}
    /\ lt' = lt \union {"IN"}
    /\ poll' = [poll EXCEPT !.at = IF level THEN "conOpen" ELSE "etTest",
                            !.got = IF level THEN {"IN"} ELSE {}]
    /\ UNCHANGED peer
    /\ UNCHANGED connVars /\ UNCHANGED timeVars /\ UNCHANGED fixedVars

\* connectEx, called after the event was noted.
ConnectingOpen ==
    /\ poll.at = "conOpen"
    /\ fdState' = IF connState = "open" THEN "open" ELSE fdState
    /\ Finish(poll.got, "connected")
    /\ UNCHANGED <<connState, packets, pending, own, lt, peer>>
    /\ UNCHANGED timeVars /\ UNCHANGED fixedVars

\* An open socket, edge triggered: checkAndSetEvents tests the mask.
ScanEdge ==
    /\ poll.at = "scan" /\ fdState = "open" /\ ~level
    /\ Goto("etTest")
    /\ UNCHANGED <<own, lt, peer>>
    /\ UNCHANGED connVars /\ UNCHANGED timeVars /\ UNCHANGED fixedVars

Listening == IF fdState = "connecting" THEN {"IN"} ELSE interest

EdgeTest ==
    /\ poll.at = "etTest"
    /\ IF own \intersect Listening # {}
         THEN Goto("etReport")
         ELSE Goto(IF fdState = "connecting" THEN "conOpen" ELSE "sleep")
    /\ UNCHANGED <<own, lt, peer>>
    /\ UNCHANGED connVars /\ UNCHANGED timeVars /\ UNCHANGED fixedVars

EdgeReport ==
    /\ poll.at = "etReport"
    /\ poll' = [poll EXCEPT !.at = "etClear", !.got = own \intersect Listening]
    /\ UNCHANGED <<own, lt, peer>>
    /\ UNCHANGED connVars /\ UNCHANGED timeVars /\ UNCHANGED fixedVars

\* CLEAR_EVENT.
EdgeClearRead ==
    /\ poll.at = "etClear"
    /\ poll' = [poll EXCEPT !.at = "etWrite", !.mask = own]
    /\ UNCHANGED <<own, lt, peer>>
    /\ UNCHANGED connVars /\ UNCHANGED timeVars /\ UNCHANGED fixedVars

\* An event was counted: epoll_pwait returns, whatever its mask is.
EdgeClearWrite ==
    /\ poll.at = "etWrite"
    /\ own' = poll.mask \ Listening
    /\ Goto(IF fdState = "connecting" THEN "conOpen" ELSE "handle")
    /\ UNCHANGED <<lt, peer>>
    /\ UNCHANGED connVars /\ UNCHANGED timeVars /\ UNCHANGED fixedVars

Readable == IF packets > 0 THEN {"IN"} ELSE {}

\* Mutant of LevelData: the mask is not cleared first.
LevelDataNoClear ==
    /\ poll.at = "scan" /\ fdState = "open" /\ level
    /\ lt' = lt \union Readable \union {"OUT"}
    /\ Goto("ltClose")
    /\ UNCHANGED <<own, peer>>
    /\ UNCHANGED connVars /\ UNCHANGED timeVars /\ UNCHANGED fixedVars

\* Level triggered: setLevelTriggeredEvents looks at the packets ...
LevelData ==
    /\ poll.at = "scan" /\ fdState = "open" /\ level
    /\ lt' = Readable \union {"OUT"}
    /\ Goto("ltClose")
    /\ UNCHANGED <<own, peer>>
    /\ UNCHANGED connVars /\ UNCHANGED timeVars /\ UNCHANGED fixedVars

\* Mutant of LevelClose: it does not look for c_close.
LevelCloseIgnoresClose ==
    /\ poll.at = "ltClose"
    /\ Finish(lt \intersect interest, "handle")
    /\ UNCHANGED <<own, lt, peer>>
    /\ UNCHANGED connVars /\ UNCHANGED timeVars /\ UNCHANGED fixedVars

\* ... and at connState.
LevelClose ==
    /\ poll.at = "ltClose"
    /\ lt' = lt \union (IF connState = "close" THEN {"HUP"} ELSE {})
    /\ Finish(lt' \intersect interest, "handle")
    /\ UNCHANGED <<own, peer>>
    /\ UNCHANGED connVars /\ UNCHANGED timeVars /\ UNCHANGED fixedVars

\* Mutant of Sleep: the timeout is not looked at.
SleepForever ==
    /\ poll.at = "sleep"
    /\ Goto("scan")
    /\ UNCHANGED <<own, lt, peer>>
    /\ UNCHANGED connVars /\ UNCHANGED timeVars /\ UNCHANGED fixedVars

\* No event: the timeout, or sleep and scan again.
Sleep ==
    /\ poll.at = "sleep"
    /\ IF timeout # -1 /\ Wrap(elapsed * SLEEP_DURATION) > Wrap(timeout * 1000)
         THEN expired' = TRUE /\ Goto("idle") /\ UNCHANGED slept
         ELSE /\ slept' = IF timeout = -1 THEN slept ELSE slept + 1
              /\ Goto("scan")
              /\ UNCHANGED expired
    /\ elapsed' = IF timeout = -1 THEN elapsed ELSE elapsed + 1
    /\ UNCHANGED <<own, lt, peer, timeout>>
    /\ UNCHANGED connVars /\ UNCHANGED fixedVars

---------------------------------------------------------------------------
(* The application                                                        *)

\* A connecting socket was reported: an edge-triggered application receives at
\* once, what was sent before was cleared with the event.
HandleConnected ==
    /\ poll.at = "connected"
    /\ \E l \in {"idle", "handle"} :
         /\ l = "handle" => fdState = "open"
         /\ l = "idle" => level \/ fdState # "open"
         /\ poll' = [poll EXCEPT !.at = l, !.got = {}]
    /\ UNCHANGED <<own, lt, peer>>
    /\ UNCHANGED connVars /\ UNCHANGED timeVars /\ UNCHANGED fixedVars

\* accept4, without blocking.
HandleAccept ==
    /\ poll.at = "handle" /\ fdState = "listen"
    /\ pending' = IF pending > 0 THEN pending - 1 ELSE 0
    /\ Goto("idle")
    /\ UNCHANGED <<fdState, connState, packets, own, lt, peer>>
    /\ UNCHANGED timeVars /\ UNCHANGED fixedVars

\* Mutant of HandleRecv: the list is not looked at.
HandleRecvBlind ==
    /\ poll.at = "handle" /\ fdState = "open"
    /\ packets' = packets - 1
    /\ \E l \in {"handle"} \union IF level THEN {"idle"} ELSE {} :
         poll' = [poll EXCEPT !.at = l, !.got = {}]
    /\ UNCHANGED <<fdState, connState, pending, own, lt, peer>>
    /\ UNCHANGED timeVars /\ UNCHANGED fixedVars

\* recv, without blocking: a packet if there is one ...
HandleRecv ==
    /\ poll.at = "handle" /\ fdState = "open"
    /\ IF packets > 0
         THEN /\ packets' = packets - 1
              /\ \E l \in {"handle"} \union IF level THEN {"idle"} ELSE {} :
                   poll' = [poll EXCEPT !.at = l, !.got = {}]
         ELSE /\ poll' = [poll EXCEPT !.at = "recvTest", !.got = {}]
              /\ UNCHANGED packets
    /\ UNCHANGED <<fdState, connState, pending, own, lt, peer>>
    /\ UNCHANGED timeVars /\ UNCHANGED fixedVars

\* ... else the end of the stream, or EAGAIN.
HandleRecvTest ==
    /\ poll.at = "recvTest"
    /\ IF connState = "close"
         THEN fdState' = "close" /\ Goto("done")
         ELSE Goto("idle") /\ UNCHANGED fdState
    /\ UNCHANGED <<connState, packets, pending, own, lt, peer>>
    /\ UNCHANGED timeVars /\ UNCHANGED fixedVars

\* The application has seen the end.
Done == poll.at = "done" /\ UNCHANGED vars

---------------------------------------------------------------------------
PeerSets == PeerSetRead \/ PeerSetWrite

Epoll == \/ ScanListen
         \/ ScanConnecting \/ ConnectingSetRead \/ ConnectingSetWrite
         \/ ConnectingOpen
         \/ ScanEdge \/ EdgeTest \/ EdgeReport \/ EdgeClearRead \/ EdgeClearWrite
         \/ LevelData \/ LevelClose
         \/ Sleep

Application == \/ EpollWait
               \/ HandleConnected \/ HandleAccept \/ HandleRecv \/ HandleRecvTest

Next == \/ PeerConnect \/ PeerAccept \/ PeerSend \/ PeerClose \/ PeerSets
        \/ Epoll \/ Application
        \/ Done

Spec == Init /\ [][Next]_vars

\* Calls that have started are executed.  The peer calls when it likes, and so
\* does the application.
FairSpec == Spec /\ WF_vars(PeerSets) /\ WF_vars(Epoll)

---------------------------------------------------------------------------
(* Properties                                                             *)

\* Every variable has its type; the waiting application is never past the end.
TypeOK ==
    /\ fdState \in FdStates /\ connState \in ConnStates
    /\ packets \in Nat /\ pending \in Nat
    /\ own \subseteq EventSet /\ lt \subseteq EventSet
    /\ interest \subseteq EventSet /\ level \in BOOLEAN
    /\ peer \in [at : {"idle", "setRead", "setWrite"}, ev : {"IN", "HUP"},
                 mask : SUBSET EventSet]
    /\ poll \in [at : AppPCs \union EpollPCs, mask : SUBSET EventSet,
                 got : SUBSET EventSet]
    /\ fdState = "close" <=> poll.at = "done"
    /\ timeout \in Int /\ elapsed \in Nat /\ slept \in Nat /\ expired \in BOOLEAN

InEpoll == poll.at \in EpollPCs

\* The edge-triggered application is not about to be told anything: all that
\* stands between it and an endless sleep is the mask.
Resting == ~level /\ fdState = "open" /\ poll.at \in {"idle", "scan", "etTest", "sleep"}

PeerSetting(ev) == peer.at \in {"setRead", "setWrite"} /\ peer.ev = ev

\* Setting and clearing events race (event.c:354-358, util.c:543), and a set
\* event may be lost; but never one the application has yet to act on: while
\* it rests with packets to receive, the mask has EPOLLIN or will get it.
NoLostWakeup ==
    Resting /\ "IN" \in interest /\ packets > 0 =>
        "IN" \in own \/ PeerSetting("IN")

\* Nor is a hang-up lost (util.c:519-520).
NoLostHangup ==
    Resting /\ "HUP" \in interest /\ connState = "close" =>
        "HUP" \in own \/ PeerSetting("HUP")

\* A level-triggered EPOLLIN on an open socket is never stale: when the
\* application gets it, there is a packet to receive (event.c:162-169).
LevelInIsTrue ==
    level /\ fdState = "open" /\ poll.at = "handle" /\ "IN" \in poll.got =>
        packets > 0

\* A wait that expires has slept for its timeout, and less than one sleep
\* longer, unless the product of event.c:483 overflows.
TimeoutIsKept ==
    expired /\ timeout * 1000 <= IntMax =>
        /\ slept * SLEEP_DURATION > timeout * 1000
        /\ (slept - 1) * SLEEP_DURATION <= timeout * 1000

\* While there is something to receive, or a hang-up, that the application
\* asked for, epoll_pwait returns.
ReadyReturns ==
    (InEpoll /\ fdState = "open"
       /\ \/ "IN" \in interest /\ packets > 0
          \/ "HUP" \in interest /\ connState = "close") ~> ~InEpoll

\* epoll_pwait on a connecting socket returns once the connection is accepted,
\* if it stays open that long (event.c:407-424).
ConnectReturns ==
    (InEpoll /\ fdState = "connecting" /\ connState = "open")
        ~> (~InEpoll \/ connState = "close")

\* epoll_pwait on a listening socket returns while there is a connection to
\* accept.
PendingReturns == (InEpoll /\ pending > 0) ~> (~InEpoll \/ pending = 0)

\* epoll_pwait with a timeout returns, whatever the timeout.
TimedWaitReturns == (InEpoll /\ timeout # -1) ~> ~InEpoll
===========================================================================
