---------------------------- MODULE Connection ----------------------------
(***************************************************************************)
(* The life of the connections of one interface, as two processes create,  *)
(* accept, close and free them in the shared region (socket.c connectEx,   *)
(* accept4, close; util.c; list.c llist_remove).                           *)
(*                                                                         *)
(* No lock protects a call (NOLOCK, socket.c:121), so every read or write  *)
(* of shared memory is a step of its own.  The linked list is a library    *)
(* that the repository does not hold: one operation of it is one step.     *)
(*                                                                         *)
(* Abstractions: a process runs one thread; it has one listening socket,   *)
(* not counted among its Slots; packets are the subject of Channel, event  *)
(* masks are left out.  An access to a connection that was freed has no    *)
(* defined outcome: it sets ub, and nothing is said of what comes after.   *)
(***************************************************************************)
EXTENDS Naturals, SequencesExt

CONSTANTS
    Procs,            \* the two processes attached to the region
    Slots,            \* entries of the fd table of a process (fds)
    Conns,            \* addresses the allocator hands out for connections
    NULL,
    NonblockConnect,  \* processes whose connecting sockets are non-blocking
    NonblockAccept,   \* processes whose listening socket is non-blocking
    ListenPort,       \* the port both processes listen on
    OwnPorts,         \* the values randomPort takes
    MaxList           \* bound: no connect starts when the list is this long

ASSUME ProcsAssumption == \E p, q \in Procs : p # q /\ Procs = {p, q}
ASSUME NullAssumption == NULL \notin Conns
ASSUME NonblockAssumption == /\ NonblockConnect \subseteq Procs
                             /\ NonblockAccept \subseteq Procs
ASSUME MaxListAssumption == MaxList \in Nat

VARIABLES
    connState,   \* connState[c]: pConn->connState
    port,        \* port[c][p]: what p sees as own_port (the peer's remote_port)
    live,        \* the allocated connections
    list,        \* pIface->connectionList
    fd,          \* fd[p][s]: the state and pConn of slot s of p
    call,        \* the call p executes: where it is, its fd and its locals
    closers,     \* history: who wrote c_close into c since it was allocated
    disturbed,   \* history: the list changed under the other's llist_remove
    crossed,     \* history: an accept of a connection crossed its removal
    ub           \* a freed connection was accessed

vars == <<connState, port, live, list, fd, call, closers, disturbed, crossed, ub>>

ConnStates == {"create", "open", "close"}
FdStates   == {"free", "created", "connecting", "open", "close"}

AcceptPCs == {"accGet", "accTest", "accOpen"}
ClosePCs  == {"clTest1", "clTest2", "clWrite", "clEvent", "rmGet", "rmAt",
              "rmFree"}
PCs == {"idle", "connInsert", "connTest", "connTest2"} \union AcceptPCs
         \union ClosePCs

Fds   == [state : FdStates, conn : Conns \union {NULL}]
Calls == [at : PCs, slot : Slots \union {NULL}, i : Nat,
          entry : Conns \union {NULL}]

FreeFd == [state |-> "free", conn |-> NULL]

\* i is the index and entry the entry of a FOREACH_LIST.
Idle == [at |-> "idle", slot |-> NULL, i |-> 0, entry |-> NULL]

Init ==
    /\ connState = [c \in Conns |-> "create"]
    /\ port = [c \in Conns |-> [p \in Procs |-> NULL]]
    /\ live = {}
    /\ list = <<>>
    /\ fd = [p \in Procs |-> [s \in Slots |-> FreeFd]]
    /\ call = [p \in Procs |-> Idle]
    /\ closers = [c \in Conns |-> {}]
    /\ disturbed = FALSE
    /\ crossed = FALSE
    /\ ub = FALSE

---------------------------------------------------------------------------
\* The connection of the call p executes.
Conn(p) == fd[p][call[p].slot].conn

At(p, l) == call[p].at = l
SetCall(p, l, s, n, e) ==
    call' = [call EXCEPT ![p] = [at |-> l, slot |-> s, i |-> n, entry |-> e]]
Begin(p, l, s)    == SetCall(p, l, s, 0, NULL)
Goto(p, l)        == SetCall(p, l, call[p].slot, call[p].i, call[p].entry)
GotoWalk(p, l, n) == SetCall(p, l, call[p].slot, n, call[p].entry)
Return(p)         == SetCall(p, "idle", NULL, 0, NULL)

SetFd(p, s, st, c) == fd' = [fd EXCEPT ![p][s] = [state |-> st, conn |-> c]]

\* p changes the list while the other process looks for, or is about to
\* remove, an index of it.
Disturbs(p) == \E q \in Procs \ {p} : call[q].at \in {"rmGet", "rmAt"}

\* socket(): a free slot becomes a created socket without a connection.
Socket(p) ==
    /\ At(p, "idle")
    /\ \E s \in Slots : /\ fd[p][s].state = "free"
                        /\ SetFd(p, s, "created", NULL)
    /\ UNCHANGED <<connState, port, live, list, call, closers, disturbed, ub>>

---------------------------------------------------------------------------
(* connectEx                                                              *)

\* createNewConnection: allocate a connection and initialise it.
ConnectNew(p) ==
    /\ At(p, "idle")
    /\ Len(list) < MaxList
    /\ \E s \in Slots, c \in Conns \ live, own \in OwnPorts :
         /\ fd[p][s].state = "created"
         /\ SetFd(p, s, "created", c)
         /\ Begin(p, "connInsert", s)
         /\ connState' = [connState EXCEPT ![c] = "create"]
         /\ port' = [port EXCEPT ![c] =
                       [q \in Procs |-> IF q = p THEN own ELSE ListenPort]]
         /\ live' = live \union {c}
         /\ closers' = [closers EXCEPT ![c] = {}]
    /\ UNCHANGED <<list, disturbed, ub>>

\* initiateNewConnection: publish it at the head of the list.
ConnectInsert(p) ==
    /\ At(p, "connInsert")
    /\ list' = <<Conn(p)>> \o list
    /\ disturbed' = (disturbed \/ Disturbs(p))
    /\ SetFd(p, call[p].slot, "connecting", Conn(p))
    /\ Goto(p, "connTest")
    /\ UNCHANGED <<connState, port, live, closers, ub>>

\* checkIfAcceptedConnection: the first test of the wait loop.
ConnectTest(p) ==
    /\ At(p, "connTest")
    /\ Conn(p) \in live
    /\ IF connState[Conn(p)] = "open"
         THEN /\ SetFd(p, call[p].slot, "open", Conn(p))
              /\ Return(p)
         ELSE /\ Goto(p, "connTest2")
              /\ UNCHANGED fd
    /\ UNCHANGED <<connState, port, live, list, closers, disturbed, ub>>

\* Mutant of ConnectTest2: the wait loop does not look for c_close.
ConnectTest2IgnoresClose(p) ==
    /\ At(p, "connTest2")
    /\ Conn(p) \in live
    /\ IF p \in NonblockConnect THEN Return(p) ELSE Goto(p, "connTest")
    /\ UNCHANGED <<connState, port, live, list, fd, closers, disturbed, ub>>

\* checkIfClosedConnection: ECONNREFUSED, EINPROGRESS, or sleep and test again.
ConnectTest2(p) ==
    /\ At(p, "connTest2")
    /\ Conn(p) \in live
    /\ IF connState[Conn(p)] = "close" \/ p \in NonblockConnect
         THEN Return(p)
         ELSE Goto(p, "connTest")
    /\ UNCHANGED <<connState, port, live, list, fd, closers, disturbed, ub>>

\* epoll_pwait finds the connection of a connecting socket accepted, and
\* calls connectEx, which goes straight to the wait loop.
PollConnecting(p) ==
    /\ At(p, "idle")
    /\ \E s \in Slots :
         /\ fd[p][s].state = "connecting"
         /\ fd[p][s].conn \in live
         /\ connState[fd[p][s].conn] = "open"
         /\ Begin(p, "connTest", s)
    /\ UNCHANGED <<connState, port, live, list, fd, closers, disturbed, ub>>

---------------------------------------------------------------------------
(* accept4: walk the list for a connection nobody accepted yet            *)

\* A full table is not the subject here (see README): accept4 is called
\* with a free slot.
AcceptStart(p) ==
    /\ At(p, "idle")
    /\ \E s \in Slots : fd[p][s].state = "free"
    /\ GotoWalk(p, "accGet", 1)
    /\ UNCHANGED <<connState, port, live, list, fd, closers, disturbed, ub>>

\* Mutant of AcceptGet: a blocking accept does not go back to the first entry.
AcceptGetNoRewalk(p) ==
    /\ At(p, "accGet")
    /\ IF call[p].i <= Len(list)
         THEN SetCall(p, "accTest", NULL, call[p].i, list[call[p].i])
         ELSE IF p \in NonblockAccept THEN Return(p) ELSE UNCHANGED call
    /\ UNCHANGED <<connState, port, live, list, fd, closers, disturbed, ub>>

\* llist_get_n: the next entry, or the end of the list: EAGAIN, or sleep and
\* walk again.
AcceptGet(p) ==
    /\ At(p, "accGet")
    /\ IF call[p].i <= Len(list)
         THEN SetCall(p, "accTest", NULL, call[p].i, list[call[p].i])
         ELSE IF p \in NonblockAccept THEN Return(p)
                                      ELSE GotoWalk(p, "accGet", 1)
    /\ UNCHANGED <<connState, port, live, list, fd, closers, disturbed, ub>>

\* Mutant of Acceptable: the state of the connection is not tested.
AcceptableInAnyState(c, p) == port[c][p] = ListenPort

\* searchNewConnectionOnIface: what p may accept.
Acceptable(c, p) == connState[c] = "create" /\ port[c][p] = ListenPort

AcceptTest(p) ==
    /\ At(p, "accTest")
    /\ call[p].entry \in live
    /\ IF Acceptable(call[p].entry, p)
         THEN Goto(p, "accOpen")
         ELSE GotoWalk(p, "accGet", call[p].i + 1)
    /\ UNCHANGED <<connState, port, live, list, fd, closers, disturbed, ub>>

\* acceptNewConnectionOnIface writes c_open, whatever the state is by now, and
\* accept4 gives the connection to a new fd.
AcceptOpen(p) ==
    /\ At(p, "accOpen")
    /\ call[p].entry \in live
    /\ connState' = [connState EXCEPT ![call[p].entry] = "open"]
    /\ \E s \in Slots : /\ fd[p][s].state = "free"
                        /\ SetFd(p, s, "open", call[p].entry)
    /\ Return(p)
    /\ UNCHANGED <<port, live, list, closers, disturbed, ub>>

---------------------------------------------------------------------------
\* send and recv on an open socket find the connection closed
\* (handleCloseWhileIO).
Io(p) ==
    /\ At(p, "idle")
    /\ \E s \in Slots :
         /\ fd[p][s].state = "open"
         /\ fd[p][s].conn \in live
         /\ connState[fd[p][s].conn] = "close"
         /\ SetFd(p, s, "close", fd[p][s].conn)
    /\ UNCHANGED <<connState, port, live, list, call, closers, disturbed, ub>>

---------------------------------------------------------------------------
(* close: handleSockfdClose, closeConnection, removeConnection            *)

CloseStart(p) ==
    /\ At(p, "idle")
    /\ \E s \in Slots :
         /\ fd[p][s].state # "free"
         /\ IF fd[p][s].conn = NULL
              THEN SetFd(p, s, "free", NULL) /\ UNCHANGED call
              ELSE Begin(p, "clTest1", s) /\ UNCHANGED fd
    /\ UNCHANGED <<connState, port, live, list, closers, disturbed, ub>>

\* Closed by the peer already: remove it, from the start of the list.
CloseTest1(p) ==
    /\ At(p, "clTest1")
    /\ Conn(p) \in live
    /\ IF connState[Conn(p)] = "close" THEN GotoWalk(p, "rmGet", 1)
                                       ELSE Goto(p, "clTest2")
    /\ UNCHANGED <<connState, port, live, list, fd, closers, disturbed, ub>>

\* Mutant of CloseTest2: an open connection is removed at once, although the
\* peer still has it.
CloseTest2RemovesOpen(p) ==
    /\ At(p, "clTest2")
    /\ Conn(p) \in live
    /\ GotoWalk(p, "rmGet", 1)
    /\ UNCHANGED <<connState, port, live, list, fd, closers, disturbed, ub>>

\* Never accepted: remove it too.
CloseTest2(p) ==
    /\ At(p, "clTest2")
    /\ Conn(p) \in live
    /\ IF connState[Conn(p)] = "create" THEN GotoWalk(p, "rmGet", 1)
                                        ELSE Goto(p, "clWrite")
    /\ UNCHANGED <<connState, port, live, list, fd, closers, disturbed, ub>>

\* Mutant of CloseWrite: the peer is told, but c_close is not written.
CloseWriteNoState(p) ==
    /\ At(p, "clWrite")
    /\ Conn(p) \in live
    /\ closers' = [closers EXCEPT ![Conn(p)] = @ \union {p}]
    /\ Goto(p, "clEvent")
    /\ UNCHANGED <<connState, port, live, list, fd, disturbed, ub>>

\* Otherwise p takes itself for the first to close.
CloseWrite(p) ==
    /\ At(p, "clWrite")
    /\ Conn(p) \in live
    /\ connState' = [connState EXCEPT ![Conn(p)] = "close"]
    /\ closers' = [closers EXCEPT ![Conn(p)] = @ \union {p}]
    /\ Goto(p, "clEvent")
    /\ UNCHANGED <<port, live, list, fd, disturbed, ub>>

\* SET_EVENT(remote_events, EPOLLHUP), then deleteFd.
CloseEvent(p) ==
    /\ At(p, "clEvent")
    /\ Conn(p) \in live
    /\ SetFd(p, call[p].slot, "free", NULL)
    /\ Return(p)
    /\ UNCHANGED <<connState, port, live, list, closers, disturbed, ub>>

\* Mutant of RemoveGet: the loop does not advance.
RemoveGetStuck(p) ==
    /\ At(p, "rmGet")
    /\ IF call[p].i > Len(list) THEN Goto(p, "rmFree")
       ELSE IF list[call[p].i] = Conn(p) THEN Goto(p, "rmAt")
       ELSE UNCHANGED call
    /\ UNCHANGED <<connState, port, live, list, fd, closers, disturbed, ub>>

\* llist_remove looks for the index of the connection ...
RemoveGet(p) ==
    /\ At(p, "rmGet")
    /\ IF call[p].i > Len(list) THEN Goto(p, "rmFree")
       ELSE IF list[call[p].i] = Conn(p) THEN Goto(p, "rmAt")
       ELSE GotoWalk(p, "rmGet", call[p].i + 1)
    /\ UNCHANGED <<connState, port, live, list, fd, closers, disturbed, ub>>

\* Mutant of RemoveIndex: the index is off by one.
RemoveIndexOffByOne(p) ==
    /\ At(p, "rmAt")
    /\ list' = IF call[p].i < Len(list) THEN RemoveAt(list, call[p].i + 1) ELSE list
    /\ disturbed' = (disturbed \/ Disturbs(p))
    /\ Goto(p, "rmFree")
    /\ UNCHANGED <<connState, port, live, fd, closers, ub>>

\* ... and removes whatever is at that index by now.
RemoveIndex(p) ==
    /\ At(p, "rmAt")
    /\ list' = IF call[p].i <= Len(list) THEN RemoveAt(list, call[p].i) ELSE list
    /\ disturbed' = (disturbed \/ Disturbs(p))
    /\ Goto(p, "rmFree")
    /\ UNCHANGED <<connState, port, live, fd, closers, ub>>

\* Mutants of RemoveFree: the connection is not freed; the slot keeps its state.
RemoveWithoutFree(p) ==
    /\ At(p, "rmFree")
    /\ Conn(p) \in live
    /\ SetFd(p, call[p].slot, "free", NULL)
    /\ Return(p)
    /\ UNCHANGED <<connState, port, live, list, closers, disturbed, ub>>

RemoveFreeKeepsSlot(p) ==
    /\ At(p, "rmFree")
    /\ Conn(p) \in live
    /\ live' = live \ {Conn(p)}
    /\ SetFd(p, call[p].slot, "close", NULL)
    /\ Return(p)
    /\ UNCHANGED <<connState, port, list, closers, disturbed, ub>>

\* llist_delete of the buffers, free, then deleteFd.
RemoveFree(p) ==
    /\ At(p, "rmFree")
    /\ Conn(p) \in live
    /\ live' = live \ {Conn(p)}
    /\ SetFd(p, call[p].slot, "free", NULL)
    /\ Return(p)
    /\ UNCHANGED <<connState, port, list, closers, disturbed, ub>>

---------------------------------------------------------------------------
\* The connections whose memory the next step of p reads or writes.  An idle
\* process may send, receive, poll or close on any socket it has.
Accesses(p) ==
    CASE call[p].at \in {"connTest", "connTest2", "clTest1", "clTest2",
                         "clWrite", "clEvent", "rmFree"} -> {Conn(p)}
      [] call[p].at \in {"accTest", "accOpen"} -> {call[p].entry}
      [] call[p].at = "idle" -> {fd[p][s].conn : s \in Slots} \ {NULL}
      [] OTHER -> {}

FreedAccess(p) ==
    /\ ~(Accesses(p) \subseteq live)
    /\ ub' = TRUE
    /\ UNCHANGED <<connState, port, live, list, fd, call, closers, disturbed>>

\* After an access to freed memory the model says nothing more.
Undefined == ub /\ UNCHANGED vars

\* One process is about to write c_open into the connection that the other,
\* which read c_create, is removing.
Crossing ==
    \E p, q \in Procs : /\ call[p].at \in {"rmGet", "rmAt", "rmFree"}
                       /\ At(q, "accOpen") /\ call[q].entry = Conn(p)

\* The steps of a call that has started.
InCall(p) ==
    /\ ~ub
    /\ \/ ConnectInsert(p) \/ ConnectTest(p) \/ ConnectTest2(p)
       \/ AcceptGet(p) \/ AcceptTest(p) \/ AcceptOpen(p)
       \/ CloseTest1(p) \/ CloseTest2(p) \/ CloseWrite(p) \/ CloseEvent(p)
       \/ RemoveGet(p) \/ RemoveIndex(p) \/ RemoveFree(p)
       \/ ~At(p, "idle") /\ FreedAccess(p)
    /\ crossed' = (crossed \/ Crossing')

\* The application makes a call.
Call(p) ==
    /\ ~ub
    /\ \/ Socket(p) \/ ConnectNew(p) \/ PollConnecting(p) \/ AcceptStart(p)
       \/ Io(p) \/ CloseStart(p)
       \/ At(p, "idle") /\ FreedAccess(p)
    /\ crossed' = (crossed \/ Crossing')

Next == \/ \E p \in Procs : InCall(p) \/ Call(p)
        \/ Undefined

Spec == Init /\ [][Next]_vars

\* A call that has started is executed: the operating system schedules every
\* process, and SLEEP_LOCKED returns.  When an application calls is its own
\* affair.
Fairness == \A p \in Procs : WF_vars(InCall(p))

FairSpec == Spec /\ Fairness

---------------------------------------------------------------------------
(* Properties                                                             *)

MemoryType ==
    /\ connState \in [Conns -> ConnStates]
    /\ port \in [Conns -> [Procs -> OwnPorts \union {ListenPort, NULL}]]
    /\ live \subseteq Conns
    /\ list \in Seq(Conns)
    /\ closers \in [Conns -> SUBSET Procs]

ProcessType ==
    /\ fd \in [Procs -> [Slots -> Fds]]
    /\ call \in [Procs -> Calls]
    /\ \A p \in Procs, s \in Slots :
         /\ fd[p][s].state = "free" => fd[p][s].conn = NULL
         /\ fd[p][s].state \in {"connecting", "open", "close"} =>
              fd[p][s].conn # NULL

FlagType == disturbed \in BOOLEAN /\ crossed \in BOOLEAN /\ ub \in BOOLEAN

\* Every variable has its type, and a socket has a connection from the moment
\* connectEx or accept4 gives it one until close.
TypeOK == MemoryType /\ ProcessType /\ FlagType

\* p is about to set the hang-up event of a connection it has closed: its fd
\* is as good as gone, and the peer may free the connection.
Leaving(p, s) == At(p, "clEvent") /\ call[p].slot = s

\* Socket s of p relies on connection c.
Holds(p, s, c) == fd[p][s].conn = c /\ ~Leaving(p, s)

\* Unless an accept crossed the removal of the connection it accepts: the
\* connection of every socket is allocated, until close() has written c_close
\* into it.  Nothing is freed twice, and the peer's close() never frees what a
\* process still uses (util.c:498-522).
HeldIsLive ==
    ~crossed =>
        \A p \in Procs, s \in Slots, c \in Conns : Holds(p, s, c) => c \in live

\* With the same exception, a process never has two sockets on one connection:
\* a connection is accepted once, also when its address was freed and
\* allocated again (util.c:415-417, 447-452).
SoleHolder ==
    ~crossed =>
        \A p \in Procs, s, t \in Slots, c \in Conns :
            fd[p][s].conn = c /\ fd[p][t].conn = c => s = t

\* An allocated connection that no socket of either process has any more
\* (leaked: nothing frees it) was closed by both at the same time, each
\* reading that the other had not (util.c:516-520).
LeakOnlyOnSimultaneousClose ==
    ~crossed =>
        \A c \in live : (\A p \in Procs, s \in Slots : fd[p][s].conn # c) =>
                            closers[c] = Procs

\* Both ends of an open connection have a socket on it.
OpenHasBothEnds ==
    ~crossed =>
        \A c \in live : connState[c] = "open" =>
            \A p \in Procs : \E s \in Slots : fd[p][s].conn = c

\* If no llist_remove was disturbed, the list has every allocated connection
\* once, but those not yet inserted and those removed and about to be freed.
ListExact ==
    ~disturbed /\ ~crossed =>
        /\ IsInjective(list)
        /\ ToSet(list) = live \ {Conn(p) : p \in {q \in Procs :
                                     call[q].at \in {"connInsert", "rmFree"}}}

\* Freed memory is accessed in two places only: by close() setting the
\* hang-up event after the peer saw c_close and freed the connection, and by
\* an accept that took an entry from the list and tests it after it was freed
\* (or that a disturbed llist_remove left in the list).  connect, send, recv,
\* the tests of close, free and the write of c_open never do.
FreedAccessOnlyThere ==
    ~crossed =>
        \A p \in Procs : \/ Accesses(p) \subseteq live
                         \/ call[p].at \in {"clEvent", "accTest"}

\* c_close is final until the connection is freed: no late accept reopens a
\* connection that was closed.
CloseIsFinal ==
    [][~crossed =>
          \A c \in live : connState[c] = "close" /\ c \in live' =>
                           connState'[c] = "close"]_vars

\* close() and llist_remove terminate, however the list changes meanwhile.
CloseReturns ==
    \A p \in Procs :
        call[p].at \in ClosePCs ~> (At(p, "idle") \/ ub)

\* A connect whose connection was accepted, or accepted and closed, returns.
ConnectReturns ==
    \A p \in Procs :
        (call[p].at \in {"connTest", "connTest2"} /\ connState[Conn(p)] # "create")
            ~> (At(p, "idle") \/ ub)

\* While one process waits in connect for a connection, an accept of the
\* other returns: it finds the connection, unless a disturbed llist_remove
\* dropped it from the list.
AcceptReturns ==
    \A p \in Procs, q \in Procs : p # q =>
        ((/\ call[p].at \in {"connTest", "connTest2"}
          /\ connState[Conn(p)] = "create"
          /\ call[q].at \in AcceptPCs)
            ~> (At(q, "idle") \/ disturbed \/ ub))

\* util.c:516-517: when both processes close at the same time there is only a
\* memory leak, so close() sets the hang-up event of an allocated connection.
SimultaneousCloseOnlyLeaks ==
    \A p \in Procs : At(p, "clEvent") => Conn(p) \in live

\* list.h:35: llist_remove removes the entry it was asked to remove.  So what
\* is in the list is allocated, and a connection its creator waits for is in
\* the list until it is accepted.
RemoveRemovesItsEntry ==
    \A p \in Procs : call[p].at = "rmFree" => Conn(p) \notin ToSet(list)

\* util.c:394 and socket.c:300: checkIfAcceptedConnection is also true for a
\* connection that was accepted and then closed, so connect() fails only for
\* a connection that was closed before it was accepted.  In the code the
\* creator of a connection is the only one to close it before that.
RefusedMeansNeverAccepted ==
    \A p \in Procs :
        ~(call[p].at = "connTest2" /\ connState[Conn(p)] = "close"
          /\ Conn(p) \in live)
---------------------------------------------------------------------------
(* The promise of Lifecycle                                               *)

Phase(c) ==
    CASE c \in live /\ connState[c] = "create" -> "offered"
      [] c \in live /\ connState[c] = "open"   -> "open"
      [] c \in live /\ connState[c] = "close"  -> "closed"
      [] OTHER -> "none"

Ends(c) == {p \in Procs : \E s \in Slots : Holds(p, s, c)}

Life == INSTANCE Lifecycle WITH
            phase  <- [c \in Conns |-> Phase(c)],
            ends   <- [c \in Conns |-> Ends(c)],
            broken <- crossed

\* Of the steps that two processes take in connect, accept and close, all but
\* a few change nothing of a connection; those offer it, accept it, leave it
\* or release it, each when Lifecycle allows it (util.c:343-364, 441-454,
\* 498-522).
LifecycleRefinement == Life!LifeSpec
===========================================================================
