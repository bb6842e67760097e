---------------------- MODULE ConnectionSafetyProofs ----------------------
(***************************************************************************)
(* The safety properties of Connection, from the invariant IInv of         *)
(* ConnectionProofs.  ListExact needs ListInv besides, of the list and the *)
(* walks of llist_remove; that blocking connects rule a crossing out needs *)
(* Waiting.  At the end, Connection is shown to implement Lifecycle.       *)
(***************************************************************************)
EXTENDS ConnectionProofs
---------------------------------------------------------------------------
(* Safety                                                                 *)

\* The connection of a call that is not about to set the hang-up event.
LEMMA CallHolds ==
    ASSUME Frame, NEW p \in Procs, call[p].at \in ConnectPCs \union ClosePCs,
           ~At(p, "clEvent")
    PROVE  call[p].slot \in Slots /\ Conn(p) \in Conns /\ Holds(p, call[p].slot, Conn(p))
  BY DEF Frame, Holds, Leaving, Conn

\* Nothing is freed while a process that has not closed it has a socket on it
\* (util.c:498-522).
THEOREM HeldConnectionsAreLive == ASSUME PortsApart PROVE Spec => []HeldIsLive
  <1>1. IInv => HeldIsLive
    BY DEF IInv, Core, Ownership, Live, HeldIsLive
  <1>2. QED
    BY <1>1, Invariance, PTL

\* A connection is accepted once: no process has two sockets on it
\* (util.c:415-417, 447-452).
THEOREM AcceptedOnce == ASSUME PortsApart PROVE Spec => []SoleHolder
  <1>1. IInv => SoleHolder
    BY DEF IInv, Core, Ownership, Sole, SoleHolder
  <1>2. QED
    BY <1>1, Invariance, PTL

\* Only a simultaneous close leaks a connection (util.c:516-520).
THEOREM LeaksOnlySimultaneously ==
    ASSUME PortsApart PROVE Spec => []LeakOnlyOnSimultaneousClose
  <1>1. ASSUME IInv, ~crossed, NEW c \in live,
               \A p \in Procs, s \in Slots : fd[p][s].conn # c
        PROVE  closers[c] = Procs
    <2>1. \A p \in Procs, s \in Slots : ~Holds(p, s, c)
      BY <1>1 DEF Holds
    <2>2. \E p \in Procs : Created(p, c)
      BY <1>1, ProcsAssumption DEF IInv, Core, Ownership, OneCreator
    <2>3. connState[c] # "create"
      BY <1>1, <2>1, <2>2 DEF IInv, Core, Ownership, NotYetAccepted
    <2>4. \A p \in Procs : p \in closers[c]
      BY <1>1, <2>1, <2>3 DEF IInv, Core, Ownership, Accepted
    <2>5. closers[c] \subseteq Procs
      BY <1>1 DEF IInv, TypeOK, MemoryType
    <2>6. QED
      BY <2>4, <2>5
  <1>2. IInv => LeakOnlyOnSimultaneousClose
    BY <1>1 DEF LeakOnlyOnSimultaneousClose
  <1>3. QED
    BY <1>2, Invariance, PTL

\* Both ends of an open connection have a socket on it.
THEOREM OpenConnectionsHaveBothEnds ==
    ASSUME PortsApart PROVE Spec => []OpenHasBothEnds
  <1>1. ASSUME IInv, ~crossed, NEW c \in live, connState[c] = "open", NEW p \in Procs
        PROVE  \E s \in Slots : fd[p][s].conn = c
    <2>1. closers[c] = {}
      BY <1>1 DEF IInv, Core, Ownership, ClosedByLeaver
    <2>2. QED
      BY <1>1, <2>1 DEF IInv, Core, Ownership, Accepted, Holds
  <1>2. IInv => OpenHasBothEnds
    BY <1>1 DEF OpenHasBothEnds
  <1>3. QED
    BY <1>2, Invariance, PTL

\* Freed memory is accessed by the hang-up event of close and by the test of
\* accept only.
THEOREM FreedAccesses == ASSUME PortsApart PROVE Spec => []FreedAccessOnlyThere
  <1>1. ASSUME IInv, ~crossed, NEW p \in Procs,
               ~At(p, "clEvent"), ~At(p, "accTest")
        PROVE  Accesses(p) \subseteq live
    <2>1. CASE call[p].at \in {"connTest", "connTest2", "clTest1", "clTest2", "clWrite",
                               "rmFree"}
      <3>1. Accesses(p) = {Conn(p)}
        BY <2>1 DEF Accesses
      <3>2. Conn(p) \in live
        BY <1>1, <2>1, CallHolds DEF IInv, Core, Ownership, Live, ConnectPCs, ClosePCs
      <3>3. QED
        BY <3>1, <3>2
    <2>2. CASE At(p, "accOpen")
      <3>1. Accesses(p) = {call[p].entry}
        BY <2>2 DEF Accesses, At
      <3>2. call[p].entry \in live
        BY <1>1, <2>2 DEF IInv, Core, Awareness, AcceptIsDue
      <3>3. QED
        BY <3>1, <3>2
    <2>3. CASE At(p, "idle")
      <3>1. Accesses(p) = {fd[p][s].conn : s \in Slots} \ {NULL}
        BY <2>3 DEF Accesses, At
      <3>2. \A s \in Slots : fd[p][s].conn \in Conns => Holds(p, s, fd[p][s].conn)
        BY <1>1 DEF Holds, Leaving
      <3>3. \A s \in Slots : fd[p][s].conn \in Conns \union {NULL}
        BY <1>1 DEF IInv, TypeOK, ProcessType, Fds
      <3>4. QED
        BY <1>1, <3>1, <3>2, <3>3 DEF IInv, Core, Ownership, Live
    <2>4. CASE call[p].at \in {"connInsert", "accGet", "rmGet", "rmAt"}
      BY <2>4 DEF Accesses
    <2>5. call[p].at \in PCs
      BY <1>1 DEF IInv, TypeOK, ProcessType, Calls
    <2>6. QED
      BY <1>1, <2>1, <2>2, <2>3, <2>4, <2>5 DEF PCs, AcceptPCs, ClosePCs, At
  <1>2. IInv => FreedAccessOnlyThere
    BY <1>1 DEF FreedAccessOnlyThere, At
  <1>3. QED
    BY <1>2, Invariance, PTL

\* No late accept reopens a connection that was closed.
THEOREM ClosedStaysClosed == ASSUME PortsApart PROVE Spec => CloseIsFinal
  <1> DEFINE Final == ~crossed => \A c \in live : connState[c] = "close" /\ c \in live' =>
                                                    connState'[c] = "close"
  <1>1. IInv /\ [Next]_vars => Final
    <2> SUFFICES ASSUME IInv, [Next]_vars, ~crossed, NEW c \in live,
                        connState[c] = "close"
                 PROVE  connState'[c] = "close"
      OBVIOUS
    <2>1. CASE UNCHANGED connState
      BY <2>1
    <2>2. ASSUME NEW p \in Procs, ConnectNew(p)
          PROVE  connState'[c] = "close"
      BY <2>2 DEF ConnectNew, IInv, TypeOK, MemoryType
    <2>3. ASSUME NEW p \in Procs, AcceptOpen(p)
          PROVE  connState'[c] = "close"
      BY <2>3 DEF AcceptOpen, IInv, Core, Awareness, AcceptIsDue, TypeOK, MemoryType
    <2>4. ASSUME NEW p \in Procs, CloseWrite(p)
          PROVE  connState'[c] = "close"
      BY <2>4 DEF CloseWrite, IInv, TypeOK, MemoryType
    <2>5. \/ UNCHANGED connState
          \/ \E p \in Procs : ConnectNew(p) \/ AcceptOpen(p) \/ CloseWrite(p)
      BY DEF Next, InCall, Call, Undefined, vars, Socket, ConnectInsert, ConnectTest,
          ConnectTest2, PollConnecting, AcceptStart, AcceptGet, AcceptTest, Io,
          CloseStart, CloseTest1, CloseTest2, CloseEvent, RemoveGet, RemoveIndex,
          RemoveFree, FreedAccess
    <2>6. QED
      BY <2>1, <2>2, <2>3, <2>4, <2>5
  <1>2. Spec => [][Final]_vars
    BY <1>1, Invariance, PTL DEF Spec
  <1>3. QED
    BY <1>2 DEF CloseIsFinal
---------------------------------------------------------------------------
(* The list                                                               *)

In(c) == \E m \in 1..Len(list) : list[m] = c

\* c is allocated and not yet inserted, or removed and not yet freed.
Pending(c) == \E q \in Procs : call[q].at \in {"connInsert", "rmFree"} /\ Conn(q) = c

\* While no llist_remove was disturbed: every entry is there once, llist_remove
\* has not passed the entry it looks for and then has its index, and only the
\* creator of a connection inserts it.
ListInv ==
    /\ \A m, n \in 1..Len(list) : list[m] = list[n] => m = n
    /\ \A c \in Conns : In(c) <=> c \in live /\ ~Pending(c)
    /\ \A p \in Procs : At(p, "rmGet") =>
         \A m \in 1..Len(list) : list[m] = Conn(p) => call[p].i <= m
    /\ \A p \in Procs : At(p, "rmAt") =>
         call[p].i \in 1..Len(list) /\ list[call[p].i] = Conn(p)
    /\ \A p \in Procs : At(p, "connInsert") => Created(p, Conn(p))

LInv == IInv /\ (~disturbed /\ ~crossed => ListInv)

ListPCs == {"connInsert", "rmGet", "rmAt", "rmFree"}

\* The calls whose steps read or change the list have each a connection of
\* their own, which is allocated.
LEMMA Apart ==
    ASSUME Frame, Core, ListInv, NEW p \in Procs, call[p].at \in ListPCs
    PROVE  /\ call[p].slot \in Slots /\ Conn(p) \in Conns /\ Conn(p) \in live
           /\ \A q \in Procs : call[q].at \in ListPCs /\ q # p => Conn(q) # Conn(p)
  <1>1. ASSUME NEW q \in Procs, call[q].at \in ListPCs
        PROVE  /\ call[q].slot \in Slots /\ Conn(q) \in Conns
               /\ Holds(q, call[q].slot, Conn(q)) /\ Conn(q) \in live
    <2>1. /\ call[q].slot \in Slots /\ Conn(q) \in Conns
          /\ Holds(q, call[q].slot, Conn(q))
      BY <1>1, CallHolds DEF ListPCs, ConnectPCs, ClosePCs, At
    <2>2. QED
      BY <2>1 DEF Core, Ownership, Live
  <1>2. ASSUME NEW q \in Procs, call[q].at \in ListPCs, q # p, Conn(q) = Conn(p)
        PROVE  FALSE
    <2>1. CASE call[p].at \in RemovePCs
      BY <1>1, <1>2, <2>1 DEF Core, Awareness, RemoverIsAlone
    <2>2. CASE call[q].at \in RemovePCs
      BY <1>1, <1>2, <2>2 DEF Core, Awareness, RemoverIsAlone
    <2>3. CASE At(p, "connInsert") /\ At(q, "connInsert")
      BY <1>1, <1>2, <2>3 DEF ListInv, Core, Ownership, OneCreator
    <2>4. QED
      BY <1>2, <2>1, <2>2, <2>3 DEF ListPCs, RemovePCs, At
  <1>3. QED
    BY <1>1, <1>2

\* What a step that leaves the list alone does to the call of q.
Stays(q) ==
    /\ call'[q].at = call[q].at
    /\ call[q].at \in ListPCs => Conn(q)' = Conn(q) /\ call'[q].i = call[q].i
Elsewhere(q) == call[q].at \notin ListPCs /\ call'[q].at \notin ListPCs
Starts(q)    == call[q].at \notin ListPCs /\ At(q, "rmGet")' /\ call'[q].i = 1
Passes(q) ==
    /\ At(q, "rmGet") /\ At(q, "rmGet")' /\ Conn(q)' = Conn(q)
    /\ call[q].i <= Len(list) /\ list[call[q].i] # Conn(q)
    /\ call'[q].i = call[q].i + 1
Finds(q) ==
    /\ At(q, "rmGet") /\ At(q, "rmAt")' /\ Conn(q)' = Conn(q)
    /\ call'[q].i = call[q].i /\ call[q].i \in 1..Len(list)
    /\ list[call[q].i] = Conn(q)

Walks(q) == Stays(q) \/ Elsewhere(q) \/ Starts(q) \/ Passes(q) \/ Finds(q)

\* Such a step preserves the invariant of the list.
LEMMA WalkStep ==
    ASSUME TypeOK, ListInv, UNCHANGED <<list, live, port>>, \A q \in Procs : Walks(q)
    PROVE  ListInv'
  <1>1. /\ Len(list) \in Nat
        /\ \A q \in Procs : call[q].i \in Nat
    BY DEF TypeOK, MemoryType, ProcessType, Calls
  <1>2. \A c \in Conns : In(c)' <=> In(c)
    BY DEF In
  <1>3. \A c \in Conns : Pending(c)' <=> Pending(c)
    <2>1. \A q \in Procs : /\ call'[q].at \in {"connInsert", "rmFree"} <=>
                                call[q].at \in {"connInsert", "rmFree"}
                           /\ call[q].at \in {"connInsert", "rmFree"} =>
                                Conn(q)' = Conn(q)
      BY DEF Walks, Stays, Elsewhere, Starts, Passes, Finds, ListPCs, At
    <2>2. QED
      BY <2>1 DEF Pending
  <1>4. \A m, n \in 1..Len(list') : list'[m] = list'[n] => m = n
    BY DEF ListInv
  <1>5. \A c \in Conns : In(c)' <=> c \in live' /\ ~Pending(c)'
    BY <1>2, <1>3 DEF ListInv
  <1>6. ASSUME NEW p \in Procs, At(p, "rmGet")', NEW m \in 1..Len(list), list[m] = Conn(p)'
        PROVE  call'[p].i <= m
    <2>1. CASE Stays(p)
      BY <1>6, <2>1 DEF Stays, ListInv, ListPCs, At
    <2>2. CASE Starts(p)
      BY <1>1, <2>2 DEF Starts
    <2>3. CASE Passes(p)
      <3>1. call[p].i <= m /\ call[p].i # m
        BY <1>6, <2>3 DEF Passes, ListInv
      <3>2. QED
        BY <1>1, <2>3, <3>1 DEF Passes
    <2>4. QED
      BY <1>6, <2>1, <2>2, <2>3 DEF Walks, Elsewhere, Finds, ListPCs, At
  <1>7. ASSUME NEW p \in Procs, At(p, "rmAt")'
        PROVE  call'[p].i \in 1..Len(list') /\ list'[call'[p].i] = Conn(p)'
    <2>1. CASE Stays(p)
      BY <1>7, <2>1 DEF Stays, ListInv, ListPCs, At
    <2>2. CASE Finds(p)
      BY <2>2 DEF Finds
    <2>3. QED
      BY <1>7, <2>1, <2>2 DEF Walks, Elsewhere, Starts, Passes, ListPCs, At
  <1>8. ASSUME NEW p \in Procs, At(p, "connInsert")'
        PROVE  Created(p, Conn(p))'
    <2>1. At(p, "connInsert") /\ Conn(p)' = Conn(p)
      BY <1>8 DEF Walks, Stays, Elsewhere, Starts, Passes, Finds, ListPCs, At
    <2>2. QED
      BY <2>1 DEF ListInv, Created
  <1>9. QED
    BY <1>4, <1>5, <1>6, <1>7, <1>8 DEF ListInv

\* The other process neither moves nor loses its connection.
LEMMA OtherStays ==
    ASSUME Frame, NEW q \in Procs, call'[q] = call[q],
           \A s \in Slots : fd'[q][s] = fd[q][s]
    PROVE  Stays(q)
  <1>1. call[q].at \in ListPCs => call[q].slot \in Slots
    BY DEF Frame, ListPCs, ClosePCs, ConnectPCs
  <1>2. QED
    BY <1>1 DEF Stays, Conn

\* The actions that leave the list and the memory alone.
LEMMA WalkAction ==
    ASSUME TypeOK, Frame, Core, ListInv, NEW p \in Procs,
           \/ Socket(p) \/ ConnectTest(p) \/ ConnectTest2(p) \/ PollConnecting(p)
           \/ AcceptStart(p) \/ AcceptGet(p) \/ AcceptTest(p) \/ AcceptOpen(p) \/ Io(p)
           \/ CloseStart(p) \/ CloseTest1(p) \/ CloseTest2(p) \/ CloseWrite(p)
           \/ CloseEvent(p) \/ RemoveGet(p) \/ FreedAccess(p)
    PROVE  ListInv'
  <1> USE DEF SetCall, Begin, Goto, GotoWalk, Return
  <1>1. UNCHANGED <<list, live, port>>
    BY DEF Socket, ConnectTest, ConnectTest2, PollConnecting, AcceptStart, AcceptGet,
        AcceptTest, AcceptOpen, Io, CloseStart, CloseTest1, CloseTest2, CloseWrite,
        CloseEvent, RemoveGet, FreedAccess
  <1>2. /\ DOMAIN call = Procs /\ DOMAIN fd = Procs
        /\ \A q \in Procs : DOMAIN fd[q] = Slots
        /\ \A q \in Procs : call[q].i \in Nat
        /\ Len(list) \in Nat
    BY DEF TypeOK, MemoryType, ProcessType, Calls
  <1>3. ASSUME NEW q \in Procs, q # p
        PROVE  call'[q] = call[q] /\ \A s \in Slots : fd'[q][s] = fd[q][s]
    <2>1. call'[q] = call[q]
      BY <1>2, <1>3 DEF Socket, ConnectTest, ConnectTest2, PollConnecting, AcceptStart,
          AcceptGet, AcceptTest, AcceptOpen, Io, CloseStart, CloseTest1, CloseTest2,
          CloseWrite, CloseEvent, RemoveGet, FreedAccess
    <2>2. fd'[q] = fd[q]
      BY <1>2, <1>3 DEF Socket, ConnectTest, ConnectTest2, PollConnecting, AcceptStart,
          AcceptGet, AcceptTest, AcceptOpen, Io, CloseStart, CloseTest1, CloseTest2,
          CloseWrite, CloseEvent, RemoveGet, FreedAccess, SetFd
    <2>3. QED
      BY <2>1, <2>2
  <1>4. CASE \/ Socket(p) \/ ConnectTest(p) \/ ConnectTest2(p) \/ PollConnecting(p)
             \/ AcceptStart(p) \/ AcceptGet(p) \/ AcceptTest(p) \/ AcceptOpen(p)
             \/ Io(p) \/ CloseStart(p) \/ CloseWrite(p) \/ CloseEvent(p)
    <2>1. call[p].at \notin ListPCs
      BY <1>4 DEF Socket, ConnectTest, ConnectTest2, PollConnecting, AcceptStart,
          AcceptGet, AcceptTest, AcceptOpen, Io, CloseStart, CloseWrite, CloseEvent,
          ListPCs, At
    <2>2. \/ call'[p] = call[p]
          \/ call'[p].at \in {"idle", "connTest", "connTest2", "accGet", "accTest",
                              "accOpen", "clTest1", "clEvent"}
      BY <1>2, <1>4 DEF Socket, ConnectTest, ConnectTest2, PollConnecting, AcceptStart,
          AcceptGet, AcceptTest, AcceptOpen, Io, CloseStart, CloseWrite, CloseEvent
    <2>3. QED
      BY <2>1, <2>2, <1>1, <1>3, OtherStays, WalkStep DEF Walks, Elsewhere, ListPCs
  <1>5. CASE CloseTest1(p) \/ CloseTest2(p)
    <2>1. call[p].at \notin ListPCs
      BY <1>5 DEF CloseTest1, CloseTest2, ListPCs, At
    <2>2. \/ call'[p].at \in {"clTest2", "clWrite"}
          \/ At(p, "rmGet")' /\ call'[p].i = 1
      BY <1>2, <1>5 DEF CloseTest1, CloseTest2, At
    <2>3. QED
      BY <2>1, <2>2, <1>1, <1>3, OtherStays, WalkStep
      DEF Walks, Elsewhere, Starts, ListPCs
  <1>6. CASE FreedAccess(p)
    BY <1>1, <1>3, <1>6, OtherStays, WalkStep DEF FreedAccess, Walks, Stays, Conn
  <1>7. CASE RemoveGet(p)
    <2>1. At(p, "rmGet") /\ UNCHANGED fd
      BY <1>7 DEF RemoveGet
    <2>2. call[p].i \in 1..Len(list)
      <3>1. SUFFICES ASSUME call[p].i > Len(list)
                     PROVE  FALSE
        BY <1>2, <2>1 DEF Frame, WalkPCs, At
      <3>2. ~In(Conn(p))
        BY <1>2, <2>1, <3>1 DEF In, ListInv
      <3>3. PICK q \in Procs : call[q].at \in {"connInsert", "rmFree"} /\ Conn(q) = Conn(p)
        BY <2>1, <3>2, Apart DEF ListInv, Pending, ListPCs, At
      <3>4. QED
        BY <2>1, <3>3, Apart DEF ListPCs, At
    <2>3. \/ Finds(p)
          \/ Passes(p)
      <3>1. CASE list[call[p].i] = Conn(p)
        <4>1. Goto(p, "rmAt")
          BY <1>2, <1>7, <2>2, <3>1 DEF RemoveGet
        <4>2. QED
          BY <1>2, <2>1, <2>2, <3>1, <4>1 DEF Finds, Conn, At
      <3>2. CASE list[call[p].i] # Conn(p)
        <4>1. GotoWalk(p, "rmGet", call[p].i + 1)
          BY <1>2, <1>7, <2>2, <3>2 DEF RemoveGet
        <4>2. QED
          BY <1>2, <2>1, <2>2, <3>2, <4>1 DEF Passes, Conn, At
      <3>3. QED
        BY <3>1, <3>2
    <2>4. QED
      BY <2>3, <1>1, <1>3, OtherStays, WalkStep DEF Walks
  <1>8. QED
    BY <1>4, <1>5, <1>6, <1>7

\* A connection is allocated and about to be inserted: no entry changes.
LEMMA ConnectNewList ==
    ASSUME PortsApart, TypeOK, Frame, Core, ListInv, NEW p \in Procs, ConnectNew(p)
    PROVE  ListInv'
  <1>1. PICK s \in Slots, c \in Conns \ live, own \in OwnPorts :
          /\ SetFd(p, s, "created", c)
          /\ Begin(p, "connInsert", s)
          /\ port' = [port EXCEPT ![c] =
                        [q \in Procs |-> IF q = p THEN own ELSE ListenPort]]
          /\ live' = live \union {c}
          /\ At(p, "idle") /\ list' = list
    BY DEF ConnectNew
  <1>2. /\ At(p, "connInsert")' /\ Conn(p)' = c /\ Created(p, c)'
        /\ \A d \in Conns : d # c => port'[d] = port[d]
    BY <1>1 DEF Begin, SetCall, SetFd, Conn, At, Created, PortsApart, TypeOK,
       MemoryType, ProcessType
  <1>3. ASSUME NEW q \in Procs, q # p
        PROVE  Stays(q)
    <2>1. call'[q] = call[q] /\ \A t \in Slots : fd'[q][t] = fd[q][t]
      BY <1>1, <1>3 DEF Begin, SetCall, SetFd, TypeOK, ProcessType
    <2>2. QED
      BY <1>3, <2>1, OtherStays
  <1>4. \A q \in Procs : call[q].at \in ListPCs =>
                           q # p /\ Conn(q) \in Conns /\ Conn(q) # c
    BY <1>1, Apart DEF ListPCs, At
  <1>5. \A d \in Conns : In(d)' <=> In(d)
    BY <1>1 DEF In
  <1>6. ASSUME NEW d \in Conns
        PROVE  Pending(d)' <=> (Pending(d) \/ d = c)
    BY <1>2, <1>3, <1>4 DEF Pending, Stays, ListPCs, At
  <1>7. \A d \in Conns : In(d)' <=> d \in live' /\ ~Pending(d)'
    BY <1>1, <1>5, <1>6 DEF ListInv
  <1>8. \A q \in Procs : q # p => /\ At(q, "rmGet")' => At(q, "rmGet")
                                  /\ At(q, "rmAt")' => At(q, "rmAt")
                                  /\ At(q, "connInsert")' => At(q, "connInsert")
    BY <1>3 DEF Stays, At
  <1>9. \A q \in Procs : At(q, "connInsert")' => Created(q, Conn(q))'
    BY <1>2, <1>3, <1>4, <1>8 DEF ListInv, Stays, Created, ListPCs, At
  <1>10. \A q \in Procs : At(q, "rmGet")' =>
           \A m \in 1..Len(list') : list'[m] = Conn(q)' => call'[q].i <= m
    BY <1>1, <1>2, <1>3, <1>8 DEF ListInv, Stays, ListPCs, At
  <1>11. \A q \in Procs : At(q, "rmAt")' =>
           call'[q].i \in 1..Len(list') /\ list'[call'[q].i] = Conn(q)'
    BY <1>1, <1>2, <1>3, <1>8 DEF ListInv, Stays, ListPCs, At
  <1>12. \A m, n \in 1..Len(list') : list'[m] = list'[n] => m = n
    BY <1>1 DEF ListInv
  <1>13. QED
    BY <1>7, <1>9, <1>10, <1>11, <1>12 DEF ListInv

\* p changes the list and no llist_remove is disturbed: the other process is
\* not within the loop of llist_remove.
LEMMA NotDisturbed ==
    ASSUME NEW p \in Procs, ~Disturbs(p), NEW q \in Procs, q # p
    PROVE  ~At(q, "rmGet") /\ ~At(q, "rmAt")
  BY DEF Disturbs, At

\* The connection of p becomes the first entry.
LEMMA ConnectInsertList ==
    ASSUME TypeOK, Frame, Core, ListInv, NEW p \in Procs, ConnectInsert(p), ~Disturbs(p)
    PROVE  ListInv'
  <1>1. PICK c \in Conns : c = Conn(p) /\ c \in live
    BY Apart DEF ConnectInsert, ListPCs, At
  <1>2. /\ At(p, "connInsert") /\ list' = <<c>> \o list /\ UNCHANGED <<live, port>>
        /\ SetFd(p, call[p].slot, "connecting", c) /\ Goto(p, "connTest")
    BY <1>1 DEF ConnectInsert
  <1>3. /\ list \in Seq(Conns) /\ Len(list) \in Nat /\ Len(list') = Len(list) + 1
        /\ list'[1] = c
        /\ \A m \in 1..Len(list) : list'[m + 1] = list[m]
        /\ \A m \in 2..Len(list') : list'[m] = list[m - 1] /\ m - 1 \in 1..Len(list)
    BY <1>2 DEF TypeOK, MemoryType
  <1>4. At(p, "connTest")'
    BY <1>2 DEF Goto, SetCall, At, TypeOK, ProcessType
  <1>5. ASSUME NEW q \in Procs, q # p
        PROVE  Stays(q) /\ ~At(q, "rmGet")' /\ ~At(q, "rmAt")'
    <2>1. call'[q] = call[q] /\ \A t \in Slots : fd'[q][t] = fd[q][t]
      BY <1>2, <1>5 DEF Goto, SetCall, SetFd, TypeOK, ProcessType
    <2>2. QED
      BY <1>5, <2>1, OtherStays, NotDisturbed DEF At
  <1>6. ~In(c)
    BY <1>1, <1>2 DEF ListInv, Pending, At
  <1>7. ASSUME NEW d \in Conns
        PROVE  In(d)' <=> (In(d) \/ d = c)
    <2>1. ASSUME In(d)
          PROVE  In(d)'
      <3>1. PICK m \in 1..Len(list) : list[m] = d
        BY <2>1 DEF In
      <3>2. m + 1 \in 1..Len(list') /\ list'[m + 1] = d
        BY <1>3, <3>1
      <3>3. QED
        BY <3>2 DEF In
    <2>2. ASSUME In(d)', d # c
          PROVE  In(d)
      <3>1. PICK m \in 1..Len(list') : list'[m] = d
        BY <2>2 DEF In
      <3>2. m \in 2..Len(list')
        BY <1>3, <2>2, <3>1
      <3>3. QED
        BY <1>3, <3>1, <3>2 DEF In
    <2>3. In(c)'
      BY <1>3 DEF In
    <2>4. QED
      BY <2>1, <2>2, <2>3
  <1>8. ASSUME NEW d \in Conns
        PROVE  Pending(d)' <=> (Pending(d) /\ d # c)
    <2>1. \A q \in Procs : call[q].at \in {"connInsert", "rmFree"} /\ Conn(q) = c => q = p
      BY <1>1, <1>2, Apart DEF ListPCs, At
    <2>2. QED
      BY <1>1, <1>2, <1>4, <1>5, <2>1 DEF Pending, Stays, ListPCs, At
  <1>9. \A d \in Conns : In(d)' <=> d \in live' /\ ~Pending(d)'
    BY <1>1, <1>2, <1>7, <1>8 DEF ListInv
  <1>10. ASSUME NEW m \in 1..Len(list'), NEW n \in 1..Len(list'), list'[m] = list'[n]
         PROVE  m = n
    <2>1. CASE m = 1 \/ n = 1
      <3>1. \A k \in 2..Len(list') : list'[k] # c
        BY <1>3, <1>6 DEF In
      <3>2. list'[m] = c /\ list'[n] = c
        BY <1>3, <1>10, <2>1
      <3>3. m \notin 2..Len(list') /\ n \notin 2..Len(list')
        BY <3>1, <3>2
      <3>4. m = 1 /\ n = 1
        BY <1>3, <3>3
      <3>5. QED
        BY <3>4
    <2>2. CASE m # 1 /\ n # 1
      <3>1. m \in 2..Len(list') /\ n \in 2..Len(list')
        BY <1>3, <2>2
      <3>2. m - 1 = n - 1
        BY <1>3, <1>10, <3>1 DEF ListInv
      <3>3. QED
        BY <3>1, <3>2
    <2>3. QED
      BY <2>1, <2>2
  <1>11. \A q \in Procs : At(q, "connInsert")' => Created(q, Conn(q))'
    BY <1>2, <1>4, <1>5 DEF ListInv, Stays, Created, ListPCs, At
  <1>12. \A q \in Procs : ~At(q, "rmGet")' /\ ~At(q, "rmAt")'
    BY <1>4, <1>5 DEF At
  <1>13. QED
    BY <1>9, <1>10, <1>11, <1>12 DEF ListInv

\* What llist_remove_n leaves of a list.
LEMMA RemoveAtElements ==
    ASSUME NEW S, NEW q \in Seq(S), NEW k \in 1..Len(q)
    PROVE  /\ Len(RemoveAt(q, k)) = Len(q) - 1
           /\ \A m \in 1..(Len(q) - 1) :
                RemoveAt(q, k)[m] = IF m < k THEN q[m] ELSE q[m + 1]
  <1> DEFINE s1 == SubSeq(q, 1, k - 1)
             s2 == SubSeq(q, k + 1, Len(q))
  <1>1. s1 \in Seq(S) /\ Len(s1) = k - 1 /\ \A m \in 1..(k - 1) : s1[m] = q[m]
    BY SubSeqProperties
  <1>2. /\ s2 \in Seq(S) /\ Len(s2) = Len(q) - k
        /\ \A m \in 1..(Len(q) - k) : s2[m] = q[m + k]
    OBVIOUS
  <1>3. RemoveAt(q, k) = s1 \o s2
    BY DEF RemoveAt
  <1> HIDE DEF s1, s2
  <1>4. /\ Len(s1 \o s2) = Len(s1) + Len(s2)
        /\ \A m \in 1..(Len(s1) + Len(s2)) :
             (s1 \o s2)[m] = IF m <= Len(s1) THEN s1[m] ELSE s2[m - Len(s1)]
    BY <1>1, <1>2, ConcatProperties
  <1>5. QED
    BY <1>1, <1>2, <1>3, <1>4

\* The entry p looked for is still at its index.
LEMMA RemoveIndexList ==
    ASSUME TypeOK, Frame, Core, ListInv, NEW p \in Procs, RemoveIndex(p), ~Disturbs(p)
    PROVE  ListInv'
  <1>1. PICK c \in Conns : c = Conn(p) /\ c \in live
    BY Apart DEF RemoveIndex, ListPCs, At
  <1>2. PICK k \in 1..Len(list) : k = call[p].i /\ list[k] = c
    BY <1>1 DEF RemoveIndex, ListInv
  <1>3. /\ At(p, "rmAt") /\ list' = RemoveAt(list, k) /\ UNCHANGED <<live, port, fd>>
        /\ Goto(p, "rmFree")
    BY <1>2 DEF RemoveIndex, TypeOK, MemoryType
  <1>4. /\ Len(list) \in Nat /\ Len(list') = Len(list) - 1
        /\ \A m \in 1..Len(list') : list'[m] = IF m < k THEN list[m] ELSE list[m + 1]
    <2>1. list \in Seq(Conns) /\ Len(list) \in Nat
      BY DEF TypeOK, MemoryType
    <2>2. /\ Len(RemoveAt(list, k)) = Len(list) - 1
          /\ \A m \in 1..(Len(list) - 1) :
               RemoveAt(list, k)[m] = IF m < k THEN list[m] ELSE list[m + 1]
      BY <2>1, RemoveAtElements
    <2>3. QED
      BY <1>3, <2>1, <2>2
  <1>5. At(p, "rmFree")' /\ Conn(p)' = c
    BY <1>1, <1>3 DEF Goto, SetCall, At, Conn, TypeOK, ProcessType
  <1>6. ASSUME NEW q \in Procs, q # p
        PROVE  Stays(q) /\ ~At(q, "rmGet")' /\ ~At(q, "rmAt")'
    <2>1. call'[q] = call[q] /\ \A t \in Slots : fd'[q][t] = fd[q][t]
      BY <1>3, <1>6 DEF Goto, SetCall, TypeOK, ProcessType
    <2>2. QED
      BY <1>6, <2>1, OtherStays, NotDisturbed DEF At
  <1>7. ASSUME NEW d \in Conns
        PROVE  In(d)' <=> (In(d) /\ d # c)
    <2>1. ASSUME In(d), d # c
          PROVE  In(d)'
      <3>1. PICK m \in 1..Len(list) : list[m] = d /\ m # k
        BY <1>2, <2>1 DEF In
      <3>2. CASE m < k
        BY <1>4, <3>1, <3>2 DEF In
      <3>3. CASE m > k
        <4>1. m - 1 \in 1..Len(list') /\ ~(m - 1 < k) /\ (m - 1) + 1 = m
          BY <1>4, <3>1, <3>3
        <4>2. list'[m - 1] = d
          BY <1>4, <3>1, <4>1
        <4>3. QED
          BY <4>1, <4>2 DEF In
      <3>4. QED
        BY <3>1, <3>2, <3>3
    <2>2. ASSUME NEW m \in 1..Len(list'), list'[m] = d
          PROVE  In(d) /\ d # c
      <3>1. PICK n \in 1..Len(list) : list[n] = d /\ n # k
        BY <1>4, <2>2
      <3>2. QED
        BY <1>2, <3>1 DEF In, ListInv
    <2>3. QED
      BY <2>1, <2>2 DEF In
  <1>8. ASSUME NEW d \in Conns
        PROVE  Pending(d)' <=> (Pending(d) \/ d = c)
    BY <1>3, <1>5, <1>6 DEF Pending, Stays, ListPCs, At
  <1>9. \A d \in Conns : In(d)' <=> d \in live' /\ ~Pending(d)'
    BY <1>3, <1>7, <1>8 DEF ListInv
  <1>10. ASSUME NEW m \in 1..Len(list'), NEW n \in 1..Len(list'), list'[m] = list'[n]
         PROVE  m = n
    <2>1. ASSUME NEW x \in 1..Len(list')
          PROVE  \E i \in 1..Len(list) : i = (IF x < k THEN x ELSE x + 1) /\ list[i] = list'[x]
      BY <1>4
    <2>2. PICK i \in 1..Len(list) : i = (IF m < k THEN m ELSE m + 1) /\ list[i] = list'[m]
      BY <2>1
    <2>3. PICK j \in 1..Len(list) : j = (IF n < k THEN n ELSE n + 1) /\ list[j] = list'[n]
      BY <2>1
    <2>4. i = j
      BY <1>10, <2>2, <2>3 DEF ListInv
    <2>5. QED
      BY <2>2, <2>3, <2>4
  <1>11. \A q \in Procs : At(q, "connInsert")' => Created(q, Conn(q))'
    BY <1>3, <1>5, <1>6 DEF ListInv, Stays, Created, ListPCs, At
  <1>12. \A q \in Procs : ~At(q, "rmGet")' /\ ~At(q, "rmAt")'
    BY <1>5, <1>6 DEF At
  <1>13. QED
    BY <1>9, <1>10, <1>11, <1>12 DEF ListInv

\* What is freed is in the list no more.
LEMMA RemoveFreeList ==
    ASSUME TypeOK, Frame, Core, ListInv, NEW p \in Procs, RemoveFree(p)
    PROVE  ListInv'
  <1>1. PICK c \in Conns : c = Conn(p) /\ c \in live
    BY Apart DEF RemoveFree, ListPCs, At
  <1>2. /\ At(p, "rmFree") /\ live' = live \ {c} /\ UNCHANGED <<list, port>>
        /\ SetFd(p, call[p].slot, "free", NULL) /\ Return(p)
    BY <1>1 DEF RemoveFree
  <1>3. At(p, "idle")'
    BY <1>2 DEF Return, SetCall, At, TypeOK, ProcessType
  <1>4. ASSUME NEW q \in Procs, q # p
        PROVE  Stays(q)
    <2>1. call'[q] = call[q] /\ \A t \in Slots : fd'[q][t] = fd[q][t]
      BY <1>2, <1>4 DEF Return, SetCall, SetFd, TypeOK, ProcessType
    <2>2. QED
      BY <1>4, <2>1, OtherStays
  <1>5. Pending(c) /\ \A q \in Procs : call[q].at \in ListPCs /\ Conn(q) = c => q = p
    BY <1>1, <1>2, Apart DEF Pending, ListPCs, At
  <1>6. ASSUME NEW d \in Conns
        PROVE  Pending(d)' <=> (Pending(d) /\ d # c)
    BY <1>1, <1>2, <1>3, <1>4, <1>5 DEF Pending, Stays, ListPCs, At
  <1>7. \A d \in Conns : In(d)' <=> In(d)
    BY <1>2 DEF In
  <1>8. \A d \in Conns : In(d)' <=> d \in live' /\ ~Pending(d)'
    BY <1>2, <1>5, <1>6, <1>7 DEF ListInv
  <1>9. \A q \in Procs : At(q, "connInsert")' => Created(q, Conn(q))'
    BY <1>2, <1>3, <1>4 DEF ListInv, Stays, Created, ListPCs, At
  <1>10. \A q \in Procs : At(q, "rmGet")' =>
           \A m \in 1..Len(list') : list'[m] = Conn(q)' => call'[q].i <= m
    BY <1>2, <1>3, <1>4 DEF ListInv, Stays, ListPCs, At
  <1>11. \A q \in Procs : At(q, "rmAt")' =>
           call'[q].i \in 1..Len(list') /\ list'[call'[q].i] = Conn(q)'
    BY <1>2, <1>3, <1>4 DEF ListInv, Stays, ListPCs, At
  <1>12. \A m, n \in 1..Len(list') : list'[m] = list'[n] => m = n
    BY <1>2 DEF ListInv
  <1>13. QED
    BY <1>8, <1>9, <1>10, <1>11, <1>12 DEF ListInv

\* The list is empty, and no connection is allocated.
LEMMA InitList == Init => ListInv
  BY DEF Init, ListInv, In, Idle, At

\* Until a removal is disturbed or an accept crosses one, every step preserves
\* the invariant of the list.
LEMMA ListStep ==
    ASSUME PortsApart, LInv, [Next]_vars
    PROVE  LInv'
  <1>1. IInv'
    BY IInvStep DEF LInv
  <1>2. CASE UNCHANGED vars \/ Undefined
    <2>1. UNCHANGED vars
      BY <1>2 DEF Undefined
    <2>2. ListInv' <=> ListInv
      BY <2>1 DEF vars, ListInv, In, Pending, Created, Conn, At
    <2>3. disturbed' = disturbed /\ crossed' = crossed
      BY <2>1 DEF vars
    <2>4. QED
      BY <1>1, <2>2, <2>3 DEF LInv
  <1>3. ASSUME NEW p \in Procs, InCall(p) \/ Call(p), ~disturbed', ~crossed'
        PROVE  ListInv'
    <2>1. ~crossed
      BY <1>3 DEF InCall, Call
    <2>2. ASSUME ConnectInsert(p) \/ RemoveIndex(p)
          PROVE  ~disturbed /\ ~Disturbs(p)
      BY <1>3, <2>2 DEF ConnectInsert, RemoveIndex
    <2>3. \/ Socket(p) \/ ConnectTest(p) \/ ConnectTest2(p) \/ PollConnecting(p)
          \/ AcceptStart(p) \/ AcceptGet(p) \/ AcceptTest(p) \/ AcceptOpen(p) \/ Io(p)
          \/ CloseStart(p) \/ CloseTest1(p) \/ CloseTest2(p) \/ CloseWrite(p)
          \/ CloseEvent(p) \/ RemoveGet(p) \/ FreedAccess(p)
          \/ ConnectNew(p) \/ ConnectInsert(p) \/ RemoveIndex(p) \/ RemoveFree(p)
      BY <1>3 DEF InCall, Call
    <2>4. disturbed' = disturbed \/ ConnectInsert(p) \/ RemoveIndex(p)
      BY <2>3 DEF Socket, ConnectNew, ConnectTest, ConnectTest2, PollConnecting,
          AcceptStart, AcceptGet, AcceptTest, AcceptOpen, Io, CloseStart, CloseTest1,
          CloseTest2, CloseWrite, CloseEvent, RemoveGet, RemoveFree, FreedAccess
    <2>5. TypeOK /\ Frame /\ Core /\ ListInv
      BY <1>3, <2>1, <2>2, <2>4 DEF LInv, IInv
    <2>6. QED
      BY <2>2, <2>3, <2>5, WalkAction, ConnectNewList, ConnectInsertList,
         RemoveIndexList, RemoveFreeList
  <1>4. QED
    BY <1>1, <1>2, <1>3 DEF LInv, Next

\* If no llist_remove was disturbed, the list has every allocated connection
\* once, but those not yet inserted and those removed and about to be freed
\* (list.c:22-34, util.c:390, 482).
THEOREM ListStaysExact == ASSUME PortsApart PROVE Spec => []ListExact
  <1>1. Init => LInv
    BY InitIInv, InitList DEF LInv
  <1>2. LInv /\ [Next]_vars => LInv'
    BY ListStep
  <1>3. LInv => ListExact
    <2> SUFFICES ASSUME LInv, ~disturbed, ~crossed
                 PROVE  /\ IsInjective(list)
                        /\ ToSet(list) = live \ {Conn(p) : p \in {q \in Procs :
                                     call[q].at \in {"connInsert", "rmFree"}}}
      BY DEF ListExact
    <2>1. /\ ListInv /\ list \in Seq(Conns) /\ live \subseteq Conns
          /\ DOMAIN list = 1..Len(list)
      BY DEF LInv, IInv, TypeOK, MemoryType
    <2>2. IsInjective(list)
      BY <2>1 DEF ListInv, IsInjective
    <2>3. \A c : c \in ToSet(list) <=> In(c)
      BY <2>1 DEF ToSet, In
    <2>4. \A c : In(c) => c \in Conns
      BY <2>1 DEF In
    <2>5. \A c : c \in {Conn(p) : p \in {q \in Procs :
                    call[q].at \in {"connInsert", "rmFree"}}} <=> Pending(c)
      BY DEF Pending
    <2>6. QED
      BY <2>1, <2>2, <2>3, <2>4, <2>5 DEF ListInv
  <1>4. QED
    BY <1>1, <1>2, <1>3, PTL DEF Spec
---------------------------------------------------------------------------
(* Blocking connects                                                      *)

\* A process that connects in blocking mode is within connectEx as long as the
\* connection of one of its sockets waits to be accepted.
Waiting ==
    \A p \in Procs, s \in Slots, c \in Conns :
        Holds(p, s, c) /\ c \in live /\ connState[c] = "create" =>
            call[p].at \in ConnectPCs /\ call[p].slot = s

BInv == IInv /\ ~crossed /\ Waiting

\* Then nothing is removed that an accept is about to open.
LEMMA WaitingNoCrossing == Frame /\ Core /\ Waiting => ~Crossing
  <1> SUFFICES ASSUME Frame, Core, Waiting, NEW p \in Procs, NEW q \in Procs,
                      call[p].at \in RemovePCs, At(q, "accOpen"),
                      call[q].entry = Conn(p)
               PROVE  FALSE
    BY DEF Crossing, RemovePCs
  <1>1. /\ call[p].slot \in Slots /\ Conn(p) \in Conns
        /\ Holds(p, call[p].slot, Conn(p))
    BY CallHolds DEF RemovePCs, ClosePCs, At
  <1>2. Conn(p) \in live /\ connState[Conn(p)] = "create"
    BY DEF Core, Awareness, AcceptIsDue
  <1>3. call[p].at \in ConnectPCs
    BY <1>1, <1>2 DEF Waiting
  <1>4. QED
    BY <1>3 DEF ConnectPCs, RemovePCs

\* A step after which no more sockets wait than before, of calls that stay in
\* connectEx.
LEMMA WaitingStays ==
    ASSUME Waiting, live' \subseteq live,
           \A c \in Conns : connState'[c] = "create" => connState[c] = "create",
           \A q \in Procs, s \in Slots, c \in Conns :
             Holds(q, s, c)' /\ c \in live' /\ connState'[c] = "create" =>
               /\ Holds(q, s, c)
               /\ call[q].at \in ConnectPCs =>
                    call'[q].at \in ConnectPCs /\ call'[q].slot = call[q].slot
    PROVE  Waiting'
  <1> SUFFICES ASSUME NEW q \in Procs, NEW s \in Slots, NEW c \in Conns,
                      Holds(q, s, c)', c \in live', connState'[c] = "create"
               PROVE  call'[q].at \in ConnectPCs /\ call'[q].slot = s
    BY DEF Waiting
  <1>1. QED
    BY DEF Waiting

\* connectEx returns when its connection is open or closed only, and the other
\* quiet steps are not of connectEx.
LEMMA WaitingQuiet ==
    ASSUME NonblockConnect = {}, TypeOK, Frame, Waiting, NEW p \in Procs,
           \/ Socket(p) \/ ConnectInsert(p) \/ ConnectTest(p) \/ ConnectTest2(p)
           \/ PollConnecting(p) \/ AcceptStart(p) \/ AcceptGet(p) \/ Io(p)
           \/ CloseStart(p) \/ RemoveGet(p) \/ RemoveIndex(p) \/ FreedAccess(p)
    PROVE  Waiting'
  <1>1. SameHolds /\ UNCHANGED <<connState, port, live, closers>>
    BY QuietAction
  <1>2. DOMAIN call = Procs
    BY DEF TypeOK, ProcessType
  <1>3. ASSUME NEW q \in Procs, NEW s \in Slots, NEW c \in Conns,
               Holds(q, s, c), c \in live, connState[c] = "create",
               call[q].at \in ConnectPCs
        PROVE  call'[q].at \in ConnectPCs /\ call'[q].slot = call[q].slot
    <2>1. CASE q # p
      <3>1. call'[q] = call[q]
        BY <1>2, <2>1 DEF Socket, ConnectInsert, ConnectTest, ConnectTest2,
            PollConnecting, AcceptStart, AcceptGet, Io, CloseStart, RemoveGet,
            RemoveIndex, FreedAccess, SetCall, Begin, Goto, GotoWalk, Return
      <3>2. QED
        BY <1>3, <3>1
    <2>2. CASE q = p
      <3>1. c = Conn(p)
        BY <1>3, <2>2 DEF Waiting, Holds, Conn
      <3>2. CASE ConnectInsert(p)
        BY <1>2, <2>2, <3>2 DEF ConnectInsert, Goto, SetCall, ConnectPCs
      <3>3. CASE ConnectTest(p)
        <4>1. Goto(p, "connTest2")
          BY <1>3, <3>1, <3>3 DEF ConnectTest
        <4>2. QED
          BY <1>2, <2>2, <4>1 DEF Goto, SetCall, ConnectPCs
      <3>4. CASE ConnectTest2(p)
        <4>1. Goto(p, "connTest")
          BY <1>3, <3>1, <3>4 DEF ConnectTest2
        <4>2. QED
          BY <1>2, <2>2, <4>1 DEF Goto, SetCall, ConnectPCs
      <3>5. CASE FreedAccess(p)
        BY <1>3, <3>5 DEF FreedAccess
      <3>6. CASE \/ Socket(p) \/ PollConnecting(p) \/ AcceptStart(p) \/ AcceptGet(p)
                 \/ Io(p) \/ CloseStart(p) \/ RemoveGet(p) \/ RemoveIndex(p)
        BY <1>3, <2>2, <3>6 DEF Socket, PollConnecting, AcceptStart, AcceptGet, Io,
            CloseStart, RemoveGet, RemoveIndex, ConnectPCs, At
      <3>7. QED
        BY <3>2, <3>3, <3>4, <3>5, <3>6
    <2>3. QED
      BY <2>1, <2>2
  <1>4. QED
    BY <1>1, <1>3, HoldsStays, WaitingStays

\* The steps of accept and close that test or change a connection: p waits for
\* none.
LEMMA WaitingOther ==
    ASSUME TypeOK, Frame, Waiting, NEW p \in Procs,
           \/ AcceptTest(p) \/ AcceptOpen(p) \/ CloseTest1(p) \/ CloseTest2(p)
           \/ CloseWrite(p) \/ CloseEvent(p) \/ RemoveFree(p)
    PROVE  Waiting'
  <1>1. call[p].at \notin ConnectPCs
    BY DEF AcceptTest, AcceptOpen, CloseTest1, CloseTest2, CloseWrite, CloseEvent,
        RemoveFree, ConnectPCs, At
  <1>2. \A q \in Procs : q # p => call'[q] = call[q]
    BY DEF AcceptTest, AcceptOpen, CloseTest1, CloseTest2, CloseWrite, CloseEvent,
        RemoveFree, SetCall, Goto, GotoWalk, Return, TypeOK, ProcessType
  <1>3. live' \subseteq live
    BY DEF AcceptTest, AcceptOpen, CloseTest1, CloseTest2, CloseWrite, CloseEvent,
        RemoveFree
  <1>4. \A c \in Conns : connState'[c] = "create" => connState[c] = "create"
    BY DEF AcceptTest, AcceptOpen, CloseTest1, CloseTest2, CloseWrite, CloseEvent,
        RemoveFree, TypeOK, MemoryType
  <1>5. ASSUME NEW q \in Procs, NEW s \in Slots, NEW c \in Conns,
               Holds(q, s, c)', connState'[c] = "create"
        PROVE  Holds(q, s, c)
    <2>1. CASE AcceptTest(p) \/ CloseTest1(p) \/ CloseTest2(p) \/ CloseWrite(p)
      <3>1. fd' = fd /\ ~At(p, "clEvent")
        BY <2>1 DEF AcceptTest, CloseTest1, CloseTest2, CloseWrite, At
      <3>2. QED
        BY <1>2, <1>5, <3>1 DEF Holds, Leaving, At
    <2>2. CASE AcceptOpen(p)
      <3>1. PICK t \in Slots : SetFd(p, t, "open", call[p].entry)
        BY <2>2 DEF AcceptOpen
      <3>2. call[p].entry \in Conns /\ connState'[call[p].entry] = "open"
        BY <2>2 DEF AcceptOpen, Frame, TypeOK, MemoryType, At
      <3>3. fd[q][s].conn = c
        BY <1>5, <3>1, <3>2 DEF Holds, SetFd, TypeOK, ProcessType
      <3>4. ~At(p, "clEvent")
        BY <2>2 DEF AcceptOpen, At
      <3>5. QED
        BY <1>2, <1>5, <3>3, <3>4 DEF Holds, Leaving, At
    <2>3. CASE CloseEvent(p) \/ RemoveFree(p)
      <3>1. SetFd(p, call[p].slot, "free", NULL)
        BY <2>3 DEF CloseEvent, RemoveFree
      <3>2. fd[q][s].conn = c /\ ~(q = p /\ s = call[p].slot)
        BY <1>5, <3>1, NullAssumption DEF Holds, SetFd, TypeOK, ProcessType
      <3>3. QED
        BY <1>2, <1>5, <3>2 DEF Holds, Leaving, At
    <2>4. QED
      BY <2>1, <2>2, <2>3
  <1>6. QED
    BY <1>1, <1>2, <1>3, <1>4, <1>5, WaitingStays

\* A new connection waits, of a process that had none waiting.
LEMMA WaitingNew ==
    ASSUME TypeOK, Frame, Core, Waiting, NEW p \in Procs, ConnectNew(p)
    PROVE  Waiting'
  <1>1. PICK s \in Slots, c \in Conns \ live :
          /\ SetFd(p, s, "created", c)
          /\ Begin(p, "connInsert", s)
          /\ connState' = [connState EXCEPT ![c] = "create"]
          /\ live' = live \union {c} /\ At(p, "idle")
    BY DEF ConnectNew
  <1>2. /\ At(p, "connInsert")' /\ call'[p].slot = s
        /\ \A q \in Procs : q # p => call'[q] = call[q] /\ fd'[q] = fd[q]
        /\ \A t \in Slots : t # s => fd'[p][t] = fd[p][t]
        /\ fd'[p][s].conn = c
        /\ \A d \in Conns : d # c => connState'[d] = connState[d]
    BY <1>1 DEF Begin, SetCall, SetFd, At, TypeOK, MemoryType, ProcessType
  <1> SUFFICES ASSUME NEW q \in Procs, NEW t \in Slots, NEW d \in Conns,
                      Holds(q, t, d)', d \in live', connState'[d] = "create"
               PROVE  call'[q].at \in ConnectPCs /\ call'[q].slot = t
    BY DEF Waiting
  <1>3. CASE q = p /\ t = s
    BY <1>2, <1>3 DEF ConnectPCs, At
  <1>4. CASE ~(q = p /\ t = s)
    <2>1. Holds(q, t, d)
      BY <1>1, <1>2, <1>4 DEF Holds, Leaving, At
    <2>2. d \in live /\ d # c
      BY <1>1, <2>1 DEF Core, Ownership, Live
    <2>3. call[q].at \in ConnectPCs /\ call[q].slot = t
      BY <1>2, <2>1, <2>2 DEF Waiting
    <2>4. q # p
      BY <1>1, <2>3 DEF ConnectPCs, At
    <2>5. QED
      BY <1>2, <2>3, <2>4
  <1>5. QED
    BY <1>3, <1>4

\* No crossing is ever recorded.
LEMMA BlockingStep ==
    ASSUME PortsApart, NonblockConnect = {}, BInv, [Next]_vars
    PROVE  BInv'
  <1>1. IInv' /\ TypeOK /\ Frame /\ Core
    BY IInvStep DEF BInv, IInv
  <1>2. CASE UNCHANGED vars \/ Undefined
    <2>1. UNCHANGED vars
      BY <1>2 DEF Undefined
    <2>2. crossed' = crossed /\ (Waiting' <=> Waiting)
      BY <2>1 DEF vars, Waiting, Holds, Leaving, At
    <2>3. QED
      BY <1>1, <2>2 DEF BInv
  <1>3. ASSUME NEW p \in Procs, InCall(p) \/ Call(p)
        PROVE  BInv'
    <2>1. \/ Socket(p) \/ ConnectInsert(p) \/ ConnectTest(p) \/ ConnectTest2(p)
          \/ PollConnecting(p) \/ AcceptStart(p) \/ AcceptGet(p) \/ Io(p)
          \/ CloseStart(p) \/ RemoveGet(p) \/ RemoveIndex(p) \/ FreedAccess(p)
          \/ AcceptTest(p) \/ AcceptOpen(p) \/ CloseTest1(p) \/ CloseTest2(p)
          \/ CloseWrite(p) \/ CloseEvent(p) \/ RemoveFree(p) \/ ConnectNew(p)
      BY <1>3 DEF InCall, Call
    <2>2. Waiting'
      BY <1>1, <2>1, WaitingQuiet, WaitingOther, WaitingNew DEF BInv
    <2>3. ~Crossing /\ Core'
      BY <1>1, <1>3, WaitingNoCrossing, CoreStep DEF BInv
    <2>4. ~Crossing'
      BY <1>1, <2>2, <2>3, WaitingNoCrossing, PTL DEF IInv
    <2>5. crossed' <=> (crossed \/ Crossing')
      BY <1>3 DEF InCall, Call
    <2>6. QED
      BY <1>1, <2>2, <2>4, <2>5 DEF BInv
  <1>4. QED
    BY <1>2, <1>3 DEF Next

\* With blocking connects no accept crosses a removal (util.c:415-417, 505-515):
\* the theorems above then hold without exception.
THEOREM BlockingNeverCrosses ==
    ASSUME PortsApart, NonblockConnect = {}
    PROVE  Spec => []~crossed
  <1>1. Init => BInv
    BY InitIInv DEF Init, BInv, Waiting
  <1>2. BInv /\ [Next]_vars => BInv'
    BY BlockingStep
  <1>3. BInv => ~crossed
    BY DEF BInv
  <1>4. QED
    BY <1>1, <1>2, <1>3, PTL DEF Spec

---------------------------------------------------------------------------
(* The refinement of Lifecycle                                            *)

\* A step that changes connection c only.
LEMMA LifeChange ==
    ASSUME NEW c \in Conns, NEW ph, NEW e,
           Phase(c)' = ph, Ends(c)' = e,
           \A d \in Conns : d # c => Phase(d)' = Phase(d) /\ Ends(d)' = Ends(d),
           crossed' = crossed
    PROVE  Life!Becomes(c, ph, e)
  <1> DEFINE before == [d \in Conns |-> Phase(d)]
             held   == [d \in Conns |-> Ends(d)]
  <1>1. [d \in Conns |-> Phase(d)'] = [before EXCEPT ![c] = ph]
    OBVIOUS
  <1>2. [d \in Conns |-> Ends(d)'] = [held EXCEPT ![c] = e]
    OBVIOUS
  <1>3. QED
    BY <1>1, <1>2 DEF Life!Becomes

\* A connection of which nothing changes.
LEMMA LifeSame ==
    ASSUME NEW c \in Conns, connState'[c] = connState[c], c \in live' <=> c \in live,
           \A p \in Procs, s \in Slots : Holds(p, s, c)' <=> Holds(p, s, c)
    PROVE  Phase(c)' = Phase(c) /\ Ends(c)' = Ends(c)
  <1>1. Ends(c)' = Ends(c)
    BY DEF Ends
  <1>2. Phase(c)' = Phase(c)
    BY DEF Phase
  <1>3. QED
    BY <1>1, <1>2

\* A step that changes neither the state of a connection nor who has it.
LEMMA LifeQuiet ==
    ASSUME UNCHANGED <<connState, live>>,
           \A p \in Procs, s \in Slots, c \in Conns : Holds(p, s, c)' <=> Holds(p, s, c)
    PROVE  \A c \in Conns : Phase(c)' = Phase(c) /\ Ends(c)' = Ends(c)
  BY DEF Phase, Ends

\* An accept and a removal cross in the steps that pass a test, not in those
\* that change a connection.
LEMMA NoNewCrossing ==
    ASSUME TypeOK, Frame, ~Crossing, NEW p \in Procs,
           ConnectNew(p) \/ AcceptOpen(p) \/ CloseWrite(p) \/ RemoveFree(p)
    PROVE  ~Crossing'
  <1>1. /\ call'[p].at \in {"connInsert", "idle", "clEvent"}
        /\ \A q \in Procs : q # p => call'[q] = call[q] /\ fd'[q] = fd[q]
    BY DEF ConnectNew, AcceptOpen, CloseWrite, RemoveFree, Begin, Goto, Return,
        SetCall, SetFd, TypeOK, ProcessType
  <1> SUFFICES ASSUME NEW q \in Procs, NEW r \in Procs,
                      call'[q].at \in {"rmGet", "rmAt", "rmFree"},
                      At(r, "accOpen")', call'[r].entry = Conn(q)'
               PROVE  Crossing
    BY DEF Crossing
  <1>2. q # p /\ r # p
    BY <1>1 DEF At
  <1>3. Conn(q)' = Conn(q) /\ call'[q] = call[q] /\ call'[r] = call[r]
    BY <1>1, <1>2 DEF Conn
  <1>4. QED
    BY <1>3 DEF Crossing, At

\* createNewConnection offers a connection that nobody has.
LEMMA OfferStep ==
    ASSUME TypeOK, Frame, Core, NEW p \in Procs, ConnectNew(p), crossed' = crossed
    PROVE  \E c \in Conns : Life!Offer(p, c)
  <1>1. PICK s \in Slots, c \in Conns \ live, own \in OwnPorts :
          /\ fd[p][s].state = "created"
          /\ SetFd(p, s, "created", c)
          /\ Begin(p, "connInsert", s)
          /\ connState' = [connState EXCEPT ![c] = "create"]
          /\ live' = live \union {c}
    BY DEF ConnectNew
  <1>2. At(p, "idle") /\ fd[p][s].conn = NULL
    BY <1>1 DEF ConnectNew, Frame, At
  <1>3. At(p, "connInsert")' /\ \A q \in Procs : q # p => call'[q] = call[q]
    BY <1>1 DEF Begin, SetCall, At, TypeOK, ProcessType
  <1>4. /\ \A q \in Procs, t \in Slots : ~(q = p /\ t = s) => fd'[q][t] = fd[q][t]
        /\ fd'[p][s].conn = c
    BY <1>1 DEF SetFd, TypeOK, ProcessType
  <1>5. \A q \in Procs, t \in Slots, d \in Conns :
          Holds(q, t, d)' <=> (Holds(q, t, d) \/ (q = p /\ t = s /\ d = c))
    BY <1>2, <1>3, <1>4, NullAssumption DEF Holds, Leaving, At
  <1>6. \A q \in Procs, t \in Slots : ~Holds(q, t, c)
    BY <1>1 DEF Core, Ownership, Live
  <1>7. Phase(c) = "none" /\ Ends(c) = {}
    BY <1>1, <1>6 DEF Phase, Ends
  <1>8. Phase(c)' = "offered" /\ Ends(c)' = {p}
    <2>1. c \in live' /\ connState'[c] = "create"
      BY <1>1 DEF TypeOK, MemoryType
    <2>2. QED
      BY <1>1, <1>5, <1>6, <2>1 DEF Phase, Ends
  <1>9. \A d \in Conns : d # c => Phase(d)' = Phase(d) /\ Ends(d)' = Ends(d)
    <2>1. \A d \in Conns : d # c => connState'[d] = connState[d] /\ (d \in live' <=> d \in live)
      BY <1>1 DEF TypeOK, MemoryType
    <2>2. QED
      BY <1>5, <2>1, LifeSame
  <1>10. Life!Becomes(c, "offered", {p})
    BY <1>8, <1>9, LifeChange
  <1>11. QED
    BY <1>7, <1>10 DEF Life!Offer

\* acceptNewConnectionOnIface accepts an offer of the other process.
LEMMA AcceptStep ==
    ASSUME TypeOK, Frame, Core, NEW p \in Procs, AcceptOpen(p), crossed' = crossed
    PROVE  \E c \in Conns : Life!Accept(p, c)
  <1>0. PICK c \in Conns : c = call[p].entry
    BY DEF AcceptOpen, Frame, At
  <1>1. /\ At(p, "accOpen") /\ c \in live /\ live' = live
        /\ connState' = [connState EXCEPT ![c] = "open"] /\ Return(p)
    BY <1>0 DEF AcceptOpen
  <1>2. PICK s \in Slots : fd[p][s].state = "free" /\ SetFd(p, s, "open", c)
    BY <1>0 DEF AcceptOpen
  <1>3. At(p, "idle")' /\ \A q \in Procs : q # p => call'[q] = call[q]
    BY <1>1 DEF Return, SetCall, At, TypeOK, ProcessType
  <1>4. /\ \A q \in Procs, t \in Slots : ~(q = p /\ t = s) => fd'[q][t] = fd[q][t]
        /\ fd'[p][s].conn = c /\ fd[p][s].conn = NULL
    BY <1>2 DEF SetFd, TypeOK, ProcessType
  <1>5. connState[c] = "create" /\ ~Created(p, c)
    BY <1>0, <1>1 DEF Core, Awareness, AcceptIsDue
  <1>6. \A q \in Procs, t \in Slots, d \in Conns :
          Holds(q, t, d)' <=> (Holds(q, t, d) \/ (q = p /\ t = s /\ d = c))
    BY <1>1, <1>3, <1>4, NullAssumption DEF Holds, Leaving, At
  <1>7. Phase(c) = "offered" /\ p \notin Ends(c)
    BY <1>1, <1>5 DEF Phase, Ends, Core, Ownership, NotYetAccepted
  <1>8. Phase(c)' = "open" /\ Ends(c)' = Ends(c) \union {p}
    <2>1. c \in live' /\ connState'[c] = "open"
      BY <1>1 DEF TypeOK, MemoryType
    <2>2. QED
      BY <1>6, <2>1 DEF Phase, Ends
  <1>9. \A d \in Conns : d # c => Phase(d)' = Phase(d) /\ Ends(d)' = Ends(d)
    <2>1. \A d \in Conns : d # c => connState'[d] = connState[d]
      BY <1>1 DEF TypeOK, MemoryType
    <2>2. QED
      BY <1>1, <1>6, <2>1, LifeSame
  <1>10. Life!Becomes(c, "open", Ends(c) \union {p})
    BY <1>8, <1>9, LifeChange
  <1>11. QED
    BY <1>7, <1>10 DEF Life!Accept

\* closeConnection of a connection that was accepted leaves it.
LEMMA LeaveStep ==
    ASSUME TypeOK, Frame, Core, NEW p \in Procs, CloseWrite(p), crossed' = crossed
    PROVE  \E c \in Conns : Life!Leave(p, c)
  <1>0. PICK c \in Conns : c = Conn(p)
    BY DEF CloseWrite, Frame, ClosePCs, At
  <1>1. /\ UNCHANGED <<live, fd>> /\ At(p, "clWrite") /\ c \in live
        /\ connState' = [connState EXCEPT ![c] = "close"]
        /\ Goto(p, "clEvent")
    BY <1>0 DEF CloseWrite
  <1>2. /\ At(p, "clEvent")' /\ call'[p].slot = call[p].slot
        /\ \A q \in Procs : q # p => call'[q] = call[q]
    BY <1>1 DEF Goto, SetCall, At, TypeOK, ProcessType, Calls
  <1>3. /\ call[p].slot \in Slots /\ Holds(p, call[p].slot, c)
        /\ connState[c] \in {"open", "close"}
    BY <1>0, <1>1 DEF Frame, ClosePCs, At, Holds, Leaving, Conn, Core, Awareness,
        CloseKnows, TypeOK, MemoryType, ConnStates
  <1>4. \A q \in Procs, s \in Slots, d \in Conns :
          Holds(q, s, d)' <=> Holds(q, s, d) /\ ~(q = p /\ s = call[p].slot)
    BY <1>1, <1>2 DEF Holds, Leaving, At
  <1>5. \A s \in Slots : ~Holds(p, s, c)'
    BY <1>3, <1>4 DEF Core, Ownership, Sole, Holds
  <1>6. \A q \in Procs, s \in Slots, d \in Conns :
          q # p \/ d # c => (Holds(q, s, d)' <=> Holds(q, s, d))
    BY <1>3, <1>4 DEF Holds
  <1>7. Phase(c) \in {"open", "closed"} /\ p \in Ends(c)
    BY <1>1, <1>3 DEF Phase, Ends
  <1>8. Phase(c)' = "closed" /\ Ends(c)' = Ends(c) \ {p}
    <2>1. c \in live' /\ connState'[c] = "close"
      BY <1>1 DEF TypeOK, MemoryType
    <2>2. QED
      BY <1>5, <1>6, <2>1 DEF Phase, Ends
  <1>9. \A d \in Conns : d # c => Phase(d)' = Phase(d) /\ Ends(d)' = Ends(d)
    <2>1. \A d \in Conns : d # c => connState'[d] = connState[d]
      BY <1>1 DEF TypeOK, MemoryType
    <2>2. QED
      BY <1>1, <1>6, <2>1, LifeSame
  <1>10. Life!Becomes(c, "closed", Ends(c) \ {p})
    BY <1>8, <1>9, LifeChange
  <1>11. QED
    BY <1>7, <1>10 DEF Life!Leave

\* removeConnection releases a connection that p alone has.
LEMMA ReleaseStep ==
    ASSUME TypeOK, Frame, Core, NEW p \in Procs, RemoveFree(p), crossed' = crossed
    PROVE  \E c \in Conns : Life!Release(p, c)
  <1>0. PICK c \in Conns : c = Conn(p)
    BY DEF RemoveFree, Frame, ClosePCs, At
  <1>1. /\ UNCHANGED connState /\ At(p, "rmFree")
        /\ live' = live \ {c} /\ c \in live
        /\ SetFd(p, call[p].slot, "free", NULL) /\ Return(p)
    BY <1>0 DEF RemoveFree
  <1>2. At(p, "idle")' /\ \A q \in Procs : q # p => call'[q] = call[q]
    BY <1>1 DEF Return, SetCall, At, TypeOK, ProcessType
  <1>3. call[p].slot \in Slots /\ Holds(p, call[p].slot, c)
    BY <1>0, <1>1 DEF Frame, ClosePCs, At, Holds, Leaving, Conn
  <1>4. /\ \A q \in Procs, s \in Slots :
             ~(q = p /\ s = call[p].slot) => fd'[q][s] = fd[q][s]
        /\ fd'[p][call[p].slot].conn = NULL
    BY <1>1, <1>3 DEF SetFd, TypeOK, ProcessType
  <1>5. \A q \in Procs, s \in Slots, d \in Conns :
          Holds(q, s, d)' <=> Holds(q, s, d) /\ ~(q = p /\ s = call[p].slot)
    BY <1>1, <1>2, <1>4, NullAssumption DEF Holds, Leaving, At
  <1>6. \A q \in Procs, s \in Slots : q # p => ~Holds(q, s, c)
    BY <1>0, <1>1 DEF Core, Awareness, RemoverIsAlone, RemovePCs, At
  <1>7. connState[c] \in {"create", "close"}
    BY <1>0, <1>1 DEF Core, Awareness, CloseKnows, RemovePCs, At, TypeOK, MemoryType,
        ConnStates
  <1>8. Phase(c) \in {"offered", "closed"} /\ Ends(c) = {p}
    BY <1>1, <1>3, <1>6, <1>7 DEF Phase, Ends
  <1>9. \A s \in Slots : ~Holds(p, s, c)'
    BY <1>3, <1>5 DEF Core, Ownership, Sole, Holds
  <1>10. Phase(c)' = "none" /\ Ends(c)' = {}
    BY <1>1, <1>5, <1>6, <1>9 DEF Phase, Ends
  <1>11. \A d \in Conns : d # c => Phase(d)' = Phase(d) /\ Ends(d)' = Ends(d)
    <2>1. \A q \in Procs, s \in Slots, d \in Conns :
            d # c => (Holds(q, s, d)' <=> Holds(q, s, d))
      BY <1>3, <1>5 DEF Holds
    <2>2. QED
      BY <1>1, <2>1, LifeSame
  <1>12. Life!Becomes(c, "none", {})
    BY <1>10, <1>11, LifeChange
  <1>13. QED
    BY <1>8, <1>12 DEF Life!Release

\* Every other step changes nothing of a connection.
LEMMA OtherStep ==
    ASSUME TypeOK, Frame, NEW p \in Procs, InCall(p) \/ Call(p),
           ~ConnectNew(p), ~AcceptOpen(p), ~CloseWrite(p), ~RemoveFree(p)
    PROVE  \A c \in Conns : Phase(c)' = Phase(c) /\ Ends(c)' = Ends(c)
  <1>1. CASE \/ Socket(p) \/ ConnectInsert(p) \/ ConnectTest(p) \/ ConnectTest2(p)
             \/ PollConnecting(p) \/ AcceptStart(p) \/ AcceptGet(p) \/ Io(p)
             \/ CloseStart(p) \/ RemoveGet(p) \/ RemoveIndex(p) \/ FreedAccess(p)
    <2>1. SameHolds /\ UNCHANGED <<connState, live>>
      BY <1>1, QuietAction
    <2>2. QED
      BY <2>1, HoldsStays, LifeQuiet
  <1>2. CASE AcceptTest(p) \/ CloseTest1(p) \/ CloseTest2(p)
    <2>1. UNCHANGED <<connState, live, fd>>
      BY <1>2 DEF AcceptTest, CloseTest1, CloseTest2
    <2>2. /\ ~At(p, "clEvent") /\ ~At(p, "clEvent")'
          /\ \A q \in Procs : q # p => call'[q] = call[q]
      BY <1>2 DEF AcceptTest, CloseTest1, CloseTest2, Goto, GotoWalk, SetCall, At,
          TypeOK, ProcessType
    <2>3. \A q \in Procs, s \in Slots, c \in Conns : Holds(q, s, c)' <=> Holds(q, s, c)
      BY <2>1, <2>2 DEF Holds, Leaving, At
    <2>4. QED
      BY <2>1, <2>3, LifeQuiet
  <1>3. CASE CloseEvent(p)
    <2>1. /\ UNCHANGED <<connState, live>> /\ At(p, "clEvent")
          /\ SetFd(p, call[p].slot, "free", NULL) /\ Return(p)
      BY <1>3 DEF CloseEvent
    <2>2. At(p, "idle")' /\ \A q \in Procs : q # p => call'[q] = call[q]
      BY <2>1 DEF Return, SetCall, At, TypeOK, ProcessType
    <2>3. call[p].slot \in Slots
      BY <2>1 DEF Frame, ClosePCs, At
    <2>4. /\ \A q \in Procs, s \in Slots :
               ~(q = p /\ s = call[p].slot) => fd'[q][s] = fd[q][s]
          /\ fd'[p][call[p].slot].conn = NULL
      BY <2>1, <2>3 DEF SetFd, TypeOK, ProcessType
    <2>5. \A q \in Procs, s \in Slots, c \in Conns : Holds(q, s, c)' <=> Holds(q, s, c)
      BY <2>1, <2>2, <2>4, NullAssumption DEF Holds, Leaving, At
    <2>6. QED
      BY <2>1, <2>5, LifeQuiet
  <1>4. QED
    BY <1>1, <1>2, <1>3 DEF InCall, Call

\* Every step is one of Lifecycle, or changes nothing there.
LEMMA LifeStep ==
    ASSUME PortsApart, IInv, [Next]_vars
    PROVE  [Life!LifeNext]_(Life!lifeVars)
  <1> USE DEF Life!lifeVars
  <1>1. CASE UNCHANGED vars \/ Undefined
    <2>1. UNCHANGED vars
      BY <1>1 DEF Undefined
    <2>2. UNCHANGED <<connState, live, crossed>>
          /\ \A p \in Procs, s \in Slots, c \in Conns : Holds(p, s, c)' <=> Holds(p, s, c)
      BY <2>1 DEF vars, Holds, Leaving, At
    <2>3. QED
      BY <2>2, LifeQuiet
  <1>2. CASE crossed
    <2>1. crossed' = TRUE
      BY <1>2 DEF Next, InCall, Call, Undefined, vars
    <2>2. TypeOK'
      BY TypeStep DEF IInv
    <2>3. \A c \in Conns : Phase(c)' \in Life!Phases /\ Ends(c)' \in SUBSET Procs
      BY <2>2 DEF TypeOK, MemoryType, ConnStates, Phase, Ends, Life!Phases
    <2>4. Life!Anything
      BY <1>2, <2>1, <2>3 DEF Life!Anything
    <2>5. QED
      BY <2>4 DEF Life!LifeNext
  <1>3. ASSUME ~crossed, NEW p \in Procs, InCall(p) \/ Call(p)
        PROVE  [Life!LifeNext]_(Life!lifeVars)
    <2>1. TypeOK /\ Frame /\ Core /\ ~Crossing
      BY <1>3 DEF IInv
    <2>2. crossed' <=> Crossing'
      BY <1>3 DEF InCall, Call
    <2>3. crossed' \in BOOLEAN /\ crossed \in BOOLEAN
      BY TypeStep DEF IInv, TypeOK, FlagType
    <2>4. CASE ConnectNew(p) \/ AcceptOpen(p) \/ CloseWrite(p) \/ RemoveFree(p)
      <3>1. crossed' = crossed
        BY <1>3, <2>1, <2>2, <2>3, <2>4, NoNewCrossing
      <3>2. \E c \in Conns : \/ Life!Offer(p, c) \/ Life!Accept(p, c)
                             \/ Life!Leave(p, c) \/ Life!Release(p, c)
        BY <2>1, <2>4, <3>1, OfferStep, AcceptStep, LeaveStep, ReleaseStep
      <3>3. QED
        BY <1>3, <3>2 DEF Life!LifeNext
    <2>5. CASE ~(ConnectNew(p) \/ AcceptOpen(p) \/ CloseWrite(p) \/ RemoveFree(p))
      <3>1. \A c \in Conns : Phase(c)' = Phase(c) /\ Ends(c)' = Ends(c)
        BY <1>3, <2>1, <2>5, OtherStep
      <3>2. UNCHANGED <<[c \in Conns |-> Phase(c)], [c \in Conns |-> Ends(c)]>>
        BY <3>1
      <3>3. CASE crossed' = TRUE
        BY <1>3, <3>2, <3>3 DEF Life!LifeNext, Life!Cross
      <3>4. CASE crossed' = FALSE
        BY <1>3, <2>3, <3>2, <3>4
      <3>5. QED
        BY <2>3, <3>3, <3>4
    <2>6. QED
      BY <2>4, <2>5
  <1>4. QED
    BY <1>1, <1>2, <1>3 DEF Next

\* Connect, accept and close keep the promise of Lifecycle, step by step:
\* a connection is accepted once, left once by each of its ends, and freed
\* once, by the process that is the last to have it.
THEOREM ConnectionIsLifecycle ==
    ASSUME PortsApart PROVE Spec => LifecycleRefinement
  <1>1. Init => Life!LifeInit
    BY NullAssumption DEF Init, Life!LifeInit, Phase, Ends, Holds, FreeFd
  <1>2. IInv /\ [Next]_vars => [Life!LifeNext]_(Life!lifeVars)
    BY LifeStep
  <1>3. QED
    BY <1>1, <1>2, Invariance, PTL DEF Spec, LifecycleRefinement, Life!LifeSpec

---------------------------------------------------------------------------
(* What follows                                                           *)

\* Lifecycle when nothing is ever broken.
Unbroken == INSTANCE Lifecycle WITH
                phase  <- [c \in Conns |-> Phase(c)],
                ends   <- [c \in Conns |-> Ends(c)],
                broken <- FALSE

\* If every process connects in blocking mode the promise of Lifecycle is kept
\* without exception: nothing is accepted that is being withdrawn
\* (util.c:415-417, 505-515).
THEOREM BlockingIsLifecycle ==
    ASSUME PortsApart, NonblockConnect = {}
    PROVE  Spec => Unbroken!LifeSpec
  <1>1. Init => Unbroken!LifeInit
    BY NullAssumption DEF Init, Unbroken!LifeInit, Phase, Ends, Holds, FreeFd
  <1>2. ASSUME IInv, ~crossed, ~crossed', [Next]_vars
        PROVE  [Unbroken!LifeNext]_(Unbroken!lifeVars)
    <2>1. [Life!LifeNext]_(Life!lifeVars)
      BY <1>2, LifeStep
    <2>2. CASE UNCHANGED Life!lifeVars
      BY <2>2 DEF Life!lifeVars, Unbroken!lifeVars
    <2>3. CASE \E p \in Procs, c \in Conns :
                 Life!Offer(p, c) \/ Life!Accept(p, c) \/ Life!Leave(p, c) \/ Life!Release(p, c)
      <3>1. PICK p \in Procs, c \in Conns :
              Life!Offer(p, c) \/ Life!Accept(p, c) \/ Life!Leave(p, c) \/ Life!Release(p, c)
        BY <2>3
      <3>2. \/ Unbroken!Offer(p, c) \/ Unbroken!Accept(p, c)
            \/ Unbroken!Leave(p, c) \/ Unbroken!Release(p, c)
        BY <3>1 DEF Life!Offer, Life!Accept, Life!Leave, Life!Release, Life!Becomes,
            Unbroken!Offer, Unbroken!Accept, Unbroken!Leave, Unbroken!Release,
            Unbroken!Becomes
      <3>3. QED
        BY <3>2 DEF Unbroken!LifeNext
    <2>4. ~Life!Cross /\ ~Life!Anything
      BY <1>2 DEF Life!Cross, Life!Anything
    <2>5. QED
      BY <2>1, <2>2, <2>3, <2>4 DEF Life!LifeNext
  <1>3. Spec => []IInv /\ []~crossed
    BY Invariance, BlockingNeverCrosses
  <1>4. QED
    BY <1>1, <1>2, <1>3, PTL DEF Spec, Unbroken!LifeSpec

\* The state of a connection only moves forward, and what both processes leave
\* behind is lost for good.
InOrder ==
    \A c \in Conns :
        /\ Phase(c) = "none"    => Phase(c)' \in {"none", "offered"}
        /\ Phase(c) = "offered" => Phase(c)' \in {"offered", "open", "none"}
        /\ Phase(c) = "open"    => Phase(c)' \in {"open", "closed"}
        /\ Phase(c) = "closed"  =>
             /\ Phase(c)' \in {"closed", "none"}
             /\ Ends(c) = {} => Phase(c)' = "closed" /\ Ends(c)' = {}

\* A connection is not freed between accept and the first close, not reopened
\* after it, and not allocated again before it is freed; one that was leaked is
\* never freed (util.c:498-522).
THEOREM ConnectionsAgeInOrder ==
    ASSUME PortsApart PROVE Spec => [][~crossed => InOrder]_vars
  <1>1. ASSUME IInv, ~crossed, [Next]_vars
        PROVE  InOrder
    <2>1. [Life!LifeNext]_(Life!lifeVars)
      BY <1>1, LifeStep
    <2>2. \A c \in Conns : Phase(c) \in Life!Phases
      BY DEF Phase, Life!Phases
    <2>3. CASE /\ [c \in Conns |-> Phase(c)'] = [c \in Conns |-> Phase(c)]
               /\ [c \in Conns |-> Ends(c)'] = [c \in Conns |-> Ends(c)]
      <3>1. ASSUME NEW c \in Conns
            PROVE  Phase(c)' = Phase(c) /\ Ends(c)' = Ends(c)
        <4>1. /\ [d \in Conns |-> Phase(d)'][c] = [d \in Conns |-> Phase(d)][c]
              /\ [d \in Conns |-> Ends(d)'][c] = [d \in Conns |-> Ends(d)][c]
          BY <2>3
        <4>2. QED
          BY <4>1
      <3>2. QED
        BY <3>1 DEF InOrder
    <2>4. ASSUME NEW p \in Procs, NEW c \in Conns, NEW ph, NEW e,
                 Life!Becomes(c, ph, e), NEW d \in Conns
          PROVE  /\ d = c => Phase(d)' = ph /\ Ends(d)' = e
                 /\ d # c => Phase(d)' = Phase(d) /\ Ends(d)' = Ends(d)
      <3> DEFINE before == [b \in Conns |-> Phase(b)]
                 held   == [b \in Conns |-> Ends(b)]
      <3>1. /\ [b \in Conns |-> Phase(b)'] = [before EXCEPT ![c] = ph]
            /\ [b \in Conns |-> Ends(b)'] = [held EXCEPT ![c] = e]
        BY <2>4 DEF Life!Becomes
      <3>2. /\ [b \in Conns |-> Phase(b)'][d] = [before EXCEPT ![c] = ph][d]
            /\ [b \in Conns |-> Ends(b)'][d] = [held EXCEPT ![c] = e][d]
        BY <3>1
      <3>3. QED
        BY <3>2
    <2>5. ASSUME NEW p \in Procs, NEW c \in Conns,
                 Life!Offer(p, c) \/ Life!Accept(p, c) \/ Life!Leave(p, c) \/ Life!Release(p, c)
          PROVE  InOrder
      <3>1. CASE Life!Offer(p, c)
        BY <2>4, <3>1 DEF Life!Offer, InOrder
      <3>2. CASE Life!Accept(p, c)
        BY <2>4, <3>2 DEF Life!Accept, InOrder
      <3>3. CASE Life!Leave(p, c)
        BY <2>4, <3>3 DEF Life!Leave, InOrder
      <3>4. CASE Life!Release(p, c)
        BY <2>4, <3>4 DEF Life!Release, InOrder
      <3>5. QED
        BY <2>5, <3>1, <3>2, <3>3, <3>4
    <2>6. ~Life!Anything
      BY <1>1 DEF Life!Anything
    <2>7. QED
      BY <2>1, <2>3, <2>5, <2>6 DEF Life!LifeNext, Life!lifeVars, Life!Cross
  <1>2. QED
    BY <1>1, Invariance, PTL DEF Spec

\* What llist_remove is asked to remove it removes, as list.h:35 has it, as
\* long as no other call changes the list meanwhile.
THEOREM UndisturbedRemoval ==
    ASSUME PortsApart
    PROVE  Spec => [](~disturbed /\ ~crossed => RemoveRemovesItsEntry)
  <1>1. ASSUME LInv, ~disturbed, ~crossed, NEW p \in Procs, call[p].at = "rmFree"
        PROVE  Conn(p) \notin ToSet(list)
    <2>1. Pending(Conn(p))
      BY <1>1 DEF Pending
    <2>2. Conn(p) \in Conns
      BY <1>1 DEF LInv, IInv, Frame, ClosePCs
    <2>3. ~In(Conn(p))
      BY <1>1, <2>1, <2>2 DEF LInv, ListInv
    <2>4. QED
      BY <2>3 DEF In, ToSet
  <1>2. LInv => (~disturbed /\ ~crossed => RemoveRemovesItsEntry)
    BY <1>1 DEF RemoveRemovesItsEntry
  <1>3. Spec => []LInv
    BY InitIInv, InitList, ListStep, PTL DEF Spec, LInv
  <1>4. QED
    BY <1>2, <1>3, PTL

\* A connect that finds its connection closed finds it closed by the other
\* process, and by it alone; Lifecycle lets that process leave only what it had
\* accepted (socket.c:300-308, util.c:394-403).
RefusedByPeer ==
    ~crossed =>
        \A p \in Procs : At(p, "connTest2") /\ connState[Conn(p)] = "close" =>
            closers[Conn(p)] = Procs \ {p}

\* So a connect is never refused by a close of its own side.
THEOREM RefusedByTheOther ==
    ASSUME PortsApart
    PROVE  Spec => []RefusedByPeer
  <1>1. ASSUME IInv, ~crossed, NEW p \in Procs, At(p, "connTest2"),
               connState[Conn(p)] = "close"
        PROVE  closers[Conn(p)] = Procs \ {p}
    <2>1. call[p].slot \in Slots /\ Conn(p) \in Conns /\ Holds(p, call[p].slot, Conn(p))
      BY <1>1, CallHolds DEF IInv, ConnectPCs, At
    <2>2. Conn(p) \in live
      BY <1>1, <2>1 DEF IInv, Core, Ownership, Live
    <2>3. p \notin closers[Conn(p)] /\ closers[Conn(p)] # {}
      BY <1>1, <2>1, <2>2 DEF IInv, Core, Ownership, ClosedByLeaver
    <2>4. closers[Conn(p)] \subseteq Procs
      BY <1>1, <2>1 DEF IInv, TypeOK, MemoryType
    <2>5. QED
      BY <2>3, <2>4, ProcsAssumption
  <1>2. IInv => RefusedByPeer
    BY <1>1 DEF RefusedByPeer
  <1>3. QED
    BY <1>2, Invariance, PTL
===========================================================================
