------------------------- MODULE ConnectionProofs -------------------------
(***************************************************************************)
(* Type correctness of Connection, for any number of sockets and           *)
(* connections and any mix of blocking and non-blocking sockets, and the   *)
(* invariant from which ConnectionSafetyProofs has the safety properties.  *)
(*                                                                         *)
(* TypeOK needs Frame: what the registers of a call are at each of its     *)
(* steps.  Core ties the state of a connection to who created it, who      *)
(* wrote c_close into it and who has a socket on it.  It holds as long as  *)
(* no accept crossed the removal of the connection it accepts, and if no   *)
(* process takes the listening port as its own (PortsApart): accept4       *)
(* recognises its own connections by their port alone.                     *)
(***************************************************************************)
EXTENDS Connection, TLAPS, SequenceTheorems

ConnectPCs == {"connInsert", "connTest", "connTest2"}
RemovePCs  == {"rmGet", "rmAt", "rmFree"}
WalkPCs    == {"accGet", "accTest", "accOpen", "rmGet", "rmAt"}

---------------------------------------------------------------------------
(* The invariant                                                          *)

\* The registers of a call are set when its steps need them, and a created
\* socket has a connection only within connectEx.
Frame ==
    /\ \A p \in Procs : call[p].at \in ConnectPCs \union ClosePCs =>
         call[p].slot \in Slots /\ Conn(p) \in Conns
    /\ \A p \in Procs : call[p].at \in {"accTest", "accOpen"} => call[p].entry \in Conns
    /\ \A p \in Procs : call[p].at \in WalkPCs => call[p].i # 0
    /\ \A p \in Procs, s \in Slots : fd[p][s].state = "created" =>
         fd[p][s].conn = NULL \/ (At(p, "connInsert") /\ call[p].slot = s)

---------------------------------------------------------------------------
(* Type correctness                                                       *)

\* llist_remove_n leaves a list of connections.
LEMMA RemoveAtType ==
    ASSUME NEW S, NEW q \in Seq(S), NEW k \in 1..Len(q)
    PROVE  RemoveAt(q, k) \in Seq(S)
  BY DEF RemoveAt

\* Nothing is allocated, and every process is idle.
LEMMA TypeInit == Init => TypeOK /\ Frame
  <1> SUFFICES ASSUME Init
               PROVE  TypeOK /\ Frame
    OBVIOUS
  <1>1. MemoryType
    BY DEF Init, MemoryType, ConnStates
  <1>2. ProcessType
    BY DEF Init, ProcessType, FreeFd, Fds, FdStates, Idle, Calls, PCs
  <1>3. FlagType
    BY DEF Init, FlagType
  <1>4. Frame
    BY DEF Init, Frame, FreeFd, Idle, ConnectPCs, AcceptPCs, ClosePCs, WalkPCs
  <1>5. QED
    BY <1>1, <1>2, <1>3, <1>4 DEF TypeOK

\* The history variables and ub stay Boolean.
LEMMA FlagStep == FlagType /\ [Next]_vars => FlagType'
  <1> SUFFICES ASSUME FlagType, [Next]_vars
               PROVE  FlagType'
    OBVIOUS
  <1>1. crossed' \in BOOLEAN
    BY DEF FlagType, Next, InCall, Call, Undefined, vars
  <1>2. disturbed' \in BOOLEAN /\ ub' \in BOOLEAN
    BY DEF FlagType, Next, InCall, Call, Undefined, vars, Socket, ConnectNew,
        ConnectInsert, ConnectTest, ConnectTest2, PollConnecting, AcceptStart,
        AcceptGet, AcceptTest, AcceptOpen, Io, CloseStart, CloseTest1, CloseTest2,
        CloseWrite, CloseEvent, RemoveGet, RemoveIndex, RemoveFree, FreedAccess
  <1>3. QED
    BY <1>1, <1>2 DEF FlagType

\* The shared memory keeps its type.
LEMMA MemoryStep ==
    ASSUME MemoryType, ProcessType, Frame, [Next]_vars
    PROVE  MemoryType'
  <1> USE NullAssumption DEF MemoryType, Frame, ConnStates, ConnectPCs, AcceptPCs,
          ClosePCs, WalkPCs, At
  <1>1. ASSUME NEW p \in Procs, Socket(p)
        PROVE  MemoryType'
    BY <1>1 DEF Socket
  <1>2. ASSUME NEW p \in Procs, ConnectNew(p)
        PROVE  MemoryType'
    BY <1>2 DEF ConnectNew
  <1>3. ASSUME NEW p \in Procs, ConnectInsert(p)
        PROVE  MemoryType'
    BY <1>3 DEF ConnectInsert
  <1>4. ASSUME NEW p \in Procs, ConnectTest(p)
        PROVE  MemoryType'
    BY <1>4 DEF ConnectTest
  <1>5. ASSUME NEW p \in Procs, ConnectTest2(p)
        PROVE  MemoryType'
    BY <1>5 DEF ConnectTest2
  <1>6. ASSUME NEW p \in Procs, PollConnecting(p)
        PROVE  MemoryType'
    BY <1>6 DEF PollConnecting
  <1>7. ASSUME NEW p \in Procs, AcceptStart(p)
        PROVE  MemoryType'
    BY <1>7 DEF AcceptStart
  <1>8. ASSUME NEW p \in Procs, AcceptGet(p)
        PROVE  MemoryType'
    BY <1>8 DEF AcceptGet
  <1>9. ASSUME NEW p \in Procs, AcceptTest(p)
        PROVE  MemoryType'
    BY <1>9 DEF AcceptTest
  <1>10. ASSUME NEW p \in Procs, AcceptOpen(p)
        PROVE  MemoryType'
    BY <1>10 DEF AcceptOpen
  <1>11. ASSUME NEW p \in Procs, Io(p)
        PROVE  MemoryType'
    BY <1>11 DEF Io
  <1>12. ASSUME NEW p \in Procs, CloseStart(p)
        PROVE  MemoryType'
    BY <1>12 DEF CloseStart
  <1>13. ASSUME NEW p \in Procs, CloseTest1(p)
        PROVE  MemoryType'
    BY <1>13 DEF CloseTest1
  <1>14. ASSUME NEW p \in Procs, CloseTest2(p)
        PROVE  MemoryType'
    BY <1>14 DEF CloseTest2
  <1>15. ASSUME NEW p \in Procs, CloseWrite(p)
        PROVE  MemoryType'
    BY <1>15 DEF CloseWrite
  <1>16. ASSUME NEW p \in Procs, CloseEvent(p)
        PROVE  MemoryType'
    BY <1>16 DEF CloseEvent
  <1>17. ASSUME NEW p \in Procs, RemoveGet(p)
        PROVE  MemoryType'
    BY <1>17 DEF RemoveGet
  <1>18. ASSUME NEW p \in Procs, RemoveIndex(p)
        PROVE  MemoryType'
    <2>1. CASE call[p].i <= Len(list)
      <3>1. call[p].i \in 1..Len(list)
        BY <1>18, <2>1 DEF RemoveIndex, ProcessType, Calls
      <3>2. RemoveAt(list, call[p].i) \in Seq(Conns)
        BY <3>1, RemoveAtType
      <3>3. QED
        BY <1>18, <2>1, <3>2 DEF RemoveIndex
    <2>2. CASE ~(call[p].i <= Len(list))
      BY <1>18, <2>2 DEF RemoveIndex
    <2>3. QED
      BY <2>1, <2>2
  <1>19. ASSUME NEW p \in Procs, RemoveFree(p)
        PROVE  MemoryType'
    BY <1>19 DEF RemoveFree
  <1>20. ASSUME NEW p \in Procs, FreedAccess(p)
        PROVE  MemoryType'
    BY <1>20 DEF FreedAccess
  <1>22. QED
    BY <1>1, <1>2, <1>3, <1>4, <1>5, <1>6, <1>7, <1>8, <1>9, <1>10, <1>11,
       <1>12, <1>13, <1>14, <1>15, <1>16, <1>17, <1>18, <1>19, <1>20 DEF Next,
       InCall, Call, Undefined, vars

\* The fds and calls keep their type, and a call its registers.
LEMMA ProcessStep ==
    ASSUME MemoryType, ProcessType, Frame, [Next]_vars
    PROVE  ProcessType' /\ Frame'
  <1> USE NullAssumption
  <1>1. ASSUME NEW p \in Procs, Socket(p)
        PROVE  ProcessType' /\ Frame'
    BY <1>1 DEF Socket, ProcessType, Frame, Fds, FdStates, Calls, PCs, ConnectPCs,
        AcceptPCs, ClosePCs, WalkPCs, Conn, At, SetCall, Begin, Goto, GotoWalk, Return, SetFd
  <1>2. ASSUME NEW p \in Procs, ConnectNew(p)
        PROVE  ProcessType' /\ Frame'
    BY <1>2 DEF ConnectNew, ProcessType, Frame, Fds, FdStates, Calls, PCs, ConnectPCs,
        AcceptPCs, ClosePCs, WalkPCs, Conn, At, SetCall, Begin, Goto, GotoWalk, Return, SetFd
  <1>3. ASSUME NEW p \in Procs, ConnectInsert(p)
        PROVE  ProcessType' /\ Frame'
    BY <1>3 DEF ConnectInsert, ProcessType, Frame, Fds, FdStates, Calls, PCs,
       ConnectPCs,
        AcceptPCs, ClosePCs, WalkPCs, Conn, At, SetCall, Begin, Goto, GotoWalk, Return, SetFd
  <1>4. ASSUME NEW p \in Procs, ConnectTest(p)
        PROVE  ProcessType' /\ Frame'
    <2>0. At(p, "connTest")
      BY <1>4 DEF ConnectTest
    <2>1. CASE connState[Conn(p)] = "open"
      <3>1. SetFd(p, call[p].slot, "open", Conn(p)) /\ Return(p)
        BY <1>4, <2>1 DEF ConnectTest
      <3>2. QED
        BY <2>0, <3>1 DEF ProcessType, Frame, Fds, FdStates, Calls, PCs, ConnectPCs,
        AcceptPCs, ClosePCs, WalkPCs, Conn, At, SetCall, Begin, Goto, GotoWalk, Return, SetFd
    <2>2. CASE connState[Conn(p)] # "open"
      <3>1. Goto(p, "connTest2") /\ UNCHANGED fd
        BY <1>4, <2>2 DEF ConnectTest
      <3>2. QED
        BY <2>0, <3>1 DEF ProcessType, Frame, Fds, FdStates, Calls, PCs, ConnectPCs,
        AcceptPCs, ClosePCs, WalkPCs, Conn, At, SetCall, Begin, Goto, GotoWalk, Return, SetFd
    <2>3. QED
      BY <2>1, <2>2
  <1>5. ASSUME NEW p \in Procs, ConnectTest2(p)
        PROVE  ProcessType' /\ Frame'
    <2>0. At(p, "connTest2")
      BY <1>5 DEF ConnectTest2
    <2>1. CASE connState[Conn(p)] = "close" \/ p \in NonblockConnect
      <3>1. Return(p) /\ UNCHANGED fd
        BY <1>5, <2>1 DEF ConnectTest2
      <3>2. QED
        BY <2>0, <3>1 DEF ProcessType, Frame, Fds, FdStates, Calls, PCs, ConnectPCs,
        AcceptPCs, ClosePCs, WalkPCs, Conn, At, SetCall, Begin, Goto, GotoWalk, Return, SetFd
    <2>2. CASE ~(connState[Conn(p)] = "close" \/ p \in NonblockConnect)
      <3>1. Goto(p, "connTest") /\ UNCHANGED fd
        BY <1>5, <2>2 DEF ConnectTest2
      <3>2. QED
        BY <2>0, <3>1 DEF ProcessType, Frame, Fds, FdStates, Calls, PCs, ConnectPCs,
        AcceptPCs, ClosePCs, WalkPCs, Conn, At, SetCall, Begin, Goto, GotoWalk, Return, SetFd
    <2>3. QED
      BY <2>1, <2>2
  <1>6. ASSUME NEW p \in Procs, PollConnecting(p)
        PROVE  ProcessType' /\ Frame'
    BY <1>6 DEF PollConnecting, ProcessType, Frame, Fds, FdStates, Calls, PCs,
       ConnectPCs,
        AcceptPCs, ClosePCs, WalkPCs, Conn, At, SetCall, Begin, Goto, GotoWalk, Return, SetFd
  <1>7. ASSUME NEW p \in Procs, AcceptStart(p)
        PROVE  ProcessType' /\ Frame'
    BY <1>7 DEF AcceptStart, ProcessType, Frame, Fds, FdStates, Calls, PCs,
       ConnectPCs,
        AcceptPCs, ClosePCs, WalkPCs, Conn, At, SetCall, Begin, Goto, GotoWalk, Return, SetFd
  <1>8. ASSUME NEW p \in Procs, AcceptGet(p)
        PROVE  ProcessType' /\ Frame'
    <2>0. At(p, "accGet")
      BY <1>8 DEF AcceptGet
    <2>1. CASE call[p].i <= Len(list)
      <3>1. SetCall(p, "accTest", NULL, call[p].i, list[call[p].i]) /\ UNCHANGED fd
        BY <1>8, <2>1 DEF AcceptGet
      <3>2. list[call[p].i] \in Conns
        BY <2>0, <2>1 DEF MemoryType, ProcessType, Calls, Frame, WalkPCs, At
      <3>3. QED
        BY <2>0, <3>1, <3>2 DEF ProcessType, Frame, Fds, FdStates, Calls,
           PCs, ConnectPCs,
        AcceptPCs, ClosePCs, WalkPCs, Conn, At, SetCall, Begin, Goto, GotoWalk, Return, SetFd
    <2>2. CASE ~(call[p].i <= Len(list)) /\ p \in NonblockAccept
      <3>1. Return(p) /\ UNCHANGED fd
        BY <1>8, <2>2 DEF AcceptGet
      <3>2. QED
        BY <2>0, <3>1 DEF ProcessType, Frame, Fds, FdStates, Calls, PCs, ConnectPCs,
        AcceptPCs, ClosePCs, WalkPCs, Conn, At, SetCall, Begin, Goto, GotoWalk, Return, SetFd
    <2>3. CASE ~(call[p].i <= Len(list)) /\ p \notin NonblockAccept
      <3>1. GotoWalk(p, "accGet", 1) /\ UNCHANGED fd
        BY <1>8, <2>3 DEF AcceptGet
      <3>2. QED
        BY <2>0, <3>1 DEF ProcessType, Frame, Fds, FdStates, Calls, PCs, ConnectPCs,
        AcceptPCs, ClosePCs, WalkPCs, Conn, At, SetCall, Begin, Goto, GotoWalk, Return, SetFd
    <2>4. QED
      BY <2>1, <2>2, <2>3
  <1>9. ASSUME NEW p \in Procs, AcceptTest(p)
        PROVE  ProcessType' /\ Frame'
    <2>0. At(p, "accTest")
      BY <1>9 DEF AcceptTest
    <2>1. CASE Acceptable(call[p].entry, p)
      <3>1. Goto(p, "accOpen") /\ UNCHANGED fd
        BY <1>9, <2>1 DEF AcceptTest
      <3>2. QED
        BY <2>0, <3>1 DEF ProcessType, Frame, Fds, FdStates, Calls, PCs, ConnectPCs,
        AcceptPCs, ClosePCs, WalkPCs, Conn, At, SetCall, Begin, Goto, GotoWalk, Return, SetFd
    <2>2. CASE ~Acceptable(call[p].entry, p)
      <3>1. GotoWalk(p, "accGet", call[p].i + 1) /\ UNCHANGED fd
        BY <1>9, <2>2 DEF AcceptTest
      <3>2. QED
        BY <2>0, <3>1 DEF ProcessType, Frame, Fds, FdStates, Calls, PCs, ConnectPCs,
        AcceptPCs, ClosePCs, WalkPCs, Conn, At, SetCall, Begin, Goto, GotoWalk, Return, SetFd
    <2>3. QED
      BY <2>1, <2>2
  <1>10. ASSUME NEW p \in Procs, AcceptOpen(p)
        PROVE  ProcessType' /\ Frame'
    BY <1>10 DEF AcceptOpen, ProcessType, Frame, Fds, FdStates, Calls, PCs,
       ConnectPCs,
        AcceptPCs, ClosePCs, WalkPCs, Conn, At, SetCall, Begin, Goto, GotoWalk, Return, SetFd
  <1>11. ASSUME NEW p \in Procs, Io(p)
        PROVE  ProcessType' /\ Frame'
    BY <1>11 DEF Io, ProcessType, Frame, Fds, FdStates, Calls, PCs, ConnectPCs,
        AcceptPCs, ClosePCs, WalkPCs, Conn, At, SetCall, Begin, Goto, GotoWalk, Return, SetFd
  <1>12. ASSUME NEW p \in Procs, CloseStart(p)
        PROVE  ProcessType' /\ Frame'
    <2>0. At(p, "idle")
      BY <1>12 DEF CloseStart
    <2>1. PICK s \in Slots :
             IF fd[p][s].conn = NULL
               THEN SetFd(p, s, "free", NULL) /\ UNCHANGED call
               ELSE Begin(p, "clTest1", s) /\ UNCHANGED fd
      BY <1>12 DEF CloseStart
    <2>2. CASE fd[p][s].conn = NULL
      <3>1. SetFd(p, s, "free", NULL) /\ UNCHANGED call
        BY <2>1, <2>2
      <3>2. QED
        BY <2>0, <3>1 DEF ProcessType, Frame, Fds, FdStates, Calls, PCs, ConnectPCs,
        AcceptPCs, ClosePCs, WalkPCs, Conn, At, SetCall, Begin, Goto, GotoWalk, Return, SetFd
    <2>3. CASE fd[p][s].conn # NULL
      <3>1. Begin(p, "clTest1", s) /\ UNCHANGED fd
        BY <2>1, <2>3
      <3>2. QED
        BY <2>0, <2>3, <3>1 DEF ProcessType, Frame, Fds, FdStates, Calls,
           PCs, ConnectPCs,
        AcceptPCs, ClosePCs, WalkPCs, Conn, At, SetCall, Begin, Goto, GotoWalk, Return, SetFd
    <2>4. QED
      BY <2>2, <2>3
  <1>13. ASSUME NEW p \in Procs, CloseTest1(p)
        PROVE  ProcessType' /\ Frame'
    <2>0. At(p, "clTest1")
      BY <1>13 DEF CloseTest1
    <2>1. CASE connState[Conn(p)] = "close"
      <3>1. GotoWalk(p, "rmGet", 1) /\ UNCHANGED fd
        BY <1>13, <2>1 DEF CloseTest1
      <3>2. QED
        BY <2>0, <3>1 DEF ProcessType, Frame, Fds, FdStates, Calls, PCs, ConnectPCs,
        AcceptPCs, ClosePCs, WalkPCs, Conn, At, SetCall, Begin, Goto, GotoWalk, Return, SetFd
    <2>2. CASE connState[Conn(p)] # "close"
      <3>1. Goto(p, "clTest2") /\ UNCHANGED fd
        BY <1>13, <2>2 DEF CloseTest1
      <3>2. QED
        BY <2>0, <3>1 DEF ProcessType, Frame, Fds, FdStates, Calls, PCs, ConnectPCs,
        AcceptPCs, ClosePCs, WalkPCs, Conn, At, SetCall, Begin, Goto, GotoWalk, Return, SetFd
    <2>3. QED
      BY <2>1, <2>2
  <1>14. ASSUME NEW p \in Procs, CloseTest2(p)
        PROVE  ProcessType' /\ Frame'
    <2>0. At(p, "clTest2")
      BY <1>14 DEF CloseTest2
    <2>1. CASE connState[Conn(p)] = "create"
      <3>1. GotoWalk(p, "rmGet", 1) /\ UNCHANGED fd
        BY <1>14, <2>1 DEF CloseTest2
      <3>2. QED
        BY <2>0, <3>1 DEF ProcessType, Frame, Fds, FdStates, Calls, PCs, ConnectPCs,
        AcceptPCs, ClosePCs, WalkPCs, Conn, At, SetCall, Begin, Goto, GotoWalk, Return, SetFd
    <2>2. CASE connState[Conn(p)] # "create"
      <3>1. Goto(p, "clWrite") /\ UNCHANGED fd
        BY <1>14, <2>2 DEF CloseTest2
      <3>2. QED
        BY <2>0, <3>1 DEF ProcessType, Frame, Fds, FdStates, Calls, PCs, ConnectPCs,
        AcceptPCs, ClosePCs, WalkPCs, Conn, At, SetCall, Begin, Goto, GotoWalk, Return, SetFd
    <2>3. QED
      BY <2>1, <2>2
  <1>15. ASSUME NEW p \in Procs, CloseWrite(p)
        PROVE  ProcessType' /\ Frame'
    BY <1>15 DEF CloseWrite, ProcessType, Frame, Fds, FdStates, Calls, PCs,
       ConnectPCs,
        AcceptPCs, ClosePCs, WalkPCs, Conn, At, SetCall, Begin, Goto, GotoWalk, Return, SetFd
  <1>16. ASSUME NEW p \in Procs, CloseEvent(p)
        PROVE  ProcessType' /\ Frame'
    BY <1>16 DEF CloseEvent, ProcessType, Frame, Fds, FdStates, Calls, PCs,
       ConnectPCs,
        AcceptPCs, ClosePCs, WalkPCs, Conn, At, SetCall, Begin, Goto, GotoWalk, Return, SetFd
  <1>17. ASSUME NEW p \in Procs, RemoveGet(p)
        PROVE  ProcessType' /\ Frame'
    <2>0. At(p, "rmGet")
      BY <1>17 DEF RemoveGet
    <2>1. CASE call[p].i > Len(list)
      <3>1. Goto(p, "rmFree") /\ UNCHANGED fd
        BY <1>17, <2>1 DEF RemoveGet
      <3>2. QED
        BY <2>0, <3>1 DEF ProcessType, Frame, Fds, FdStates, Calls, PCs, ConnectPCs,
        AcceptPCs, ClosePCs, WalkPCs, Conn, At, SetCall, Begin, Goto, GotoWalk, Return, SetFd
    <2>2. CASE ~(call[p].i > Len(list)) /\ list[call[p].i] = Conn(p)
      <3>1. Goto(p, "rmAt") /\ UNCHANGED fd
        BY <1>17, <2>2 DEF RemoveGet
      <3>2. QED
        BY <2>0, <3>1 DEF ProcessType, Frame, Fds, FdStates, Calls, PCs, ConnectPCs,
        AcceptPCs, ClosePCs, WalkPCs, Conn, At, SetCall, Begin, Goto, GotoWalk, Return, SetFd
    <2>3. CASE ~(call[p].i > Len(list)) /\ list[call[p].i] # Conn(p)
      <3>1. GotoWalk(p, "rmGet", call[p].i + 1) /\ UNCHANGED fd
        BY <1>17, <2>3 DEF RemoveGet
      <3>2. QED
        BY <2>0, <3>1 DEF ProcessType, Frame, Fds, FdStates, Calls, PCs, ConnectPCs,
        AcceptPCs, ClosePCs, WalkPCs, Conn, At, SetCall, Begin, Goto, GotoWalk, Return, SetFd
    <2>4. QED
      BY <2>1, <2>2, <2>3
  <1>18. ASSUME NEW p \in Procs, RemoveIndex(p)
        PROVE  ProcessType' /\ Frame'
    BY <1>18 DEF RemoveIndex, ProcessType, Frame, Fds, FdStates, Calls, PCs,
       ConnectPCs,
        AcceptPCs, ClosePCs, WalkPCs, Conn, At, SetCall, Begin, Goto, GotoWalk, Return, SetFd
  <1>19. ASSUME NEW p \in Procs, RemoveFree(p)
        PROVE  ProcessType' /\ Frame'
    BY <1>19 DEF RemoveFree, ProcessType, Frame, Fds, FdStates, Calls, PCs,
       ConnectPCs,
        AcceptPCs, ClosePCs, WalkPCs, Conn, At, SetCall, Begin, Goto, GotoWalk, Return, SetFd
  <1>20. ASSUME NEW p \in Procs, FreedAccess(p)
        PROVE  ProcessType' /\ Frame'
    BY <1>20 DEF FreedAccess, ProcessType, Frame, Fds, FdStates, Calls, PCs,
       ConnectPCs,
        AcceptPCs, ClosePCs, WalkPCs, Conn, At, SetCall, Begin, Goto, GotoWalk, Return, SetFd
  <1>21. CASE UNCHANGED vars
    BY <1>21 DEF vars, ProcessType, Frame, Fds, FdStates, Calls, PCs, ConnectPCs,
        AcceptPCs, ClosePCs, WalkPCs, Conn, At, SetCall, Begin, Goto, GotoWalk, Return, SetFd
  <1>22. QED
    BY <1>1, <1>2, <1>3, <1>4, <1>5, <1>6, <1>7, <1>8, <1>9, <1>10, <1>11,
       <1>12, <1>13, <1>14, <1>15, <1>16, <1>17, <1>18, <1>19, <1>20, <1>21 DEF
       Next, InCall, Call, Undefined

\* The type of all variables is inductive, with the frame of a call.
LEMMA TypeStep == TypeOK /\ Frame /\ [Next]_vars => TypeOK' /\ Frame'
  BY FlagStep, MemoryStep, ProcessStep DEF TypeOK

\* Every variable has its type, and a socket has a connection from the moment
\* connectEx or accept4 gives it one until close.
THEOREM TypeCorrect == Spec => []TypeOK
  <1>1. QED
    BY TypeInit, TypeStep, PTL DEF Spec

---------------------------------------------------------------------------
(* Who has a connection                                                   *)

PortsApart == ListenPort \notin OwnPorts \union {NULL} /\ NULL \notin OwnPorts

---------------------------------------------------------------------------
(* The invariant                                                          *)

\* p created connection c.
Created(p, c) == port[c][p] # ListenPort

OneCreator ==
    \A c \in live, p, q \in Procs : p # q => (Created(p, c) <=> ~Created(q, c))

Live == \A p \in Procs, s \in Slots, c \in Conns : Holds(p, s, c) => c \in live

Sole ==
    \A p \in Procs, s, t \in Slots, c \in Conns :
        fd[p][s].conn = c /\ fd[p][t].conn = c => s = t

\* Nobody but its creator has a connection before it is accepted, and nobody
\* closed it.
NotYetAccepted ==
    \A c \in live : connState[c] = "create" =>
        /\ closers[c] = {}
        /\ \A p \in Procs, s \in Slots : Holds(p, s, c) => Created(p, c)
        /\ \A p \in Procs : Created(p, c) => \E s \in Slots : Holds(p, s, c)

\* After that, whoever did not close it has it.
Accepted ==
    \A c \in live : connState[c] # "create" =>
        \A p \in Procs : p \notin closers[c] => \E s \in Slots : Holds(p, s, c)

\* c_close is written by a process that leaves.
ClosedByLeaver ==
    \A c \in live :
        /\ connState[c] = "close" <=> closers[c] # {}
        /\ \A p \in Procs, s \in Slots : p \in closers[c] => ~Holds(p, s, c)

Ownership == /\ OneCreator /\ Live /\ Sole
             /\ NotYetAccepted /\ Accepted /\ ClosedByLeaver

\* A connection is removed when the other process has left it or never had it.
RemoverIsAlone ==
    \A p, q \in Procs, s \in Slots :
        call[p].at \in RemovePCs /\ q # p => ~Holds(q, s, Conn(p))

\* Its state does not change any more, nor after the tests of close.
CloseKnows ==
    \A p \in Procs :
        /\ call[p].at \in RemovePCs => connState[Conn(p)] # "open"
        /\ At(p, "clWrite") => connState[Conn(p)] # "create"

\* What accept is about to open is still there to be opened.
AcceptIsDue ==
    \A p \in Procs : At(p, "accOpen") =>
        /\ call[p].entry \in live
        /\ connState[call[p].entry] = "create"
        /\ ~Created(p, call[p].entry)

Awareness == RemoverIsAlone /\ CloseKnows /\ AcceptIsDue

Core == Ownership /\ Awareness

IInv == TypeOK /\ Frame /\ (Crossing => crossed) /\ (~crossed => Core)

---------------------------------------------------------------------------
(* Lemmas                                                                 *)

\* Ownership survives a step that changes neither the connections nor who
\* holds them.
LEMMA OwnershipStays ==
    ASSUME TypeOK, Ownership, Sole',
           UNCHANGED <<connState, port, live, closers>>,
           \A p \in Procs, s \in Slots, c \in Conns : Holds(p, s, c)' <=> Holds(p, s, c)
    PROVE  Ownership'
  <1>1. live \subseteq Conns
    BY DEF TypeOK, MemoryType
  <1>2. OneCreator'
    BY DEF Ownership, OneCreator, Created
  <1>3. Live'
    BY DEF Ownership, Live
  <1>4. NotYetAccepted'
    BY <1>1 DEF Ownership, NotYetAccepted, Created
  <1>5. Accepted'
    BY <1>1 DEF Ownership, Accepted
  <1>6. ClosedByLeaver'
    BY <1>1 DEF Ownership, ClosedByLeaver
  <1>7. QED
    BY <1>2, <1>3, <1>4, <1>5, <1>6 DEF Ownership

\* The connection of every fd and the fd of every call that closes.
SameHolds ==
    /\ \A q \in Procs, s \in Slots : fd'[q][s].conn = fd[q][s].conn
    /\ \A q \in Procs : /\ At(q, "clEvent")' <=> At(q, "clEvent")
                        /\ At(q, "clEvent") => call'[q].slot = call[q].slot

\* A call does not come to a step of which Awareness says something.
NoNewStep ==
    \A q \in Procs :
        /\ At(q, "accOpen")' => At(q, "accOpen") /\ call'[q].entry = call[q].entry
        /\ At(q, "clWrite")' => At(q, "clWrite") /\ call'[q].slot = call[q].slot
        /\ call'[q].at \in RemovePCs =>
             call[q].at \in RemovePCs /\ call'[q].slot = call[q].slot

\* A step that keeps the connection of every fd keeps who relies on it.
LEMMA HoldsStays ==
    ASSUME SameHolds, NEW p \in Procs, NEW s \in Slots, NEW c
    PROVE  Holds(p, s, c)' <=> Holds(p, s, c)
  BY DEF SameHolds, Holds, Leaving, At

\* The steps that change no connection and no owner, and pass no test.
LEMMA QuietStep ==
    ASSUME TypeOK, Frame, Core, SameHolds, NoNewStep,
           UNCHANGED <<connState, port, live, closers>>
    PROVE  Core'
  <1>1. Sole'
    BY DEF Core, Ownership, Sole, SameHolds
  <1>2. Ownership'
    BY <1>1, OwnershipStays, HoldsStays DEF Core
  <1>3. ASSUME NEW p \in Procs, call[p].at \in ClosePCs, call'[p].slot = call[p].slot
        PROVE  Conn(p)' = Conn(p)
    BY <1>3 DEF Frame, Conn, SameHolds
  <1>4. RemoverIsAlone'
    BY <1>3, HoldsStays DEF Core, Awareness, RemoverIsAlone, NoNewStep,
       RemovePCs, ClosePCs
  <1>5. CloseKnows'
    BY <1>3 DEF Core, Awareness, CloseKnows, NoNewStep, RemovePCs, ClosePCs, At
  <1>6. AcceptIsDue'
    BY DEF Core, Awareness, AcceptIsDue, NoNewStep, Created, At
  <1>7. QED
    BY <1>2, <1>4, <1>5, <1>6 DEF Core, Awareness
\* An action that only moves its call on, or changes the state of an fd.
LEMMA QuietAction ==
    ASSUME TypeOK, Frame, NEW p \in Procs,
           \/ Socket(p) \/ ConnectInsert(p) \/ ConnectTest(p) \/ ConnectTest2(p)
           \/ PollConnecting(p) \/ AcceptStart(p) \/ AcceptGet(p) \/ Io(p)
           \/ CloseStart(p) \/ RemoveGet(p) \/ RemoveIndex(p) \/ FreedAccess(p)
    PROVE  /\ SameHolds /\ NoNewStep
           /\ UNCHANGED <<connState, port, live, closers>>
  <1>1. CASE Socket(p)
    <2>mem. UNCHANGED <<connState, port, live, closers>>
      BY <1>1 DEF Socket
    <2>1. SameHolds /\ NoNewStep
      BY <1>1 DEF Socket, SameHolds, NoNewStep, TypeOK, ProcessType, Frame,
         Fds, Calls,
        ConnectPCs, ClosePCs, RemovePCs, FreeFd, Conn, At, SetCall, Begin, Goto,
        GotoWalk, Return, SetFd
    <2>2. QED
      BY <2>mem, <2>1
  <1>2. CASE ConnectInsert(p)
    <2>mem. UNCHANGED <<connState, port, live, closers>>
      BY <1>2 DEF ConnectInsert
    <2>1. SameHolds /\ NoNewStep
      BY <1>2 DEF ConnectInsert, SameHolds, NoNewStep, TypeOK, ProcessType,
         Frame, Fds, Calls,
        ConnectPCs, ClosePCs, RemovePCs, FreeFd, Conn, At, SetCall, Begin, Goto,
        GotoWalk, Return, SetFd
    <2>2. QED
      BY <2>mem, <2>1
  <1>3. CASE ConnectTest(p)
    <2>mem. UNCHANGED <<connState, port, live, closers>>
      BY <1>3 DEF ConnectTest
    <2>0. At(p, "connTest")
      BY <1>3 DEF ConnectTest
    <2>1. CASE connState[Conn(p)] = "open"
      <3>1. SetFd(p, call[p].slot, "open", Conn(p)) /\ Return(p)
        BY <1>3, <2>1 DEF ConnectTest
      <3>2. SameHolds /\ NoNewStep
        BY <2>0, <3>1 DEF SameHolds, NoNewStep, TypeOK, ProcessType, Frame,
           Fds, Calls,
        ConnectPCs, ClosePCs, RemovePCs, FreeFd, Conn, At, SetCall, Begin, Goto,
        GotoWalk, Return, SetFd
      <3>3. QED
        BY <2>mem, <3>2
    <2>2. CASE connState[Conn(p)] # "open"
      <3>1. Goto(p, "connTest2") /\ UNCHANGED fd
        BY <1>3, <2>2 DEF ConnectTest
      <3>2. SameHolds /\ NoNewStep
        BY <2>0, <3>1 DEF SameHolds, NoNewStep, TypeOK, ProcessType, Frame,
           Fds, Calls,
        ConnectPCs, ClosePCs, RemovePCs, FreeFd, Conn, At, SetCall, Begin, Goto,
        GotoWalk, Return, SetFd
      <3>3. QED
        BY <2>mem, <3>2
    <2>3. QED
      BY <2>1, <2>2
  <1>4. CASE ConnectTest2(p)
    <2>mem. UNCHANGED <<connState, port, live, closers>>
      BY <1>4 DEF ConnectTest2
    <2>0. At(p, "connTest2")
      BY <1>4 DEF ConnectTest2
    <2>1. CASE connState[Conn(p)] = "close" \/ p \in NonblockConnect
      <3>1. Return(p) /\ UNCHANGED fd
        BY <1>4, <2>1 DEF ConnectTest2
      <3>2. SameHolds /\ NoNewStep
        BY <2>0, <3>1 DEF SameHolds, NoNewStep, TypeOK, ProcessType, Frame,
           Fds, Calls,
        ConnectPCs, ClosePCs, RemovePCs, FreeFd, Conn, At, SetCall, Begin, Goto,
        GotoWalk, Return, SetFd
      <3>3. QED
        BY <2>mem, <3>2
    <2>2. CASE ~(connState[Conn(p)] = "close" \/ p \in NonblockConnect)
      <3>1. Goto(p, "connTest") /\ UNCHANGED fd
        BY <1>4, <2>2 DEF ConnectTest2
      <3>2. SameHolds /\ NoNewStep
        BY <2>0, <3>1 DEF SameHolds, NoNewStep, TypeOK, ProcessType, Frame,
           Fds, Calls,
        ConnectPCs, ClosePCs, RemovePCs, FreeFd, Conn, At, SetCall, Begin, Goto,
        GotoWalk, Return, SetFd
      <3>3. QED
        BY <2>mem, <3>2
    <2>3. QED
      BY <2>1, <2>2
  <1>5. CASE PollConnecting(p)
    <2>mem. UNCHANGED <<connState, port, live, closers>>
      BY <1>5 DEF PollConnecting
    <2>1. SameHolds /\ NoNewStep
      BY <1>5 DEF PollConnecting, SameHolds, NoNewStep, TypeOK, ProcessType,
         Frame, Fds, Calls,
        ConnectPCs, ClosePCs, RemovePCs, FreeFd, Conn, At, SetCall, Begin, Goto,
        GotoWalk, Return, SetFd
    <2>2. QED
      BY <2>mem, <2>1
  <1>6. CASE AcceptStart(p)
    <2>mem. UNCHANGED <<connState, port, live, closers>>
      BY <1>6 DEF AcceptStart
    <2>1. SameHolds /\ NoNewStep
      BY <1>6 DEF AcceptStart, SameHolds, NoNewStep, TypeOK, ProcessType,
         Frame, Fds, Calls,
        ConnectPCs, ClosePCs, RemovePCs, FreeFd, Conn, At, SetCall, Begin, Goto,
        GotoWalk, Return, SetFd
    <2>2. QED
      BY <2>mem, <2>1
  <1>7. CASE AcceptGet(p)
    <2>mem. UNCHANGED <<connState, port, live, closers>>
      BY <1>7 DEF AcceptGet
    <2>0. At(p, "accGet")
      BY <1>7 DEF AcceptGet
    <2>1. CASE call[p].i <= Len(list)
      <3>1. SetCall(p, "accTest", NULL, call[p].i, list[call[p].i]) /\ UNCHANGED fd
        BY <1>7, <2>1 DEF AcceptGet
      <3>2. SameHolds /\ NoNewStep
        BY <2>0, <3>1 DEF SameHolds, NoNewStep, TypeOK, ProcessType, Frame,
           Fds, Calls,
        ConnectPCs, ClosePCs, RemovePCs, FreeFd, Conn, At, SetCall, Begin, Goto,
        GotoWalk, Return, SetFd
      <3>3. QED
        BY <2>mem, <3>2
    <2>2. CASE ~(call[p].i <= Len(list)) /\ p \in NonblockAccept
      <3>1. Return(p) /\ UNCHANGED fd
        BY <1>7, <2>2 DEF AcceptGet
      <3>2. SameHolds /\ NoNewStep
        BY <2>0, <3>1 DEF SameHolds, NoNewStep, TypeOK, ProcessType, Frame,
           Fds, Calls,
        ConnectPCs, ClosePCs, RemovePCs, FreeFd, Conn, At, SetCall, Begin, Goto,
        GotoWalk, Return, SetFd
      <3>3. QED
        BY <2>mem, <3>2
    <2>3. CASE ~(call[p].i <= Len(list)) /\ p \notin NonblockAccept
      <3>1. GotoWalk(p, "accGet", 1) /\ UNCHANGED fd
        BY <1>7, <2>3 DEF AcceptGet
      <3>2. SameHolds /\ NoNewStep
        BY <2>0, <3>1 DEF SameHolds, NoNewStep, TypeOK, ProcessType, Frame,
           Fds, Calls,
        ConnectPCs, ClosePCs, RemovePCs, FreeFd, Conn, At, SetCall, Begin, Goto,
        GotoWalk, Return, SetFd
      <3>3. QED
        BY <2>mem, <3>2
    <2>4. QED
      BY <2>1, <2>2, <2>3
  <1>8. CASE Io(p)
    <2>mem. UNCHANGED <<connState, port, live, closers>>
      BY <1>8 DEF Io
    <2>1. SameHolds /\ NoNewStep
      BY <1>8 DEF Io, SameHolds, NoNewStep, TypeOK, ProcessType, Frame, Fds, Calls,
        ConnectPCs, ClosePCs, RemovePCs, FreeFd, Conn, At, SetCall, Begin, Goto,
        GotoWalk, Return, SetFd
    <2>2. QED
      BY <2>mem, <2>1
  <1>9. CASE CloseStart(p)
    <2>mem. UNCHANGED <<connState, port, live, closers>>
      BY <1>9 DEF CloseStart
    <2>0. At(p, "idle")
      BY <1>9 DEF CloseStart
    <2>1. PICK s \in Slots :
             IF fd[p][s].conn = NULL
               THEN SetFd(p, s, "free", NULL) /\ UNCHANGED call
               ELSE Begin(p, "clTest1", s) /\ UNCHANGED fd
      BY <1>9 DEF CloseStart
    <2>2. CASE fd[p][s].conn = NULL
      <3>1. SetFd(p, s, "free", NULL) /\ UNCHANGED call
        BY <2>1, <2>2
      <3>2. SameHolds /\ NoNewStep
        BY <2>0, <2>2, <3>1 DEF SameHolds, NoNewStep, TypeOK, ProcessType,
           Frame, Fds, Calls,
        ConnectPCs, ClosePCs, RemovePCs, FreeFd, Conn, At, SetCall, Begin, Goto,
        GotoWalk, Return, SetFd
      <3>3. QED
        BY <2>mem, <3>2
    <2>3. CASE fd[p][s].conn # NULL
      <3>1. Begin(p, "clTest1", s) /\ UNCHANGED fd
        BY <2>1, <2>3
      <3>2. SameHolds /\ NoNewStep
        BY <2>0, <3>1 DEF SameHolds, NoNewStep, TypeOK, ProcessType, Frame,
           Fds, Calls,
        ConnectPCs, ClosePCs, RemovePCs, FreeFd, Conn, At, SetCall, Begin, Goto,
        GotoWalk, Return, SetFd
      <3>3. QED
        BY <2>mem, <3>2
    <2>4. QED
      BY <2>2, <2>3
  <1>10. CASE RemoveGet(p)
    <2>mem. UNCHANGED <<connState, port, live, closers>>
      BY <1>10 DEF RemoveGet
    <2>0. At(p, "rmGet")
      BY <1>10 DEF RemoveGet
    <2>1. CASE call[p].i > Len(list)
      <3>1. Goto(p, "rmFree") /\ UNCHANGED fd
        BY <1>10, <2>1 DEF RemoveGet
      <3>2. SameHolds /\ NoNewStep
        BY <2>0, <3>1 DEF SameHolds, NoNewStep, TypeOK, ProcessType, Frame,
           Fds, Calls,
        ConnectPCs, ClosePCs, RemovePCs, FreeFd, Conn, At, SetCall, Begin, Goto,
        GotoWalk, Return, SetFd
      <3>3. QED
        BY <2>mem, <3>2
    <2>2. CASE ~(call[p].i > Len(list)) /\ list[call[p].i] = Conn(p)
      <3>1. Goto(p, "rmAt") /\ UNCHANGED fd
        BY <1>10, <2>2 DEF RemoveGet
      <3>2. SameHolds /\ NoNewStep
        BY <2>0, <3>1 DEF SameHolds, NoNewStep, TypeOK, ProcessType, Frame,
           Fds, Calls,
        ConnectPCs, ClosePCs, RemovePCs, FreeFd, Conn, At, SetCall, Begin, Goto,
        GotoWalk, Return, SetFd
      <3>3. QED
        BY <2>mem, <3>2
    <2>3. CASE ~(call[p].i > Len(list)) /\ list[call[p].i] # Conn(p)
      <3>1. GotoWalk(p, "rmGet", call[p].i + 1) /\ UNCHANGED fd
        BY <1>10, <2>3 DEF RemoveGet
      <3>2. SameHolds /\ NoNewStep
        BY <2>0, <3>1 DEF SameHolds, NoNewStep, TypeOK, ProcessType, Frame,
           Fds, Calls,
        ConnectPCs, ClosePCs, RemovePCs, FreeFd, Conn, At, SetCall, Begin, Goto,
        GotoWalk, Return, SetFd
      <3>3. QED
        BY <2>mem, <3>2
    <2>4. QED
      BY <2>1, <2>2, <2>3
  <1>11. CASE RemoveIndex(p)
    <2>mem. UNCHANGED <<connState, port, live, closers>>
      BY <1>11 DEF RemoveIndex
    <2>1. SameHolds /\ NoNewStep
      BY <1>11 DEF RemoveIndex, SameHolds, NoNewStep, TypeOK, ProcessType,
         Frame, Fds, Calls,
        ConnectPCs, ClosePCs, RemovePCs, FreeFd, Conn, At, SetCall, Begin, Goto,
        GotoWalk, Return, SetFd
    <2>2. QED
      BY <2>mem, <2>1
  <1>12. CASE FreedAccess(p)
    <2>mem. UNCHANGED <<connState, port, live, closers>>
      BY <1>12 DEF FreedAccess
    <2>1. SameHolds /\ NoNewStep
      BY <1>12 DEF FreedAccess, SameHolds, NoNewStep, TypeOK, ProcessType,
         Frame, Fds, Calls,
        ConnectPCs, ClosePCs, RemovePCs, FreeFd, Conn, At, SetCall, Begin, Goto,
        GotoWalk, Return, SetFd
    <2>2. QED
      BY <2>mem, <2>1
  <1>20. QED
    BY <1>1, <1>2, <1>3, <1>4, <1>5, <1>6, <1>7, <1>8, <1>9, <1>10, <1>11, <1>12

\* AcceptTest: what passes the test of accept is due to be opened.
LEMMA AcceptTestCore ==
    ASSUME PortsApart, TypeOK, Frame, Core, NEW p \in Procs, AcceptTest(p)
    PROVE  Core'
  <1>1. /\ UNCHANGED <<connState, port, live, closers, fd>>
        /\ At(p, "accTest") /\ call[p].entry \in live
    BY DEF AcceptTest
  <1>2. CASE Acceptable(call[p].entry, p)
    <2>1. Goto(p, "accOpen")
      BY <1>2 DEF AcceptTest
    <2>2. /\ At(p, "accOpen")' /\ call'[p].entry = call[p].entry
          /\ \A q \in Procs : q # p => call'[q] = call[q]
      BY <2>1 DEF Goto, SetCall, At, TypeOK, ProcessType, Calls
    <2>3. \A q \in Procs, s \in Slots, c \in Conns : Holds(q, s, c)' <=> Holds(q, s, c)
      BY <1>1, <2>2 DEF Holds, Leaving, At
    <2>4. Ownership'
      BY <1>1, <2>3, OwnershipStays DEF Core, Ownership, Sole
    <2>5. RemoverIsAlone' /\ CloseKnows'
      <3>1. \A q \in Procs : call'[q].at \in ClosePCs =>
              /\ call'[q] = call[q] /\ Conn(q)' = Conn(q) /\ Conn(q) \in Conns
        BY <1>1, <2>2 DEF At, ClosePCs, Conn, Frame
      <3>2. QED
        BY <1>1, <2>3, <3>1 DEF Core, Awareness, RemoverIsAlone, CloseKnows,
           RemovePCs,
            ClosePCs, At
    <2>6. AcceptIsDue'
      BY <1>1, <1>2, <2>2 DEF Core, Awareness, AcceptIsDue, Acceptable, Created, At
    <2>7. QED
      BY <2>4, <2>5, <2>6 DEF Core, Awareness
  <1>3. CASE ~Acceptable(call[p].entry, p)
    <2>1. GotoWalk(p, "accGet", call[p].i + 1)
      BY <1>3 DEF AcceptTest
    <2>2. SameHolds /\ NoNewStep
      BY <1>1, <2>1 DEF SameHolds, NoNewStep, RemovePCs, GotoWalk, SetCall,
         At, TypeOK,
          ProcessType, Calls
    <2>3. QED
      BY <1>1, <2>2, QuietStep
  <1>4. QED
    BY <1>2, <1>3

\* The tests of close, when p goes on to remove its connection.
LEMMA EnterRemove ==
    ASSUME TypeOK, Frame, Core, NEW p \in Procs,
           UNCHANGED <<connState, port, live, closers, fd>>,
           call[p].at \in {"clTest1", "clTest2"},
           GotoWalk(p, "rmGet", 1),
           connState[Conn(p)] # "open",
           \A q \in Procs, s \in Slots : q # p => ~Holds(q, s, Conn(p))
    PROVE  Core'
  <1>1. /\ At(p, "rmGet")' /\ call'[p].slot = call[p].slot
        /\ \A q \in Procs : q # p => call'[q] = call[q]
    BY DEF GotoWalk, SetCall, At, TypeOK, ProcessType, Calls
  <1>2. \A q \in Procs, s \in Slots, c \in Conns : Holds(q, s, c)' <=> Holds(q, s, c)
    BY <1>1 DEF Holds, Leaving, At
  <1>3. Ownership'
    BY <1>2, OwnershipStays DEF Core, Ownership, Sole
  <1>4. \A q \in Procs : Conn(q)' = Conn(q)
    BY <1>1 DEF Conn
  <1>5. RemoverIsAlone'
    BY <1>1, <1>2, <1>4 DEF Core, Awareness, RemoverIsAlone, Frame, ClosePCs,
       RemovePCs
  <1>6. CloseKnows'
    BY <1>1, <1>4 DEF Core, Awareness, CloseKnows, At
  <1>7. AcceptIsDue'
    BY <1>1 DEF Core, Awareness, AcceptIsDue, Created, At
  <1>8. QED
    BY <1>3, <1>5, <1>6, <1>7 DEF Core, Awareness

\* CloseTest1: the peer of a connection that is closed has left it.
LEMMA CloseTest1Core ==
    ASSUME TypeOK, Frame, Core, NEW p \in Procs, CloseTest1(p)
    PROVE  Core'
  <1>1. /\ UNCHANGED <<connState, port, live, closers, fd>>
        /\ At(p, "clTest1") /\ Conn(p) \in live
    BY DEF CloseTest1
  <1>2. call[p].slot \in Slots /\ Holds(p, call[p].slot, Conn(p))
    BY <1>1 DEF Frame, ClosePCs, At, Holds, Leaving, Conn
  <1>3. CASE connState[Conn(p)] = "close"
    <2>1. GotoWalk(p, "rmGet", 1)
      BY <1>3 DEF CloseTest1
    <2>2. closers[Conn(p)] \subseteq Procs \ {p} /\ closers[Conn(p)] # {}
      BY <1>1, <1>2, <1>3 DEF Core, Ownership, ClosedByLeaver, TypeOK, MemoryType
    <2>3. \A q \in Procs : q # p => q \in closers[Conn(p)]
      BY <2>2, ProcsAssumption
    <2>4. \A q \in Procs, s \in Slots : q # p => ~Holds(q, s, Conn(p))
      BY <1>1, <2>3 DEF Core, Ownership, ClosedByLeaver
    <2>5. QED
      BY <1>1, <1>3, <2>1, <2>4, EnterRemove DEF At
  <1>4. CASE connState[Conn(p)] # "close"
    <2>1. Goto(p, "clTest2")
      BY <1>4 DEF CloseTest1
    <2>2. SameHolds /\ NoNewStep
      BY <1>1, <2>1 DEF SameHolds, NoNewStep, RemovePCs, Goto, SetCall, At, TypeOK,
          ProcessType, Calls
    <2>3. QED
      BY <1>1, <2>2, QuietStep
  <1>5. QED
    BY <1>3, <1>4

\* CloseTest2: nobody but its creator has a connection that is not accepted.
LEMMA CloseTest2Core ==
    ASSUME TypeOK, Frame, Core, NEW p \in Procs, CloseTest2(p)
    PROVE  Core'
  <1>1. /\ UNCHANGED <<connState, port, live, closers, fd>>
        /\ At(p, "clTest2") /\ Conn(p) \in live
    BY DEF CloseTest2
  <1>2. call[p].slot \in Slots /\ Holds(p, call[p].slot, Conn(p))
    BY <1>1 DEF Frame, ClosePCs, At, Holds, Leaving, Conn
  <1>3. CASE connState[Conn(p)] = "create"
    <2>1. GotoWalk(p, "rmGet", 1)
      BY <1>3 DEF CloseTest2
    <2>2. Created(p, Conn(p))
      BY <1>1, <1>2, <1>3 DEF Core, Ownership, NotYetAccepted
    <2>3. \A q \in Procs, s \in Slots : q # p => ~Holds(q, s, Conn(p))
      BY <1>1, <1>3, <2>2 DEF Core, Ownership, OneCreator, NotYetAccepted
    <2>4. QED
      BY <1>1, <1>3, <2>1, <2>3, EnterRemove DEF At
  <1>4. CASE connState[Conn(p)] # "create"
    <2>1. Goto(p, "clWrite")
      BY <1>4 DEF CloseTest2
    <2>2. /\ At(p, "clWrite")' /\ call'[p].slot = call[p].slot
          /\ \A q \in Procs : q # p => call'[q] = call[q]
      BY <2>1 DEF Goto, SetCall, At, TypeOK, ProcessType, Calls
    <2>3. \A q \in Procs, s \in Slots, c \in Conns : Holds(q, s, c)' <=> Holds(q, s, c)
      BY <1>1, <2>2 DEF Holds, Leaving, At
    <2>4. Ownership'
      BY <1>1, <2>3, OwnershipStays DEF Core, Ownership, Sole
    <2>5. \A q \in Procs : Conn(q)' = Conn(q)
      BY <1>1, <2>2 DEF Conn
    <2>6. RemoverIsAlone'
      BY <2>2, <2>3, <2>5 DEF Core, Awareness, RemoverIsAlone, Frame, ClosePCs,
          RemovePCs, At
    <2>7. CloseKnows'
      BY <1>1, <1>4, <2>2, <2>5 DEF Core, Awareness, CloseKnows, RemovePCs, At
    <2>8. AcceptIsDue'
      BY <1>1, <2>2 DEF Core, Awareness, AcceptIsDue, Created, At
    <2>9. QED
      BY <2>4, <2>6, <2>7, <2>8 DEF Core, Awareness
  <1>5. QED
    BY <1>3, <1>4

\* CloseWrite: p leaves the connection that it marks.
LEMMA CloseWriteCore ==
    ASSUME TypeOK, Frame, Core, NEW p \in Procs, CloseWrite(p)
    PROVE  Core'
  <1>0. PICK c \in Conns : c = Conn(p)
    BY DEF CloseWrite, Frame, ClosePCs, At
  <1>1. /\ UNCHANGED <<port, live, fd>> /\ At(p, "clWrite") /\ c \in live
        /\ connState' = [connState EXCEPT ![c] = "close"]
        /\ closers' = [closers EXCEPT ![c] = @ \union {p}]
        /\ Goto(p, "clEvent")
    BY <1>0 DEF CloseWrite
  <1>2. /\ At(p, "clEvent")' /\ call'[p].slot = call[p].slot
        /\ \A q \in Procs : q # p => call'[q] = call[q]
    BY <1>1 DEF Goto, SetCall, At, TypeOK, ProcessType, Calls
  <1>3. /\ call[p].slot \in Slots /\ Holds(p, call[p].slot, c)
        /\ connState[c] # "create" /\ live \subseteq Conns
    BY <1>0, <1>1 DEF Frame, ClosePCs, At, Holds, Leaving, Conn, Core, Awareness,
        CloseKnows, TypeOK, MemoryType
  <1>4. \A d \in Conns : /\ d # c => connState'[d] = connState[d] /\ closers'[d] = closers[d]
                         /\ d = c => /\ connState'[d] = "close"
                                     /\ closers'[d] = closers[c] \union {p}
    BY <1>1, <1>3 DEF TypeOK, MemoryType
  <1>5. \A q \in Procs, s \in Slots, d \in Conns :
          Holds(q, s, d)' <=> Holds(q, s, d) /\ ~(q = p /\ s = call[p].slot)
    BY <1>1, <1>2 DEF Holds, Leaving, At
  <1>6. \A s \in Slots : ~Holds(p, s, c)'
    BY <1>3, <1>5 DEF Core, Ownership, Sole, Holds
  <1>7. \A q \in Procs, s \in Slots, d \in Conns :
          q # p \/ d # c => (Holds(q, s, d)' <=> Holds(q, s, d))
    BY <1>3, <1>5 DEF Holds
  <1>8. \A q \in Procs : Conn(q)' = Conn(q)
    BY <1>1, <1>2 DEF Conn
  <1>9. OneCreator' /\ Live' /\ Sole'
    BY <1>1, <1>5 DEF Core, Ownership, OneCreator, Created, Live, Sole
  <1>10. NotYetAccepted'
    BY <1>1, <1>3, <1>4, <1>7 DEF Core, Ownership, NotYetAccepted, Created
  <1>11. Accepted'
    BY <1>1, <1>3, <1>4, <1>7 DEF Core, Ownership, Accepted
  <1>12. ClosedByLeaver'
    BY <1>1, <1>3, <1>4, <1>6, <1>7 DEF Core, Ownership, ClosedByLeaver
  <1>13. ASSUME NEW q \in Procs, q # p, call'[q].at \in ClosePCs
         PROVE  call'[q] = call[q] /\ Conn(q)' = Conn(q) /\ Conn(q) \in Conns
    BY <1>2, <1>8, <1>13 DEF Frame
  <1>14. RemoverIsAlone'
    BY <1>2, <1>5, <1>13 DEF Core, Awareness, RemoverIsAlone, RemovePCs, ClosePCs, At
  <1>15. CloseKnows'
    BY <1>2, <1>4, <1>13 DEF Core, Awareness, CloseKnows, RemovePCs, ClosePCs, At
  <1>16. AcceptIsDue'
    BY <1>1, <1>2, <1>3, <1>4 DEF Core, Awareness, AcceptIsDue, Created, At
  <1>17. QED
    BY <1>9, <1>10, <1>11, <1>12, <1>14, <1>15, <1>16 DEF Core, Ownership, Awareness

\* CloseEvent: the fd that goes held nothing any more.
LEMMA CloseEventCore ==
    ASSUME TypeOK, Frame, Core, NEW p \in Procs, CloseEvent(p)
    PROVE  Core'
  <1>1. /\ UNCHANGED <<connState, port, live, closers>> /\ At(p, "clEvent")
        /\ SetFd(p, call[p].slot, "free", NULL) /\ Return(p)
    BY DEF CloseEvent
  <1>2. At(p, "idle")' /\ \A q \in Procs : q # p => call'[q] = call[q]
    BY <1>1 DEF Return, SetCall, At, TypeOK, ProcessType
  <1>3. call[p].slot \in Slots
    BY <1>1 DEF Frame, ClosePCs, At
  <1>4. /\ \A q \in Procs, s \in Slots :
             ~(q = p /\ s = call[p].slot) => fd'[q][s] = fd[q][s]
        /\ fd'[p][call[p].slot].conn = NULL
    BY <1>1, <1>3 DEF SetFd, TypeOK, ProcessType
  <1>5. \A q \in Procs, s \in Slots, d \in Conns : Holds(q, s, d)' <=> Holds(q, s, d)
    BY <1>1, <1>2, <1>4, NullAssumption DEF Holds, Leaving, At
  <1>6. Sole'
    BY <1>4, NullAssumption DEF Core, Ownership, Sole
  <1>7. Ownership'
    BY <1>1, <1>5, <1>6, OwnershipStays DEF Core
  <1>8. ASSUME NEW q \in Procs, call'[q].at \in ClosePCs
        PROVE  q # p /\ call'[q] = call[q] /\ Conn(q)' = Conn(q) /\ Conn(q) \in Conns
    BY <1>2, <1>4, <1>8 DEF Frame, Conn, ClosePCs, At
  <1>9. RemoverIsAlone'
    BY <1>2, <1>5, <1>8 DEF Core, Awareness, RemoverIsAlone, RemovePCs, ClosePCs
  <1>10. CloseKnows'
    BY <1>1, <1>2, <1>8 DEF Core, Awareness, CloseKnows, RemovePCs, ClosePCs, At
  <1>11. AcceptIsDue'
    BY <1>1, <1>2 DEF Core, Awareness, AcceptIsDue, Created, At
  <1>12. QED
    BY <1>7, <1>9, <1>10, <1>11 DEF Core, Awareness

\* RemoveFree: nobody holds, and nobody is about to open, what is freed.
LEMMA RemoveFreeCore ==
    ASSUME TypeOK, Frame, Core, ~Crossing, NEW p \in Procs, RemoveFree(p)
    PROVE  Core'
  <1>0. PICK c \in Conns : c = Conn(p)
    BY DEF RemoveFree, Frame, ClosePCs, At
  <1>1. /\ UNCHANGED <<connState, port, closers>> /\ At(p, "rmFree")
        /\ live' = live \ {c} /\ c \in live
        /\ SetFd(p, call[p].slot, "free", NULL) /\ Return(p)
    BY <1>0 DEF RemoveFree
  <1>2. At(p, "idle")' /\ \A q \in Procs : q # p => call'[q] = call[q]
    BY <1>1 DEF Return, SetCall, At, TypeOK, ProcessType
  <1>3. call[p].slot \in Slots /\ c = fd[p][call[p].slot].conn /\ live \subseteq Conns
    BY <1>0, <1>1 DEF Frame, ClosePCs, At, Conn, TypeOK, MemoryType
  <1>4. /\ \A q \in Procs, s \in Slots :
             ~(q = p /\ s = call[p].slot) => fd'[q][s] = fd[q][s]
        /\ fd'[p][call[p].slot].conn = NULL
    BY <1>1, <1>3 DEF SetFd, TypeOK, ProcessType
  <1>5. \A q \in Procs, s \in Slots, d \in Conns :
          Holds(q, s, d)' <=> Holds(q, s, d) /\ ~(q = p /\ s = call[p].slot)
    BY <1>1, <1>2, <1>4, NullAssumption DEF Holds, Leaving, At
  <1>6. \A q \in Procs, s \in Slots, d \in Conns :
          Holds(q, s, d)' => d # c
    <2> SUFFICES ASSUME NEW q \in Procs, NEW s \in Slots, Holds(q, s, c)'
                 PROVE  FALSE
      OBVIOUS
    <2>1. Holds(q, s, c) /\ ~(q = p /\ s = call[p].slot)
      BY <1>1, <1>3, <1>5
    <2>2. q # p
      BY <1>1, <1>3, <2>1 DEF Core, Ownership, Sole, Holds
    <2>3. QED
      BY <1>0, <1>1, <2>1, <2>2 DEF Core, Awareness, RemoverIsAlone, RemovePCs, At
  <1>7. \A q \in Procs, s \in Slots, d \in Conns :
          d # c => (Holds(q, s, d)' <=> Holds(q, s, d))
    BY <1>3, <1>5 DEF Holds
  <1>8. ASSUME NEW q \in Procs, call'[q].at \in ClosePCs
        PROVE  q # p /\ call'[q] = call[q] /\ Conn(q)' = Conn(q) /\ Conn(q) \in Conns
    BY <1>2, <1>4, <1>8 DEF Frame, Conn, ClosePCs, At
  <1>9. \A q \in Procs : At(q, "accOpen") => call[q].entry # c
    BY <1>0, <1>1 DEF Crossing, At
  <1>10. Sole'
    BY <1>4, NullAssumption DEF Core, Ownership, Sole
  <1>11. OneCreator' /\ Live'
    BY <1>1, <1>6, <1>7 DEF Core, Ownership, OneCreator, Created, Live
  <1>12. NotYetAccepted'
    BY <1>1, <1>3, <1>7 DEF Core, Ownership, NotYetAccepted, Created
  <1>13. Accepted'
    BY <1>1, <1>3, <1>7 DEF Core, Ownership, Accepted
  <1>14. ClosedByLeaver'
    BY <1>1, <1>3, <1>7 DEF Core, Ownership, ClosedByLeaver
  <1>15. RemoverIsAlone'
    BY <1>2, <1>5, <1>8 DEF Core, Awareness, RemoverIsAlone, RemovePCs, ClosePCs
  <1>16. CloseKnows'
    BY <1>1, <1>2, <1>8 DEF Core, Awareness, CloseKnows, RemovePCs, ClosePCs, At
  <1>17. AcceptIsDue'
    BY <1>1, <1>2, <1>9 DEF Core, Awareness, AcceptIsDue, Created, At
  <1>18. QED
    BY <1>10, <1>11, <1>12, <1>13, <1>14, <1>15, <1>16, <1>17
    DEF Core, Ownership, Awareness

\* ConnectNew: the address of the new connection is nobody's.
LEMMA ConnectNewCore ==
    ASSUME PortsApart, TypeOK, Frame, Core, NEW p \in Procs, ConnectNew(p)
    PROVE  Core'
  <1>1. PICK s \in Slots, c \in Conns \ live, own \in OwnPorts :
          /\ fd[p][s].state = "created"
          /\ SetFd(p, s, "created", c)
          /\ Begin(p, "connInsert", s)
          /\ connState' = [connState EXCEPT ![c] = "create"]
          /\ port' = [port EXCEPT ![c] =
                        [q \in Procs |-> IF q = p THEN own ELSE ListenPort]]
          /\ live' = live \union {c}
          /\ closers' = [closers EXCEPT ![c] = {}]
    BY DEF ConnectNew
  <1>2. At(p, "idle") /\ fd[p][s].conn = NULL
    BY <1>1 DEF ConnectNew, Frame, At
  <1>3. At(p, "connInsert")' /\ \A q \in Procs : q # p => call'[q] = call[q]
    BY <1>1 DEF Begin, SetCall, At, TypeOK, ProcessType
  <1>4. /\ \A q \in Procs, t \in Slots : ~(q = p /\ t = s) => fd'[q][t] = fd[q][t]
        /\ fd'[p][s].conn = c
    BY <1>1 DEF SetFd, TypeOK, ProcessType
  <1>5. /\ \A d \in Conns : d # c => /\ connState'[d] = connState[d]
                                     /\ closers'[d] = closers[d] /\ port'[d] = port[d]
        /\ connState'[c] = "create" /\ closers'[c] = {}
        /\ \A q \in Procs : Created(q, c)' <=> q = p
        /\ live \subseteq Conns /\ live' = live \union {c} /\ c \notin live
    BY <1>1 DEF TypeOK, MemoryType, Created, PortsApart
  <1>6. \A q \in Procs, t \in Slots : fd[q][t].conn = c => ~Holds(q, t, c)
    BY <1>5 DEF Core, Ownership, Live
  <1>7. \A t \in Slots, d \in Conns :
          fd[p][t].conn = d => Holds(p, t, d) /\ d \in live /\ t # s /\ d # c
    BY <1>2, <1>5, NullAssumption DEF Holds, Leaving, At, Core, Ownership, Live
  <1>8. \A q \in Procs, t \in Slots, d \in Conns :
          Holds(q, t, d)' <=> (Holds(q, t, d) \/ (q = p /\ t = s /\ d = c))
    BY <1>2, <1>3, <1>4, <1>7 DEF Holds, Leaving, At
  <1>9. \A q \in Procs, t \in Slots : ~Holds(q, t, c)
    BY <1>6 DEF Holds
  <1>10. \A q, r \in Procs : q # r => q = p \/ r = p
    BY ProcsAssumption
  <1>11. OneCreator'
    BY <1>5, <1>10 DEF Core, Ownership, OneCreator, Created
  <1>12. Live'
    BY <1>5, <1>8 DEF Core, Ownership, Live
  <1>13. Sole'
    BY <1>2, <1>4, <1>7 DEF Core, Ownership, Sole
  <1>14. NotYetAccepted'
    BY <1>5, <1>8, <1>9 DEF Core, Ownership, NotYetAccepted, Created
  <1>15. Accepted'
    BY <1>5, <1>8 DEF Core, Ownership, Accepted
  <1>16. ClosedByLeaver'
    BY <1>5, <1>8 DEF Core, Ownership, ClosedByLeaver
  <1>17. ASSUME NEW q \in Procs, call'[q].at \in ClosePCs
         PROVE  /\ q # p /\ call'[q] = call[q] /\ Conn(q)' = Conn(q) /\ Conn(q) \in Conns
                /\ ~At(q, "clEvent") => Conn(q) \in live
    <2>1. q # p /\ call'[q] = call[q]
      BY <1>3, <1>17 DEF ClosePCs, At
    <2>2. call[q].slot \in Slots /\ Conn(q) \in Conns
      BY <1>17, <2>1 DEF Frame
    <2>3. Conn(q)' = Conn(q)
      BY <1>4, <2>1, <2>2 DEF Conn
    <2>4. ~At(q, "clEvent") => Holds(q, call[q].slot, Conn(q))
      BY <2>2 DEF Holds, Leaving, Conn
    <2>5. QED
      BY <2>1, <2>2, <2>3, <2>4 DEF Core, Ownership, Live
  <1>18. RemoverIsAlone'
    BY <1>5, <1>8, <1>17 DEF Core, Awareness, RemoverIsAlone, RemovePCs, ClosePCs, At
  <1>19. CloseKnows'
    BY <1>5, <1>17 DEF Core, Awareness, CloseKnows, RemovePCs, ClosePCs, At
  <1>20. AcceptIsDue'
    BY <1>3, <1>5 DEF Core, Awareness, AcceptIsDue, Created, At
  <1>21. QED
    BY <1>11, <1>12, <1>13, <1>14, <1>15, <1>16, <1>18, <1>19, <1>20
    DEF Core, Ownership, Awareness

\* AcceptOpen: its creator still has what p opens, and p has no socket on it.
LEMMA AcceptOpenCore ==
    ASSUME TypeOK, Frame, Core, ~Crossing, NEW p \in Procs, AcceptOpen(p)
    PROVE  Core'
  <1>0. PICK c \in Conns : c = call[p].entry
    BY DEF AcceptOpen, Frame, At
  <1>1. /\ At(p, "accOpen") /\ c \in live /\ UNCHANGED <<port, live, closers>>
        /\ connState' = [connState EXCEPT ![c] = "open"] /\ Return(p)
    BY <1>0 DEF AcceptOpen
  <1>2. PICK s \in Slots : fd[p][s].state = "free" /\ SetFd(p, s, "open", c)
    BY <1>0 DEF AcceptOpen
  <1>3. At(p, "idle")' /\ \A q \in Procs : q # p => call'[q] = call[q]
    BY <1>1 DEF Return, SetCall, At, TypeOK, ProcessType
  <1>4. /\ \A q \in Procs, t \in Slots : ~(q = p /\ t = s) => fd'[q][t] = fd[q][t]
        /\ fd'[p][s].conn = c /\ fd[p][s].conn = NULL
    BY <1>2 DEF SetFd, TypeOK, ProcessType
  <1>5. /\ \A d \in Conns : d # c => connState'[d] = connState[d]
        /\ connState'[c] = "open" /\ live \subseteq Conns
    BY <1>1 DEF TypeOK, MemoryType
  <1>6. /\ connState[c] = "create" /\ ~Created(p, c)
        /\ \A q \in Procs : q # p => Created(q, c)
    BY <1>0, <1>1 DEF Core, Ownership, OneCreator, Awareness, AcceptIsDue
  <1>7. closers[c] = {} /\ \A t \in Slots : fd[p][t].conn # c
    BY <1>1, <1>6 DEF Core, Ownership, NotYetAccepted, Holds, Leaving, At
  <1>8. \A q \in Procs, t \in Slots, d \in Conns :
          Holds(q, t, d)' <=> (Holds(q, t, d) \/ (q = p /\ t = s /\ d = c))
    BY <1>1, <1>3, <1>4, NullAssumption DEF Holds, Leaving, At
  <1>9. \A q \in Procs : \E t \in Slots : Holds(q, t, c)'
    BY <1>1, <1>6, <1>8 DEF Core, Ownership, NotYetAccepted
  <1>10. OneCreator' /\ Live'
    BY <1>1, <1>8 DEF Core, Ownership, OneCreator, Created, Live
  <1>11. Sole'
    BY <1>4, <1>7, NullAssumption DEF Core, Ownership, Sole
  <1>12. NotYetAccepted'
    BY <1>1, <1>5, <1>8 DEF Core, Ownership, NotYetAccepted, Created
  <1>13. Accepted'
    BY <1>1, <1>5, <1>8, <1>9 DEF Core, Ownership, Accepted
  <1>14. ClosedByLeaver'
    BY <1>1, <1>5, <1>7, <1>8 DEF Core, Ownership, ClosedByLeaver
  <1>15. ASSUME NEW q \in Procs, call'[q].at \in ClosePCs
         PROVE  q # p /\ call'[q] = call[q] /\ Conn(q)' = Conn(q) /\ Conn(q) \in Conns
    BY <1>3, <1>4, <1>15 DEF Frame, Conn, ClosePCs, At
  <1>16. \A q \in Procs : call[q].at \in RemovePCs => Conn(q) # c
    BY <1>0, <1>1 DEF Crossing, RemovePCs, At
  <1>17. RemoverIsAlone'
    BY <1>8, <1>15, <1>16 DEF Core, Awareness, RemoverIsAlone, RemovePCs, ClosePCs
  <1>18. CloseKnows'
    BY <1>5, <1>15, <1>16 DEF Core, Awareness, CloseKnows, RemovePCs, ClosePCs, At
  <1>19. AcceptIsDue'
    <2> SUFFICES ASSUME NEW q \in Procs, At(q, "accOpen")'
                 PROVE  /\ call[q].entry \in live /\ call'[q] = call[q]
                        /\ connState'[call[q].entry] = "create"
                        /\ ~Created(q, call[q].entry)
      BY <1>1 DEF AcceptIsDue, Created
    <2>1. q # p /\ call'[q] = call[q] /\ At(q, "accOpen")
      BY <1>3 DEF At
    <2>2. /\ call[q].entry \in live /\ connState[call[q].entry] = "create"
          /\ ~Created(q, call[q].entry)
      BY <2>1 DEF Core, Awareness, AcceptIsDue
    <2>3. QED
      BY <1>5, <1>6, <2>1, <2>2
  <1>20. QED
    BY <1>10, <1>11, <1>12, <1>13, <1>14, <1>17, <1>18, <1>19
    DEF Core, Ownership, Awareness

---------------------------------------------------------------------------
(* The invariant holds                                                    *)

\* No connection exists yet.
LEMMA InitIInv == Init => IInv
  <1> SUFFICES ASSUME Init
               PROVE  IInv
    OBVIOUS
  <1>1. TypeOK /\ Frame
    BY TypeInit
  <1>2. ~Crossing
    BY DEF Init, Crossing, Idle, At
  <1>3. Ownership
    BY NullAssumption DEF Init, Ownership, OneCreator, Live, Sole, NotYetAccepted,
        Accepted, ClosedByLeaver, Holds, FreeFd
  <1>4. Awareness
    BY DEF Init, Awareness, RemoverIsAlone, CloseKnows, AcceptIsDue, Idle,
       RemovePCs, At
  <1>5. QED
    BY <1>1, <1>2, <1>3, <1>4 DEF IInv, Core

\* Every step without a crossing preserves the core.
LEMMA CoreStep ==
    ASSUME PortsApart, TypeOK, Frame, Core, ~Crossing, NEW p \in Procs,
           InCall(p) \/ Call(p)
    PROVE  Core'
  <1>1. CASE \/ Socket(p) \/ ConnectInsert(p) \/ ConnectTest(p) \/ ConnectTest2(p)
             \/ PollConnecting(p) \/ AcceptStart(p) \/ AcceptGet(p) \/ Io(p)
             \/ CloseStart(p) \/ RemoveGet(p) \/ RemoveIndex(p) \/ FreedAccess(p)
    BY <1>1, QuietAction, QuietStep
  <1>2. CASE ConnectNew(p)
    BY <1>2, ConnectNewCore
  <1>3. CASE AcceptTest(p)
    BY <1>3, AcceptTestCore
  <1>4. CASE AcceptOpen(p)
    BY <1>4, AcceptOpenCore
  <1>5. CASE CloseTest1(p)
    BY <1>5, CloseTest1Core
  <1>6. CASE CloseTest2(p)
    BY <1>6, CloseTest2Core
  <1>7. CASE CloseWrite(p)
    BY <1>7, CloseWriteCore
  <1>8. CASE CloseEvent(p)
    BY <1>8, CloseEventCore
  <1>9. CASE RemoveFree(p)
    BY <1>9, RemoveFreeCore
  <1>10. QED
    BY <1>1, <1>2, <1>3, <1>4, <1>5, <1>6, <1>7, <1>8, <1>9 DEF InCall, Call

\* The core is a state predicate.
LEMMA CoreUnchanged == Core /\ UNCHANGED vars => Core'
  BY DEF vars, Core, Ownership, OneCreator, Live, Sole, NotYetAccepted, Accepted,
      ClosedByLeaver, Awareness, RemoverIsAlone, CloseKnows, AcceptIsDue, Created,
      Holds, Leaving, Conn, At

\* The inductive invariant is preserved, a crossing ends its claim.
LEMMA IInvStep ==
    ASSUME PortsApart, IInv, [Next]_vars
    PROVE  IInv'
  <1>1. TypeOK' /\ Frame'
    BY TypeStep DEF IInv
  <1>2. CASE UNCHANGED vars \/ Undefined
    <2>1. UNCHANGED vars
      BY <1>2 DEF Undefined
    <2>2. (Crossing' <=> Crossing) /\ (crossed' <=> crossed)
      BY <2>1 DEF vars, Crossing, Conn, At
    <2>3. QED
      BY <1>1, <2>1, <2>2, CoreUnchanged DEF IInv
  <1>3. ASSUME NEW p \in Procs, InCall(p) \/ Call(p)
        PROVE  IInv'
    <2>1. crossed' <=> crossed \/ Crossing'
      BY <1>3 DEF InCall, Call
    <2>2. ~crossed' => Core'
      BY <1>3, <2>1, CoreStep DEF IInv
    <2>3. QED
      BY <1>1, <2>1, <2>2 DEF IInv
  <1>4. QED
    BY <1>2, <1>3 DEF Next

\* The inductive invariant of the connections.
LEMMA Invariance == ASSUME PortsApart PROVE Spec => []IInv
  BY InitIInv, IInvStep, PTL DEF Spec
===========================================================================
