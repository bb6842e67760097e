----------------------- MODULE InterfacesSafetyProofs -----------------------
(***************************************************************************)
(* What the regions promise to processes that were set up in time: good    *)
(* pointers and living connections (SafeOnceReady), connections accepted   *)
(* by the process they were addressed to (AddresseeAccepts), and memory    *)
(* that comes back (MemoryIsReturned).                                     *)
(*                                                                         *)
(* TypeInv, SetupInv and HolderInv are inductive (InterfacesProofs); Fresh *)
(* says of which epoch the sockets are, Addressed what connect has stored  *)
(* in a connection.                                                        *)
(*                                                                         *)
(* The last part shows that Interfaces, which takes accept and close for   *)
(* single steps, uses connections only as Lifecycle allows: the promise    *)
(* that Connection keeps, whose steps are those of the code.               *)
(***************************************************************************)
EXTENDS InterfacesProofs

Inv == TypeInv /\ SetupInv /\ HolderInv

\* A process that was set up in time has sockets only on what is there now.
Fresh ==
    \A p \in Procs : \A s \in sockets[p] : calm[p][s.region] => s.epoch = epoch[s.region]

\* The word of the header that p takes for the address of the other side.
RemoteWord(p, r) == IF p = Server THEN header[r].remote ELSE header[r].own

\* connect has stored the address of the other side, or is about to.
AddressedBy(q) ==
    /\ \A r \in Regions, k \in Blocks :
         calm[q][r] /\ (Has(q, r, k) \/ Inserts(q, r, k)) /\ conn[r][k].by = q =>
             conn[r][k].dest = RemoteWord(q, r)
    /\ at[q] = "new" /\ calm[q][Region(q, local[q].iface)] =>
             local[q].dest = RemoteWord(q, Region(q, local[q].iface))

Addressed == \A q \in Procs : AddressedBy(q)

---------------------------------------------------------------------------
(* The steps of the server and of a client's setup                        *)

\* The three inductive invariants of InterfacesProofs together.
LEMMA InvStep ==
    ASSUME Inv, [Next]_vars
    PROVE  Inv'
  BY TypesStep, SetupStep, HolderStep DEF Inv

\* A step leaves a process alone, or the process has no connection after it.
LEMMA SetupEffect ==
    ASSUME Inv, NEW p \in Procs,
           \/ \E q \in Procs : Start(q) \/ Kill(q) \/ SetupFails(q) \/ SetupDone(q)
           \/ \E r \in Regions : ServerAttach(r) \/ ServerOpenFile(r) \/ ServerWriteFile(r)
           \/ \E r \in Regions : ServerClear(r) \/ ServerFill(r) \/ ServerHeap(r) \/ ServerList(r)
           \/ \E c \in Clients : \/ \E r \in Regions : ClientRead(c, r) \/ ClientAttach(c, r)
                                 \/ ClientAttachFails(c)
    PROVE  \/ sockets'[p] = {} /\ at'[p] \notin {"new", "insert"}
           \/ /\ at'[p] = at[p] /\ sockets'[p] = sockets[p] /\ calm'[p] = calm[p]
              /\ local'[p] = local[p] /\ interfaces'[p] = interfaces[p]
           \/ \E r \in Regions : ServerClear(r)
  <1>1. TypeOK /\ Quiet /\ Clients \subseteq Procs /\ Server \in Procs
    BY DEF Inv, TypeInv, SetupInv, Procs
  <1>2. CASE \E q \in Procs : Start(q)
    BY <1>1, <1>2, GotoEffect DEF Start, SetupPCs, Quiet, history
  <1>3. CASE \E q \in Procs : Gone(q)
    BY <1>3, GoneTypes DEF Inv, TypeInv
  <1>4. CASE \E q \in Procs : SetupDone(q)
    BY <1>1, <1>4, GotoEffect DEF SetupDone, Quiet, history
  <1>5. CASE \E r \in Regions : ServerAttach(r) \/ ServerOpenFile(r) \/ ServerFill(r) \/ ServerHeap(r) \/ ServerList(r)
    <2>1. PICK r \in Regions : ServerAttach(r) \/ ServerOpenFile(r) \/ ServerFill(r) \/ ServerHeap(r) \/ ServerList(r)
      BY <1>5
    <2>2. at[Server] \in {"setup", "open", "fill", "heap", "list"}
          /\ at'[Server] \notin {"new", "insert"} /\ \A q \in Procs \ {Server} : at'[q] = at[q]
      BY <1>1, <2>1, GotoEffect
         DEF ServerAttach, ServerOpenFile, ServerFill, ServerHeap, ServerList, SetupPCs
    <2>3. sockets' = sockets /\ sockets[Server] = {} /\ interfaces' = interfaces
      BY <1>1, <2>1, <2>2
         DEF Quiet, ServerAttach, ServerOpenFile, ServerFill, ServerHeap, ServerList
    <2>4. \A q \in Procs \ {Server} : local'[q] = local[q] /\ calm'[q] = calm[q]
      BY <1>1, <2>1
         DEF TypeOK, ServerAttach, ServerOpenFile, ServerFill, ServerHeap, ServerList, history
    <2>5. QED
      BY <2>2, <2>3, <2>4
  <1>6. CASE \E r \in Regions : ServerWriteFile(r) /\ local[Server].base # NULL
    <2>1. PICK r \in Regions : ServerWriteFile(r) /\ local[Server].base # NULL
      BY <1>6
    <2>2. /\ Publish(Server, r, local[Server].base) /\ Goto(Server, "clear") /\ at[Server] = "write"
          /\ UNCHANGED <<local, sockets, calm>>
      BY <2>1 DEF ServerWriteFile
    <2>3. at'[Server] = "clear" /\ \A q \in Procs \ {Server} : at'[q] = at[q]
      BY <1>1, <2>2, GotoEffect DEF SetupPCs
    <2>4. \A q \in Procs \ {Server} : interfaces'[q] = interfaces[q]
      BY <1>1, <2>2 DEF Publish, TypeOK
    <2>5. QED
      BY <1>1, <2>2, <2>3, <2>4 DEF Quiet
  <1>7. CASE \E c \in Clients, r \in Regions : ClientRead(c, r) \/ ClientAttach(c, r)
    <2>1. PICK c \in Clients, r \in Regions : ClientRead(c, r) \/ ClientAttach(c, r)
      BY <1>7
    <2>2. at[c] \in {"setup", "attach"} /\ at'[c] \in {"setup", "attach"}
          /\ \A q \in Procs \ {c} : at'[q] = at[q]
      BY <1>1, <2>1, GotoEffect DEF ClientRead, ClientAttach, SetupPCs
    <2>3. sockets' = sockets /\ sockets[c] = {}
      BY <1>1, <2>1, <2>2 DEF ClientRead, ClientAttach, Quiet
    <2>4. \A q \in Procs \ {c} : /\ local'[q] = local[q] /\ calm'[q] = calm[q]
                                 /\ interfaces'[q] = interfaces[q]
      BY <1>1, <2>1 DEF TypeOK, ClientRead, ClientAttach, Publish, history
    <2>5. QED
      BY <2>2, <2>3, <2>4
  <1>8. QED
    BY <1>1, <1>2, <1>3, <1>4, <1>5, <1>6, <1>7
       DEF Kill, SetupFails, Exit, ClientAttachFails, ServerWriteFile

\* The addresses in a header change only where no process is calm.
LEMMA WordsKept ==
    ASSUME Inv, [Next]_vars, NEW p \in Procs, NEW r \in Regions, calm'[p][r]
    PROVE  RemoteWord(p, r)' = RemoteWord(p, r) /\ epoch'[r] = epoch[r]
  <1>1. TypeOK /\ Prepared
    BY DEF Inv, TypeInv, SetupInv
  <1>2. header \in [Regions -> [own : Nat, remote : Nat, mctx : Pointers, list : Pointers]]
    BY <1>1 DEF TypeOK
  <1>3. CASE \E q \in Regions : ServerClear(q)
    <2>1. PICK q \in Regions : ServerClear(q)
      BY <1>3
    <2>2. q # r
      BY <1>1, <2>1 DEF ServerClear, TypeOK
    <2>3. QED
      BY <1>1, <1>2, <2>1, <2>2 DEF ServerClear, RemoteWord, TypeOK
  <1>4. CASE \E q \in Regions : ServerFill(q)
    <2>1. PICK q \in Regions : ServerFill(q)
      BY <1>4
    <2>2. q # r
      BY <1>1, <2>1 DEF ServerFill, history, Prepared, Filling
    <2>3. QED
      BY <1>1, <1>2, <2>1, <2>2 DEF ServerFill, RemoteWord, history
  <1>5. CASE \E q \in Regions : ServerHeap(q) \/ ServerList(q)
    <2>1. PICK q \in Regions : ServerHeap(q) \/ ServerList(q)
      BY <1>5
    <2>2. header'[r].own = header[r].own /\ header'[r].remote = header[r].remote
      BY <1>2, <2>1 DEF ServerHeap, ServerList
    <2>3. QED
      BY <2>1, <2>2 DEF ServerHeap, ServerList, RemoteWord, history
  <1>6. CASE UNCHANGED <<header, epoch>>
    BY <1>6 DEF RemoteWord
  <1>7. QED
    BY <1>3, <1>4, <1>5, <1>6, NextCases
       DEF Start, Kill, SetupFails, SetupDone, Exit, ConnectFind, ConnectNew, ConnectInsert, Accept,
           Close, Fault, ServerAttach, ServerOpenFile, ServerWriteFile, ClientRead, ClientAttach,
           ClientAttachFails, shared, history, vars

\* Sockets of a process that was set up in time are not outlived by the region.
LEMMA FreshStep ==
    ASSUME Inv, Fresh, [Next]_vars
    PROVE  Fresh'
  <1> SUFFICES ASSUME NEW p \in Procs, NEW s \in sockets'[p], calm'[p][s.region]
               PROVE  s.epoch = epoch'[s.region]
    BY DEF Fresh
  <1>1. TypeOK /\ Inv'
    BY InvStep DEF Inv, TypeInv
  <1>2. s.region \in Regions
    BY <1>1 DEF Inv, TypeInv, TypeOK
  <1>3. epoch'[s.region] = epoch[s.region]
    BY <1>2, WordsKept
  <1>4. CASE s \in sockets[p] /\ calm[p][s.region]
    BY <1>3, <1>4 DEF Fresh
  <1>5. CASE s \notin sockets[p] /\ (\E q \in Procs : ConnectInsert(q) \/ Accept(q))
    <2>1. PICK q \in Procs : ConnectInsert(q) \/ Accept(q)
      BY <1>5
    <2>2. \E r \in Regions, k \in Blocks : AddSocket(q, r, k)
      <3>1. CASE ConnectInsert(q)
        BY <3>1, CurrentInterface DEF ConnectInsert, Inv, TypeInv, CallsOK
      <3>2. CASE Accept(q)
        <4>1. at[q] = "run" /\ \E i \in Ifaces(q) : \E k \in Pending(q, i) : AddSocket(q, Region(q, i), k)
          BY <3>2 DEF Accept, AcceptDue
        <4>2. QED
          BY <1>1, <4>1, AnyInterface DEF Pending
      <3>3. QED
        BY <2>1, <3>1, <3>2
    <2>3. PICK r \in Regions, k \in Blocks : AddSocket(q, r, k)
      BY <2>2
    <2>4. s = [region |-> r, conn |-> k, epoch |-> epoch[r]]
      BY <1>1, <1>5, <2>3, AddedSocket
    <2>5. QED
      BY <1>3, <2>4
  <1>6. CASE calm' = calm /\ sockets'[p] \subseteq sockets[p]
    BY <1>4, <1>6
  <1>7. CASE \E r \in Regions : ServerClear(r)
    BY <1>1, <1>2, <1>4, <1>7 DEF ServerClear, TypeOK
  <1>8. CASE calm'[p] = calm[p] /\ sockets'[p] = sockets[p]
    BY <1>4, <1>8
  <1>9. CASE \E q \in Procs : Close(q)
    BY <1>1, <1>6, <1>9 DEF Close, TypeOK, history
  <1>10. CASE \E q \in Procs : ConnectInsert(q) \/ Accept(q)
    BY <1>4, <1>5, <1>10 DEF ConnectInsert, Accept, history
  <1>11. CASE \E q \in Procs : ConnectFind(q) \/ ConnectNew(q) \/ Fault(q)
    BY <1>6, <1>11 DEF ConnectFind, ConnectNew, Fault, process, history
  <1>12. CASE UNCHANGED vars
    BY <1>6, <1>12 DEF vars, process, history
  <1>13. QED
    BY <1>7, <1>8, <1>9, <1>10, <1>11, <1>12, NextCases, SetupEffect

\* A process with the connections it had, where nothing was stored in them.
LEMMA AddressedKept ==
    ASSUME Inv, [Next]_vars, NEW q \in Procs, AddressedBy(q),
           at'[q] = at[q], sockets'[q] = sockets[q], local'[q] = local[q],
           interfaces'[q] = interfaces[q], calm'[q] = calm[q],
           \A r \in Regions, k \in Blocks : conn'[r][k].by = q /\ (Has(q, r, k)' \/ Inserts(q, r, k)') =>
               conn'[r][k].by = conn[r][k].by /\ conn'[r][k].dest = conn[r][k].dest
    PROVE  AddressedBy(q)'
  <1>1. ASSUME NEW r \in Regions, NEW k \in Blocks, calm'[q][r], Has(q, r, k)' \/ Inserts(q, r, k)',
               conn'[r][k].by = q
        PROVE  conn'[r][k].dest = RemoteWord(q, r)'
    <2>1. RemoteWord(q, r)' = RemoteWord(q, r) /\ epoch'[r] = epoch[r]
      BY <1>1, WordsKept
    <2>2. Has(q, r, k) \/ Inserts(q, r, k)
      BY <1>1, <2>1, UseKept
    <2>3. QED
      BY <1>1, <2>1, <2>2 DEF AddressedBy
  <1>2. ASSUME at'[q] = "new", calm'[q][Region(q, local[q].iface)]
        PROVE  local'[q].dest = RemoteWord(q, Region(q, local[q].iface))'
    <2>1. PICK r \in Regions : r = Region(q, local[q].iface)
      BY <1>2, CurrentInterface DEF Inv
    <2>2. RemoteWord(q, r)' = RemoteWord(q, r) /\ Region(q, local[q].iface)' = Region(q, local[q].iface)
      BY <1>2, <2>1, WordsKept DEF Region
    <2>3. QED
      BY <1>2, <2>1, <2>2 DEF AddressedBy, Region
  <1>3. Region(q, local[q].iface)' = Region(q, local[q].iface)
    BY DEF Region
  <1>4. QED
    BY <1>1, <1>2, <1>3 DEF AddressedBy, RemoteWord

\* connect takes the address of the interface it has found.
LEMMA FindAddresses ==
    ASSUME Inv, NEW p \in Procs, ConnectFind(p), AddressedBy(p)
    PROVE  AddressedBy(p)'
  <1>1. TypeOK /\ local \in [Procs -> Calls]
    BY DEF Inv, TypeInv, TypeOK, Calls
  <1>2. PICK a \in Dests : \E i \in RouteTo(p, a) :
                              local' = [local EXCEPT ![p].iface = i, ![p].dest = a]
    BY DEF ConnectFind
  <1>3. PICK i \in RouteTo(p, a) : local' = [local EXCEPT ![p].iface = i, ![p].dest = a]
    BY <1>2
  <1>4. local'[p].iface = i /\ local'[p].dest = a
    BY <1>1, <1>3 DEF Calls
  <1>5. a = RemoteWord(p, Region(p, i))
    BY <1>3 DEF RouteTo, Remote, RemoteWord
  <1>6. at[p] = "run" /\ at'[p] = "new"
        /\ UNCHANGED <<conn, header, interfaces, sockets, epoch, calm>>
    BY <1>1, GotoEffect DEF ConnectFind, shared, history
  <1>7. ASSUME NEW r \in Regions, NEW k \in Blocks
        PROVE  (Has(p, r, k)' <=> Has(p, r, k)) /\ ~Inserts(p, r, k)'
    BY <1>6 DEF Has, Inserts
  <1>8. QED
    BY <1>4, <1>5, <1>6, <1>7 DEF AddressedBy, RemoteWord, Region

\* connect stores the address, and then has the connection.
LEMMA ConnectAddresses ==
    ASSUME Inv, NEW p \in Procs, ConnectNew(p) \/ ConnectInsert(p), Addressed
    PROVE  Addressed'
  <1>1. TypeOK /\ local \in [Procs -> Calls] /\ conn \in Conns
    BY DEF Inv, TypeInv, TypeOK, Calls, Conns, ConnRecord
  <1>2. at[p] \in {"new", "insert"} /\ at'[p] \in {"insert", "run"}
        /\ \A q \in Procs \ {p} : at'[q] = at[q]
    BY <1>1, GotoEffect DEF ConnectNew, ConnectInsert
  <1>3. UNCHANGED <<header, interfaces, epoch, calm>>
    BY DEF ConnectNew, ConnectInsert, history
  <1>4. PICK r \in Regions : r = Region(p, local[p].iface)
    BY <1>2, CurrentInterface DEF Inv
  <1>5. ASSUME NEW q \in Procs, NEW r2 \in Regions PROVE RemoteWord(q, r2)' = RemoteWord(q, r2)
    BY <1>3 DEF RemoteWord
  <1>6. CASE ConnectNew(p)
    <2>1. PICK k \in Blocks :
            /\ conn' = [conn EXCEPT ![r][k] = [state |-> "new", by |-> p, dest |-> local[p].dest]]
            /\ local' = [local EXCEPT ![p].conn = k, ![p].epoch = epoch[r]]
      BY <1>4, <1>6 DEF ConnectNew
    <2>2. /\ conn'[r][k].by = p /\ conn'[r][k].dest = local[p].dest
          /\ \A q \in Regions, l \in Blocks : q # r \/ l # k => conn'[q][l] = conn[q][l]
      BY <1>1, <2>1 DEF Conns
    <2>3. local'[p].conn = k /\ local'[p].iface = local[p].iface
          /\ \A q \in Procs \ {p} : local'[q] = local[q]
      BY <1>1, <2>1 DEF Calls
    <2>4. at[p] = "new" /\ sockets' = sockets
      BY <1>6 DEF ConnectNew
    <2>6. at'[p] = "insert"
      BY <1>1, <1>6, GotoEffect DEF ConnectNew
    <2>5. ASSUME NEW q \in Procs PROVE AddressedBy(q)'
      <3>1. ASSUME NEW r2 \in Regions, NEW k2 \in Blocks, calm'[q][r2],
                   Has(q, r2, k2)' \/ Inserts(q, r2, k2)', conn'[r2][k2].by = q
            PROVE  conn'[r2][k2].dest = RemoteWord(q, r2)
        <4>1. CASE r2 = r /\ k2 = k
          BY <1>3, <1>4, <2>2, <2>4, <3>1, <4>1 DEF Addressed, AddressedBy
        <4>2. CASE r2 # r \/ k2 # k
          <5>1. Has(q, r2, k2)' <=> Has(q, r2, k2)
            BY <1>3, <2>4 DEF Has
          <5>2. Inserts(q, r2, k2)' => Inserts(q, r2, k2)
            <6>1. CASE q = p
              BY <1>3, <1>4, <2>3, <4>2, <6>1 DEF Inserts, Region
            <6>2. CASE q # p
              BY <1>2, <1>3, <2>3, <6>2 DEF Inserts
            <6>3. QED
              BY <6>1, <6>2
          <5>3. QED
            BY <1>3, <2>2, <3>1, <4>2, <5>1, <5>2 DEF Addressed, AddressedBy
        <4>3. QED
          BY <4>1, <4>2
      <3>2. CASE q = p
        BY <1>5, <2>6, <3>1, <3>2 DEF AddressedBy
      <3>3. CASE q # p
        BY <1>2, <1>3, <2>3, <3>1, <1>5, <3>3 DEF Addressed, AddressedBy, Region, RemoteWord
      <3>4. QED
        BY <3>2, <3>3
    <2>7. QED
      BY <2>5 DEF Addressed
  <1>7. CASE ConnectInsert(p)
    <2>1. at[p] = "insert" /\ at'[p] = "run"
      BY <1>1, <1>7, GotoEffect DEF ConnectInsert
    <2>2. PICK k \in Blocks : k = local[p].conn
      BY <2>1 DEF Inv, TypeInv, CallsOK
    <2>3. conn' = [conn EXCEPT ![r][k].state = "create"] /\ AddSocket(p, r, k)
          /\ local[p].epoch = epoch[r]
      BY <1>4, <1>7, <2>2 DEF ConnectInsert
    <2>4. \A r2 \in Regions, k2 \in Blocks : /\ conn'[r2][k2].by = conn[r2][k2].by
                                             /\ conn'[r2][k2].dest = conn[r2][k2].dest
      BY <1>1, <2>3, ChangedState
    <2>5. /\ sockets'[p] = sockets[p] \union {[region |-> r, conn |-> k, epoch |-> epoch[r]]}
          /\ \A q \in Procs \ {p} : sockets'[q] = sockets[q]
      BY <1>1, <2>3, AddedSocket
    <2>6. \A q \in Procs \ {p} : local'[q] = local[q]
      BY <1>1, <1>7 DEF ConnectInsert
    <2>7. Inserts(p, r, k)
      BY <1>4, <2>1, <2>2, <2>3 DEF Inserts, Region
    <2>8. ASSUME NEW q \in Procs PROVE AddressedBy(q)'
      <3>1. ASSUME NEW r2 \in Regions, NEW k2 \in Blocks, Has(q, r2, k2)' \/ Inserts(q, r2, k2)'
            PROVE  Has(q, r2, k2) \/ Inserts(q, r2, k2)
        <4>1. CASE q = p
          <5>1. ~Inserts(p, r2, k2)'
            BY <2>1 DEF Inserts
          <5>2. QED
            BY <1>3, <2>5, <2>7, <3>1, <4>1, <5>1 DEF Has
        <4>2. CASE q # p
          BY <1>2, <1>3, <2>5, <2>6, <3>1, <4>2, UseKept
        <4>3. QED
          BY <4>1, <4>2
      <3>2. CASE q = p
        BY <1>3, <1>5, <2>1, <2>4, <3>1, <3>2 DEF Addressed, AddressedBy
      <3>3. CASE q # p
        BY <1>2, <1>3, <1>5, <2>4, <2>6, <3>1, <3>3 DEF Addressed, AddressedBy, Region, RemoteWord
      <3>4. QED
        BY <3>2, <3>3
    <2>9. QED
      BY <2>8 DEF Addressed
  <1>8. QED
    BY <1>6, <1>7

\* accept leaves the address alone, close too unless it frees the connection.
LEMMA AcceptAddresses ==
    ASSUME Inv, NEW p \in Procs, Accept(p) \/ Close(p), [Next]_vars, Addressed
    PROVE  Addressed'
  <1>1. TypeOK /\ conn \in Conns
    BY DEF Inv, TypeInv, TypeOK, Conns, ConnRecord
  <1>2. UNCHANGED <<header, interfaces, at, local, epoch, calm>>
    BY DEF Accept, Close, history
  <1>3. Inv'
    BY InvStep
  <1>4. CASE Accept(p)
    <2>1. PICK i \in Ifaces(p) : \E k \in Pending(p, i) :
              /\ conn' = [conn EXCEPT ![Region(p, i)][k].state = "open"]
              /\ AddSocket(p, Region(p, i), k)
      BY <1>4 DEF Accept
    <2>2. Region(p, i) \in Regions
      BY <1>1, AnyInterface
    <2>3. PICK r \in Regions, k \in Blocks :
            /\ conn[r][k].by # p
            /\ conn' = [conn EXCEPT ![r][k].state = "open"] /\ AddSocket(p, r, k)
      BY <2>1, <2>2 DEF Pending
    <2>4. \A r2 \in Regions, k2 \in Blocks : /\ conn'[r2][k2].by = conn[r2][k2].by
                                             /\ conn'[r2][k2].dest = conn[r2][k2].dest
      BY <1>1, <2>3, ChangedState
    <2>5. /\ sockets'[p] = sockets[p] \union {[region |-> r, conn |-> k, epoch |-> epoch[r]]}
          /\ \A q \in Procs \ {p} : sockets'[q] = sockets[q]
      BY <1>1, <2>3, AddedSocket
    <2>6. ASSUME NEW q \in Procs, NEW r2 \in Regions, NEW k2 \in Blocks,
                 conn'[r2][k2].by = q, Has(q, r2, k2)'
          PROVE  Has(q, r2, k2)
      BY <1>2, <2>3, <2>4, <2>5, <2>6 DEF Has
    <2>7. QED
      BY <1>2, <2>4, <2>6 DEF Addressed, AddressedBy, Inserts, Region, RemoteWord
  <1>5. CASE Close(p)
    <2>1. PICK s \in sockets[p] :
            /\ conn' = [conn EXCEPT ![s.region][s.conn] = Closed(@)]
            /\ sockets' = [sockets EXCEPT ![p] = @ \ {s}]
      BY <1>5 DEF Close
    <2>2. s.region \in Regions /\ s.conn \in Blocks
      BY <1>1 DEF TypeOK
    <2>3. \A q \in Procs : sockets'[q] \subseteq sockets[q]
      BY <1>1, <2>1 DEF TypeOK
    <2>4. /\ conn'[s.region][s.conn] = Closed(conn[s.region][s.conn])
          /\ \A r2 \in Regions, k2 \in Blocks :
               r2 # s.region \/ k2 # s.conn => conn'[r2][k2] = conn[r2][k2]
      BY <1>1, <2>1, <2>2 DEF Conns
    <2>5. conn[s.region][s.conn] \in ConnRecord
      BY <1>1, <2>2 DEF Conns
    <2>6. \/ Closed(conn[s.region][s.conn]).state = "free"
          \/ /\ Closed(conn[s.region][s.conn]).by = conn[s.region][s.conn].by
             /\ Closed(conn[s.region][s.conn]).dest = conn[s.region][s.conn].dest
      BY <2>5 DEF Closed, Free, ConnRecord
    <2>7. ASSUME NEW q \in Procs, NEW r2 \in Regions, NEW k2 \in Blocks,
                 Has(q, r2, k2)' \/ Inserts(q, r2, k2)'
          PROVE  /\ Has(q, r2, k2) \/ Inserts(q, r2, k2)
                 /\ conn'[r2][k2].by = conn[r2][k2].by /\ conn'[r2][k2].dest = conn[r2][k2].dest
      <3>1. conn'[r2][k2].state # "free"
        BY <1>3, <2>7 DEF Inv, HolderInv, Held, HeldAt
      <3>2. Has(q, r2, k2) \/ Inserts(q, r2, k2)
        BY <1>2, <2>3, <2>7 DEF Has, Inserts
      <3>3. QED
        BY <2>4, <2>6, <3>1, <3>2
    <2>8. QED
      BY <1>2, <2>7 DEF Addressed, AddressedBy, Region, RemoteWord
  <1>6. QED
    BY <1>4, <1>5

\* Every step leaves the addresses of the connections in use alone.
LEMMA AddressedStep ==
    ASSUME Inv, Addressed, [Next]_vars
    PROVE  Addressed'
  <1>1. TypeOK
    BY DEF Inv, TypeInv
  <1>2. CASE \E p \in Procs : ConnectFind(p)
    <2>1. PICK p \in Procs : ConnectFind(p)
      BY <1>2
    <2>2. /\ \A q \in Procs \ {p} : at'[q] = at[q] /\ local'[q] = local[q]
          /\ UNCHANGED <<conn, sockets, interfaces, calm>>
      BY <1>1, <2>1 DEF ConnectFind, Goto, TypeOK, shared, history
    <2>3. ASSUME NEW q \in Procs PROVE AddressedBy(q)'
      <3>1. CASE q = p
        BY <2>1, <3>1, FindAddresses DEF Addressed
      <3>2. CASE q # p
        BY <2>2, <3>2, AddressedKept DEF Addressed
      <3>3. QED
        BY <3>1, <3>2
    <2>4. QED
      BY <2>3 DEF Addressed
  <1>3. CASE \E p \in Procs : Fault(p)
    BY <1>3, AddressedKept DEF Fault, shared, process, history, Addressed
  <1>4. CASE UNCHANGED vars
    BY <1>4, AddressedKept DEF vars, shared, process, history, Addressed
  <1>5. CASE \/ \E p \in Procs : Start(p) \/ Kill(p) \/ SetupFails(p) \/ SetupDone(p)
             \/ \E r \in Regions : ServerAttach(r) \/ ServerOpenFile(r) \/ ServerWriteFile(r)
             \/ \E r \in Regions : ServerClear(r) \/ ServerFill(r) \/ ServerHeap(r) \/ ServerList(r)
             \/ \E c \in Clients : \/ \E r \in Regions : ClientRead(c, r) \/ ClientAttach(c, r)
                                   \/ ClientAttachFails(c)
    <2>1. ASSUME NEW q \in Procs PROVE AddressedBy(q)'
      <3>1. CASE sockets'[q] = {} /\ at'[q] \notin {"new", "insert"}
        BY <3>1 DEF AddressedBy, Has, Inserts
      <3>2. CASE \E r \in Regions : ServerClear(r)
        <4>1. PICK r \in Regions : ServerClear(r)
          BY <3>2
        <4>2. /\ UNCHANGED <<sockets, local, interfaces>> /\ ~calm'[q][r]
              /\ \A r2 \in Regions \ {r} : /\ conn'[r2] = conn[r2] /\ header'[r2] = header[r2]
                                           /\ epoch'[r2] = epoch[r2] /\ calm'[q][r2] = calm[q][r2]
          BY <1>1, <4>1 DEF ServerClear, TypeOK
        <4>3. at'[q] = at[q] \/ at'[q] = "fill"
          BY <1>1, <4>1 DEF ServerClear, Goto, TypeOK
        <4>4. at'[q] = "new" => Region(q, local[q].iface) \in Regions
          BY <4>3, CurrentInterface DEF Inv
        <4>5. ASSUME NEW r2 \in Regions, NEW k \in Blocks, calm'[q][r2], conn'[r2][k].by = q,
                     Has(q, r2, k)' \/ Inserts(q, r2, k)'
              PROVE  conn'[r2][k].dest = RemoteWord(q, r2)'
          <5>1. r2 # r
            BY <4>2, <4>5
          <5>2. Has(q, r2, k) \/ Inserts(q, r2, k)
            BY <4>2, <4>3, <4>5, <5>1 DEF Has, Inserts
          <5>3. QED
            BY <4>2, <4>5, <5>1, <5>2 DEF Addressed, AddressedBy, RemoteWord
        <4>6. QED
          BY <4>2, <4>3, <4>4, <4>5 DEF Addressed, AddressedBy, RemoteWord, Region
      <3>3. CASE /\ at'[q] = at[q] /\ sockets'[q] = sockets[q] /\ calm'[q] = calm[q]
                 /\ local'[q] = local[q] /\ interfaces'[q] = interfaces[q]
                 /\ ~\E r \in Regions : ServerClear(r)
        <4>1. conn' = conn
          BY <1>5, <3>3 DEF Start, Kill, SetupFails, SetupDone, Exit, ServerAttach, ServerOpenFile,
                ServerWriteFile, ServerFill, ServerHeap, ServerList, ClientRead, ClientAttach,
                ClientAttachFails, shared
        <4>2. QED
          BY <3>3, <4>1, AddressedKept DEF Addressed
      <3>4. QED
        BY <1>5, <3>1, <3>2, <3>3, SetupEffect
    <2>2. QED
      BY <2>1 DEF Addressed
  <1>6. QED
    BY <1>2, <1>3, <1>4, <1>5, NextCases, ConnectAddresses, AcceptAddresses

---------------------------------------------------------------------------
(* The theorems                                                           *)

\* Nothing is calm and nobody has a connection at the start.
LEMMA InitSafe == Init => Inv /\ Fresh /\ Addressed
  <1>1. Init => Fresh /\ Addressed
    BY DEF Init, Fresh, Addressed, AddressedBy, Has, Inserts
  <1>2. QED
    BY <1>1, InitTypes, InitSetup, InitHolders DEF Inv

\* The inductive invariant.
LEMMA SafeInvariant == Spec => [](Inv /\ Fresh /\ Addressed)
  BY InitSafe, InvStep, FreshStep, AddressedStep, PTL DEF Spec

\* A process that read the address of a region when the server had set it up
\* has good pointers there, and its connections, until the region is cleared.
THEOREM SafeOnceReadyHolds == Spec => []SafeOnceReady
  <1>1. Inv /\ Fresh => SafeOnceReady
    <2> SUFFICES ASSUME Inv, Fresh, NEW p \in Procs, NEW i \in Ifaces(p), calm[p][Region(p, i)]
                 PROVE  /\ HeapSound(p, i) /\ ListSound(p, i)
                        /\ \A s \in sockets[p] : s.region = Region(p, i) =>
                             s.epoch = epoch[s.region] /\ conn[s.region][s.conn].state # "free"
      BY DEF SafeOnceReady
    <2>1. TypeOK
      BY DEF Inv, TypeInv
    <2>2. CalmAt(p, Region(p, i))
      BY <2>1, AnyInterface DEF Inv, SetupInv, CalmAgrees
    <2>3. HeapSound(p, i) /\ ListSound(p, i)
      BY <2>2 DEF CalmAt, HeapSound, ListSound
    <2>4. ASSUME NEW s \in sockets[p], s.region = Region(p, i)
          PROVE  s.epoch = epoch[s.region] /\ conn[s.region][s.conn].state # "free"
      <3>1. s.epoch = epoch[s.region]
        BY <2>4 DEF Fresh
      <3>2. PICK r \in Regions, k \in Blocks : s = [region |-> r, conn |-> k, epoch |-> s.epoch]
        BY <2>1 DEF TypeOK
      <3>3. Has(p, r, k)
        BY <3>1, <3>2 DEF Has
      <3>4. QED
        BY <3>1, <3>2, <3>3 DEF Inv, HolderInv, Held, HeldAt
    <2>5. QED
      BY <2>3, <2>4
  <1>2. QED
    BY <1>1, SafeInvariant, PTL

\* Two processes that share a region are the server and its client there, and
\* what connect stored is the address of the one that accepts.
THEOREM AddresseeAcceptsHolds == Spec => []AddresseeAccepts
  <1>1. Inv /\ Addressed => AddresseeAccepts
    <2> SUFFICES ASSUME Inv, Addressed, NEW p \in Procs, NEW q \in Procs, NEW i \in Ifaces(p),
                        NEW j \in Ifaces(q), NEW k \in Blocks, p # q,
                        Region(p, i) = Region(q, j), calm[q][Region(p, i)],
                        Has(p, Region(p, i), k), Has(q, Region(p, i), k),
                        conn[Region(p, i)][k].by = q
                 PROVE  /\ conn[Region(p, i)][k].dest = Own(p, i)
                        /\ Own(p, i) = Remote(q, j) /\ Own(q, j) = Remote(p, i)
      BY DEF AddresseeAccepts
    <2>1. PICK r \in Regions : r = Region(p, i)
      BY AnyInterface DEF Inv, TypeInv
    <2>2. conn[r][k].dest = RemoteWord(q, r)
      BY <2>1 DEF Addressed, AddressedBy
    <2>3. p = Server \/ q = Server
      BY <2>1, TwoProcs DEF Inv, TypeInv, SetupInv, HolderInv
    <2>4. QED
      BY <2>1, <2>2, <2>3 DEF RemoteWord, Own, Remote
  <1>2. QED
    BY <1>1, SafeInvariant, PTL

\* Without crashes every connection of a region is in use.
THEOREM MemoryIsReturnedHolds == Spec => []MemoryIsReturned
  <1>1. Inv => MemoryIsReturned
    <2> SUFFICES ASSUME Inv, NEW r \in Regions, NEW k \in Blocks, conn[r][k].state # "free"
                 PROVE  orphaned[r] \/ \E p \in Procs : Has(p, r, k) \/ Inserts(p, r, k)
      BY DEF MemoryIsReturned
    <2>1. ReturnedAt(r, k)
      BY DEF Inv, HolderInv, Returned
    <2>2. QED
      BY <2>1 DEF ReturnedAt
  <1>2. QED
    BY <1>1, SafeInvariant, PTL
---------------------------------------------------------------------------
(* Lifecycle                                                              *)

\* The connections of a region as Lifecycle has them: one that connect is
\* about to insert was not offered yet.
PhaseOf(st) ==
    IF st = "create" THEN "offered"
    ELSE IF st = "open" THEN "open"
    ELSE IF st = "close" THEN "closed" ELSE "none"

PhaseIn(r)   == [k \in Blocks |-> PhaseOf(conn[r][k].state)]
HoldersIn(r) == [k \in Blocks |-> {p \in Procs : Has(p, r, k)}]

\* The phase of a connection, and its next.
LEMMA PhaseIs ==
    ASSUME NEW r \in Regions, NEW k \in Blocks
    PROVE  /\ PhaseIn(r)[k] = PhaseOf(conn[r][k].state)
           /\ PhaseIn(r)'[k] = PhaseOf(conn'[r][k].state)
  BY DEF PhaseIn

\* Its holders, and the next ones.
LEMMA HoldersAre ==
    ASSUME NEW r \in Regions, NEW k \in Blocks
    PROVE  /\ HoldersIn(r)[k] = {p \in Procs : Has(p, r, k)}
           /\ HoldersIn(r)'[k] = {p \in Procs : Has(p, r, k)'}
  BY DEF HoldersIn

\* A region without a connection.
LEMMA NoLife ==
    ASSUME Init, NEW r \in Regions
    PROVE  /\ PhaseIn(r) = [k \in Blocks |-> "none"]
           /\ HoldersIn(r) = [k \in Blocks |-> {}]
  <1>1. \A k \in Blocks : PhaseOf(conn[r][k].state) = "none"
    BY DEF Init, PhaseOf, Free
  <1>2. \A p \in Procs, k \in Blocks : ~Has(p, r, k)
    BY DEF Init, Has
  <1>3. QED
    BY <1>1, <1>2 DEF PhaseIn, HoldersIn

\* Nothing that Lifecycle sees changes in r.
LEMMA SamePhases ==
    ASSUME NEW r \in Regions,
           \A k \in Blocks : PhaseOf(conn'[r][k].state) = PhaseOf(conn[r][k].state),
           \A p \in Procs, k \in Blocks : Has(p, r, k)' <=> Has(p, r, k)
    PROVE  PhaseIn(r)' = PhaseIn(r) /\ HoldersIn(r)' = HoldersIn(r)
  <1>1. PhaseIn(r)' = PhaseIn(r)
    BY DEF PhaseIn
  <1>2. HoldersIn(r)' = HoldersIn(r)
    BY DEF HoldersIn
  <1>3. QED
    BY <1>1, <1>2

\* One connection of r changes.
LEMMA OnePhase ==
    ASSUME NEW r \in Regions, NEW k \in Blocks,
           \A l \in Blocks \ {k} : conn'[r][l] = conn[r][l],
           \A p \in Procs, l \in Blocks \ {k} : Has(p, r, l)' <=> Has(p, r, l)
    PROVE  /\ PhaseIn(r)' = [PhaseIn(r) EXCEPT ![k] = PhaseIn(r)'[k]]
           /\ HoldersIn(r)' = [HoldersIn(r) EXCEPT ![k] = HoldersIn(r)'[k]]
  <1>1. PhaseIn(r)' = [PhaseIn(r) EXCEPT ![k] = PhaseIn(r)'[k]]
    BY DEF PhaseIn
  <1>2. HoldersIn(r)' = [HoldersIn(r) EXCEPT ![k] = HoldersIn(r)'[k]]
    BY DEF HoldersIn
  <1>3. QED
    BY <1>1, <1>2

\* Lifecycle, for the connections of r and unbroken.
Life(r) == INSTANCE Lifecycle WITH Conns <- Blocks, phase <- PhaseIn(r),
                                   ends <- HoldersIn(r), broken <- FALSE

\* What a step does to the connections of r is what Lifecycle allows.
LivesOn(r) == Life(r)!LifeNext \/ UNCHANGED Life(r)!lifeVars

\* A step that changes neither the connections of r nor who has them.
LEMMA LifeSame ==
    ASSUME NEW r \in Regions,
           \A k \in Blocks : PhaseOf(conn'[r][k].state) = PhaseOf(conn[r][k].state),
           \A p \in Procs, k \in Blocks : Has(p, r, k)' <=> Has(p, r, k)
    PROVE  LivesOn(r)
  <1>1. PhaseIn(r)' = PhaseIn(r) /\ HoldersIn(r)' = HoldersIn(r)
    BY SamePhases
  <1>2. QED
    BY <1>1 DEF LivesOn, Life!lifeVars

\* A step that changes one connection of r.
LEMMA LifeChange ==
    ASSUME NEW r \in Regions, NEW k \in Blocks,
           \A l \in Blocks \ {k} : conn'[r][l] = conn[r][l],
           \A p \in Procs, l \in Blocks \ {k} : Has(p, r, l)' <=> Has(p, r, l)
    PROVE  Life(r)!Becomes(k, PhaseIn(r)'[k], HoldersIn(r)'[k])
  <1>1. /\ PhaseIn(r)' = [PhaseIn(r) EXCEPT ![k] = PhaseIn(r)'[k]]
        /\ HoldersIn(r)' = [HoldersIn(r) EXCEPT ![k] = HoldersIn(r)'[k]]
    BY OnePhase
  <1>2. QED
    BY <1>1 DEF Life!Becomes

\* Everything but connect, accept and close: who has a connection in r stays,
\* if the region is not cleared and nobody is killed who has one there.
LEMMA HoldersStay ==
    ASSUME Inv, NEW r \in Regions, epoch'[r] = epoch[r], ~orphaned'[r],
           \/ \E q \in Procs : Start(q) \/ Kill(q) \/ SetupFails(q) \/ SetupDone(q)
           \/ \E q \in Regions : ServerAttach(q) \/ ServerOpenFile(q) \/ ServerWriteFile(q)
           \/ \E q \in Regions : ServerClear(q) \/ ServerFill(q) \/ ServerHeap(q) \/ ServerList(q)
           \/ \E c \in Clients : \/ \E q \in Regions : ClientRead(c, q) \/ ClientAttach(c, q)
                                 \/ ClientAttachFails(c)
           \/ \E q \in Procs : ConnectFind(q) \/ Fault(q)
           \/ UNCHANGED vars
    PROVE  LivesOn(r)
  <1>1. TypeOK /\ Quiet /\ Clients \subseteq Procs /\ Server \in Procs
    BY DEF Inv, TypeInv, SetupInv, Procs
  <1>2. CASE UNCHANGED sockets /\ conn'[r] = conn[r]
    <2>1. \A p \in Procs, k \in Blocks : Has(p, r, k)' <=> Has(p, r, k)
      BY <1>2 DEF Has
    <2>2. QED
      BY <1>2, <2>1, LifeSame
  <1>3. ASSUME NEW q \in Procs, Gone(q), conn' = conn, \A k \in Blocks : ~Has(q, r, k)
        PROVE  LivesOn(r)
    <2>1. sockets'[q] = {} /\ \A p \in Procs \ {q} : sockets'[p] = sockets[p]
      BY <1>1, <1>3, GoneTypes DEF Inv, TypeInv
    <2>2. \A p \in Procs, k \in Blocks : Has(p, r, k)' <=> Has(p, r, k)
      BY <1>3, <2>1 DEF Has
    <2>3. QED
      BY <1>3, <2>2, LifeSame
  <1>4. CASE \E q \in Procs : Kill(q)
    <2>1. PICK q \in Procs : Kill(q)
      BY <1>4
    <2>2. Gone(q) /\ conn' = conn /\ ~Uses(q, r)
      BY <2>1 DEF Kill, shared
    <2>3. QED
      BY <1>3, <2>2 DEF Uses
  <1>5. CASE \E q \in Procs : Exit(q) /\ at[q] \in SetupPCs /\ conn' = conn
    <2>1. PICK q \in Procs : Exit(q) /\ at[q] \in SetupPCs /\ conn' = conn
      BY <1>5
    <2>2. Gone(q) /\ sockets[q] = {}
      BY <1>1, <2>1 DEF Exit, Quiet, SetupPCs
    <2>3. QED
      BY <1>3, <2>1, <2>2 DEF Has
  <1>6. CASE \E q \in Procs : SetupFails(q)
    BY <1>5, <1>6 DEF SetupFails, SetupPCs, shared
  <1>7. CASE \E c \in Clients : ClientAttachFails(c)
    BY <1>1, <1>5, <1>7 DEF ClientAttachFails, SetupPCs, shared
  <1>8. CASE \E q \in Regions : ServerWriteFile(q)
    BY <1>1, <1>2, <1>5, <1>8 DEF ServerWriteFile, SetupPCs
  <1>9. CASE \E q \in Regions : ServerClear(q)
    <2>1. PICK q \in Regions : ServerClear(q)
      BY <1>9
    <2>2. q # r
      <3>1. epoch'[q] = epoch[q] + 1 /\ epoch[q] \in Nat
        BY <1>1, <2>1 DEF ServerClear, TypeOK
      <3>2. QED
        BY <3>1
    <2>3. conn'[r] = conn[r] /\ sockets' = sockets
      BY <1>1, <2>1, <2>2 DEF ServerClear, TypeOK
    <2>4. QED
      BY <1>2, <2>3
  <1>10. CASE \E q \in Procs : Start(q) \/ SetupDone(q) \/ ConnectFind(q) \/ Fault(q)
    BY <1>2, <1>10 DEF Start, SetupDone, ConnectFind, Fault, shared, process
  <1>11. CASE \E q \in Regions : \/ ServerAttach(q) \/ ServerOpenFile(q)
                                 \/ ServerFill(q) \/ ServerHeap(q) \/ ServerList(q)
    BY <1>2, <1>11 DEF ServerAttach, ServerOpenFile, ServerFill, ServerHeap, ServerList, shared
  <1>12. CASE \E c \in Clients, q \in Regions : ClientRead(c, q) \/ ClientAttach(c, q)
    BY <1>2, <1>12 DEF ClientRead, ClientAttach, shared
  <1>13. CASE UNCHANGED vars
    BY <1>2, <1>13 DEF vars, shared, process
  <1>14. QED
    BY <1>4, <1>6, <1>7, <1>8, <1>9, <1>10, <1>11, <1>12, <1>13

\* createNewConnection takes memory, and offers nothing yet.
LEMMA NewLives ==
    ASSUME Inv, NEW r \in Regions, NEW p \in Procs, ConnectNew(p)
    PROVE  LivesOn(r)
  <1> DEFINE q == Region(p, local[p].iface)
  <1>1. conn \in Conns /\ q \in Regions /\ UNCHANGED <<sockets, epoch>>
    BY CurrentInterface DEF Inv, TypeInv, TypeOK, Conns, ConnRecord, ConnectNew, history
  <1>2. PICK k \in Blocks :
          /\ conn[q][k].state = "free"
          /\ conn' = [conn EXCEPT ![q][k] = [state |-> "new", by |-> p, dest |-> local[p].dest]]
    BY DEF ConnectNew
  <1> HIDE DEF q
  <1>3. /\ conn'[q][k].state = "new"
        /\ \A x \in Regions, l \in Blocks : x # q \/ l # k => conn'[x][l] = conn[x][l]
    BY <1>1, <1>2 DEF Conns
  <1>4. \A l \in Blocks : PhaseOf(conn'[r][l].state) = PhaseOf(conn[r][l].state)
    BY <1>2, <1>3 DEF PhaseOf
  <1>5. \A x \in Procs, l \in Blocks : Has(x, r, l)' <=> Has(x, r, l)
    BY <1>1 DEF Has
  <1>6. QED
    BY <1>4, <1>5, LifeSame

\* connect, when it inserts the connection, offers it.
LEMMA InsertLives ==
    ASSUME Inv, NEW r \in Regions, NEW p \in Procs, ConnectInsert(p)
    PROVE  LivesOn(r)
  <1>1. TypeOK /\ conn \in Conns /\ at[p] = "insert"
    BY DEF Inv, TypeInv, TypeOK, Conns, ConnRecord, ConnectInsert
  <1>2. Region(p, local[p].iface) \in Regions /\ local[p].conn \in Blocks
    BY <1>1, CurrentInterface DEF Inv, TypeInv, CallsOK
  <1>3. PICK q \in Regions, k \in Blocks : q = Region(p, local[p].iface) /\ k = local[p].conn
    BY <1>2
  <1>4. /\ conn' = [conn EXCEPT ![q][k].state = "create"] /\ AddSocket(p, q, k)
        /\ local[p].epoch = epoch[q] /\ UNCHANGED epoch
    BY <1>3 DEF ConnectInsert, history
  <1>5. /\ conn'[q][k].state = "create"
        /\ \A x \in Regions, l \in Blocks : x # q \/ l # k => conn'[x][l] = conn[x][l]
    BY <1>1, <1>4, ChangedState
  <1>6. /\ sockets'[p] = sockets[p] \union {[region |-> q, conn |-> k, epoch |-> epoch[q]]}
        /\ \A x \in Procs \ {p} : sockets'[x] = sockets[x]
    BY <1>1, <1>4, AddedSocket
  <1>7. conn[q][k].state = "new" /\ \A x \in Procs : ~Has(x, q, k)
    <2>1. Inserts(p, q, k)
      BY <1>1, <1>3, <1>4 DEF Inserts, Region
    <2>2. QED
      BY <2>1 DEF Inv, HolderInv, Held, HeldAt
  <1>8. ASSUME NEW x \in Procs, NEW l \in Blocks
        PROVE  Has(x, r, l)' <=> Has(x, r, l) \/ (x = p /\ r = q /\ l = k)
    <2>1. CASE x = p
      BY <1>4, <1>6, <2>1 DEF Has
    <2>2. CASE x # p
      BY <1>4, <1>6, <2>2 DEF Has
    <2>3. QED
      BY <2>1, <2>2
  <1>9. CASE r # q
    BY <1>5, <1>8, <1>9, LifeSame
  <1>10. CASE r = q
    <2>1. Life(r)!Becomes(k, PhaseIn(r)'[k], HoldersIn(r)'[k])
      BY <1>5, <1>8, <1>10, LifeChange
    <2>2. PhaseIn(r)[k] = "none" /\ HoldersIn(r)[k] = {}
      BY <1>7, <1>10, PhaseIs, HoldersAre DEF PhaseOf
    <2>3. PhaseIn(r)'[k] = "offered" /\ HoldersIn(r)'[k] = {p}
      BY <1>5, <1>7, <1>8, <1>10, PhaseIs, HoldersAre DEF PhaseOf
    <2>4. Life(r)!Offer(p, k)
      BY <2>1, <2>2, <2>3 DEF Life!Offer
    <2>5. QED
      BY <2>4 DEF LivesOn, Life!LifeNext
  <1>11. QED
    BY <1>9, <1>10

\* accept takes a connection that is offered, and that the process does not
\* have.
LEMMA AcceptLives ==
    ASSUME Inv, NEW r \in Regions, NEW p \in Procs, Accept(p)
    PROVE  LivesOn(r)
  <1>1. TypeOK /\ conn \in Conns
    BY DEF Inv, TypeInv, TypeOK, Conns, ConnRecord
  <1>2. PICK i \in Ifaces(p) : \E k \in Pending(p, i) :
            /\ conn' = [conn EXCEPT ![Region(p, i)][k].state = "open"]
            /\ AddSocket(p, Region(p, i), k)
    BY DEF Accept
  <1>3. Region(p, i) \in Regions
    BY <1>1, AnyInterface
  <1>4. PICK q \in Regions, k \in Blocks :
          /\ q = Region(p, i) /\ k \in Pending(p, i)
          /\ conn' = [conn EXCEPT ![q][k].state = "open"]
          /\ AddSocket(p, q, k)
    BY <1>2, <1>3 DEF Pending
  <1>5. conn[q][k].state = "create" /\ conn[q][k].by # p /\ UNCHANGED epoch
    BY <1>4 DEF Pending, Accept, history
  <1>6. /\ conn'[q][k].state = "open"
        /\ \A x \in Regions, l \in Blocks : x # q \/ l # k => conn'[x][l] = conn[x][l]
    BY <1>1, <1>4, ChangedState
  <1>7. /\ sockets'[p] = sockets[p] \union {[region |-> q, conn |-> k, epoch |-> epoch[q]]}
        /\ \A x \in Procs \ {p} : sockets'[x] = sockets[x]
    BY <1>1, <1>4, AddedSocket
  <1>8. ~Has(p, q, k)
    BY <1>5 DEF Inv, HolderInv, Held, HeldAt
  <1>9. ASSUME NEW x \in Procs, NEW l \in Blocks
        PROVE  Has(x, r, l)' <=> Has(x, r, l) \/ (x = p /\ r = q /\ l = k)
    <2>1. CASE x = p
      BY <1>5, <1>7, <2>1 DEF Has
    <2>2. CASE x # p
      BY <1>5, <1>7, <2>2 DEF Has
    <2>3. QED
      BY <2>1, <2>2
  <1>10. CASE r # q
    BY <1>6, <1>9, <1>10, LifeSame
  <1>11. CASE r = q
    <2>1. Life(r)!Becomes(k, PhaseIn(r)'[k], HoldersIn(r)'[k])
      BY <1>6, <1>9, <1>11, LifeChange
    <2>2. PhaseIn(r)[k] = "offered" /\ p \notin HoldersIn(r)[k]
      BY <1>5, <1>8, <1>11, PhaseIs, HoldersAre DEF PhaseOf
    <2>3. PhaseIn(r)'[k] = "open"
      BY <1>6, <1>11, PhaseIs DEF PhaseOf
    <2>4. HoldersIn(r)'[k] = HoldersIn(r)[k] \union {p}
      BY <1>9, <1>11, HoldersAre
    <2>5. Life(r)!Accept(p, k)
      BY <2>1, <2>2, <2>3, <2>4 DEF Life!Accept
    <2>6. QED
      BY <2>5 DEF LivesOn, Life!LifeNext
  <1>12. QED
    BY <1>10, <1>11

\* close leaves an open connection to the other side, and releases one that
\* nobody else has.
LEMMA CloseLives ==
    ASSUME Inv, NEW r \in Regions, NEW p \in Procs, Close(p)
    PROVE  LivesOn(r)
  <1>1. TypeOK /\ conn \in Conns
    BY DEF Inv, TypeInv, TypeOK, Conns, ConnRecord
  <1>2. PICK s \in sockets[p] :
          /\ s.epoch = epoch[s.region]
          /\ conn' = [conn EXCEPT ![s.region][s.conn] = Closed(@)]
          /\ sockets' = [sockets EXCEPT ![p] = @ \ {s}]
    BY DEF Close
  <1>3. s \in [region : Regions, conn : Blocks, epoch : Nat] /\ UNCHANGED epoch
    BY <1>1 DEF TypeOK, Close, history
  <1>4. PICK q \in Regions, k \in Blocks :
          /\ q = s.region /\ k = s.conn
          /\ s = [region |-> q, conn |-> k, epoch |-> epoch[q]]
    BY <1>2, <1>3
  <1>5. /\ conn'[q][k] = Closed(conn[q][k])
        /\ \A x \in Regions, l \in Blocks : x # q \/ l # k => conn'[x][l] = conn[x][l]
    BY <1>1, <1>2, <1>4 DEF Conns
  <1>6. sockets'[p] = sockets[p] \ {s} /\ \A x \in Procs \ {p} : sockets'[x] = sockets[x]
    BY <1>1, <1>2 DEF TypeOK
  <1>7. ASSUME NEW x \in Procs, NEW l \in Blocks
        PROVE  Has(x, r, l)' <=> Has(x, r, l) /\ ~(x = p /\ r = q /\ l = k)
    <2>1. CASE x = p
      BY <1>3, <1>4, <1>6, <2>1 DEF Has
    <2>2. CASE x # p
      BY <1>3, <1>6, <2>2 DEF Has
    <2>3. QED
      BY <2>1, <2>2
  <1>8. Has(p, q, k) /\ HeldAt(q, k) /\ conn[q][k] \in ConnRecord
    BY <1>1, <1>4 DEF Has, Inv, HolderInv, Held, Conns
  <1>9. CASE r # q
    BY <1>5, <1>7, <1>9, LifeSame
  <1>10. CASE r = q
    <2>1. Life(r)!Becomes(k, PhaseIn(r)'[k], HoldersIn(r)'[k])
      BY <1>5, <1>7, <1>10, LifeChange
    <2>2. p \in HoldersIn(r)[k] /\ HoldersIn(r)'[k] = HoldersIn(r)[k] \ {p}
      BY <1>7, <1>8, <1>10, HoldersAre
    <2>3. CASE conn[q][k].state = "open"
      <3>1. conn'[q][k].state = "close"
        BY <1>5, <1>8, <2>3 DEF Closed, ConnRecord
      <3>2. PhaseIn(r)[k] = "open" /\ PhaseIn(r)'[k] = "closed"
        BY <1>10, <2>3, <3>1, PhaseIs DEF PhaseOf
      <3>3. Life(r)!Leave(p, k)
        BY <2>1, <2>2, <3>2 DEF Life!Leave
      <3>4. QED
        BY <3>3 DEF LivesOn, Life!LifeNext
    <2>4. CASE conn[q][k].state \in {"create", "close"}
      <3>1. conn'[q][k].state = "free"
        BY <1>5, <2>4 DEF Closed, Free
      <3>2. PhaseIn(r)[k] \in {"offered", "closed"} /\ PhaseIn(r)'[k] = "none"
        BY <1>10, <2>4, <3>1, PhaseIs DEF PhaseOf
      <3>3. \A x \in Procs : Has(x, q, k) => x = p
        BY <1>8, <2>4 DEF HeldAt
      <3>4. HoldersIn(r)[k] = {p}
        BY <1>8, <1>10, <3>3, HoldersAre
      <3>5. Life(r)!Release(p, k)
        BY <2>1, <2>2, <3>2, <3>4 DEF Life!Release
      <3>6. QED
        BY <3>5 DEF LivesOn, Life!LifeNext
    <2>5. conn[q][k].state \in {"create", "open", "close"}
      BY <1>8 DEF HeldAt, ConnRecord
    <2>6. QED
      BY <2>3, <2>4, <2>5
  <1>11. QED
    BY <1>9, <1>10

\* In every region, what connect, accept and close do to the connections.
LifeGoesOn ==
    \A r \in Regions : epoch'[r] = epoch[r] /\ ~orphaned'[r] => LivesOn(r)

\* Interfaces takes connect, accept and close for single steps, and lets the
\* memory be used again.  That is what ConnectionIsLifecycle says of the code
\* inside: in a region that is not cleared, and where nobody is killed who has
\* a connection, every step is one of the same Lifecycle, and never one that
\* breaks it (util.c:347-589).
THEOREM RegionsAreLifecycles ==
    Spec => /\ \A r \in Regions : Life(r)!LifeInit
            /\ [][LifeGoesOn]_vars
  <1>1. Init => \A r \in Regions : Life(r)!LifeInit
    BY NoLife DEF Life!LifeInit
  <1>2. Inv /\ [Next]_vars => LifeGoesOn
    <2> SUFFICES ASSUME Inv, [Next]_vars, NEW r \in Regions, epoch'[r] = epoch[r], ~orphaned'[r]
                 PROVE  LivesOn(r)
      BY DEF LifeGoesOn
    <2>1. CASE \E p \in Procs : ConnectNew(p) \/ ConnectInsert(p) \/ Accept(p) \/ Close(p)
      BY <2>1, NewLives, InsertLives, AcceptLives, CloseLives
    <2>2. QED
      BY <2>1, NextCases, HoldersStay
  <1>3. QED
    BY <1>1, <1>2, SafeInvariant, PTL DEF Spec
=============================================================================
