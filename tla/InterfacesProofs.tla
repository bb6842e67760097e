-------------------------- MODULE InterfacesProofs --------------------------
(***************************************************************************)
(* Inductive invariants of Interfaces, for every number of clients,        *)
(* regions and interfaces, and however often the server starts again.      *)
(*                                                                         *)
(* TypeInv adds to the types what the calls under way rely on; SetupInv    *)
(* follows a region through registerInterface, and what a process has read *)
(* of it; HolderInv counts the sockets on a connection.  What follows from *)
(* them is in InterfacesSafetyProofs.                                      *)
(***************************************************************************)
EXTENDS Interfaces, TLAPS

Filling   == {"clear", "fill", "heap", "list"}
ServerPCs == {"down", "setup", "open", "write", "run", "new", "insert"} \union Filling
ClientPCs == {"down", "setup", "attach", "run", "new", "insert"}

\* Where a process may be, and the variables its call has set by then.
CallsOK ==
    /\ at[Server] \in ServerPCs
    /\ \A c \in Clients : at[c] \in ClientPCs
    /\ at[Server] \in {"open", "write"} => local[Server].base \in Pointers
    /\ at[Server] \in Filling => local[Server].base \in Bases /\ Len(interfaces[Server]) > 0
    /\ \A p \in Procs : at[p] \in {"new", "insert"} => local[p].iface \in Ifaces(p)
    /\ \A p \in Procs : at[p] = "insert" => local[p].conn \in Blocks

---------------------------------------------------------------------------
(* Types                                                                  *)

Calls == [base : Pointers \union {Empty}, iface : Nat, dest : Nat,
          conn : Blocks \union {NULL}, epoch : Nat]
ConnRecord == [state : {"free", "new", "create", "open", "close"},
               by : Procs \union {NULL}, dest : Nat]
Conns == [Regions -> [Blocks -> ConnRecord]]
Attached == [region : Regions, base : Bases]

\* A process that ends keeps the types.
LEMMA GoneTypes ==
    ASSUME TypeOK, CallsOK, NEW p \in Procs, Gone(p)
    PROVE  /\ interfaces' \in [Procs -> Seq(Attached)]
           /\ at' \in [Procs -> SetupPCs \union {"run", "new", "insert"}]
           /\ local' \in [Procs -> Calls]
           /\ sockets' \in [Procs -> SUBSET [region : Regions, conn : Blocks, epoch : Nat]]
           /\ calm' \in [Procs -> [Regions -> BOOLEAN]]
           /\ at'[p] = "down" /\ interfaces'[p] = <<>> /\ local'[p] = NoCall
           /\ sockets'[p] = {} /\ \A r \in Regions : ~calm'[p][r]
           /\ \A q \in Procs \ {p} :
                /\ at'[q] = at[q] /\ interfaces'[q] = interfaces[q] /\ local'[q] = local[q]
                /\ sockets'[q] = sockets[q] /\ calm'[q] = calm[q]
  <1>1. NoCall \in Calls
    BY DEF NoCall, Calls, Pointers
  <1>2. <<>> \in Seq(Attached)
    OBVIOUS
  <1>3. QED
    BY <1>1, <1>2 DEF TypeOK, Gone, Goto, SetupPCs, Calls, Attached

\* CallsOK after a process has ended.
LEMMA GoneCalls ==
    ASSUME TypeOK, CallsOK, NEW p \in Procs, Gone(p)
    PROVE  CallsOK'
  <1>1. /\ at'[p] = "down"
        /\ \A q \in Procs \ {p} : at'[q] = at[q] /\ interfaces'[q] = interfaces[q] /\ local'[q] = local[q]
    BY GoneTypes
  <1>2. Server \in Procs /\ Clients \subseteq Procs
    BY DEF Procs
  <1>3. QED
    BY <1>1, <1>2 DEF CallsOK, ServerPCs, ClientPCs, Filling, Ifaces

\* What publishing an interface does.
LEMMA Published ==
    ASSUME TypeOK, NEW p \in Procs, NEW r \in Regions, NEW b \in Bases, Publish(p, r, b)
    PROVE  /\ interfaces' \in [Procs -> Seq(Attached)]
           /\ Len(interfaces'[p]) = Len(interfaces[p]) + 1
           /\ DOMAIN interfaces'[p] = Ifaces(p) \union {Slot(p)}
           /\ \A i \in Ifaces(p) : interfaces'[p][i] = interfaces[p][i]
           /\ interfaces'[p][Slot(p)] = [region |-> r, base |-> b]
           /\ \A q \in Procs \ {p} : interfaces'[q] = interfaces[q]
  <1>1. interfaces \in [Procs -> Seq(Attached)] /\ [region |-> r, base |-> b] \in Attached
    BY DEF TypeOK, Attached
  <1>2. interfaces' = [interfaces EXCEPT ![p] = Append(interfaces[p], [region |-> r, base |-> b])]
    BY DEF Publish
  <1>3. interfaces'[p] = Append(interfaces[p], [region |-> r, base |-> b])
        /\ \A q \in Procs \ {p} : interfaces'[q] = interfaces[q]
    BY <1>1, <1>2
  <1>4. interfaces[p] \in Seq(Attached)
    BY <1>1
  <1>5. Append(interfaces[p], [region |-> r, base |-> b]) \in Seq(Attached)
    BY <1>1, <1>4
  <1>6. interfaces' \in [Procs -> Seq(Attached)]
    BY <1>1, <1>2, <1>5
  <1>7. QED
    BY <1>1, <1>3, <1>4, <1>6 DEF Ifaces, Slot

TypeInv == TypeOK /\ CallsOK

\* The types at the start.
LEMMA InitTypes == Init => TypeInv
  <1> SUFFICES ASSUME Init PROVE TypeInv
    OBVIOUS
  <1>1. Zero \in [own : Nat, remote : Nat, mctx : Pointers, list : Pointers]
        /\ NoCall \in Calls
    BY DEF Zero, NoCall, Calls, Pointers
  <1>5. Free \in ConnRecord
    BY DEF Free, ConnRecord
  <1>6. interfaces \in [Procs -> Seq(Attached)]
    <2>1. <<>> \in Seq(Attached)
      OBVIOUS
    <2>2. QED
      BY <2>1 DEF Init
  <1>7. /\ addrFile \in [Regions -> Pointers \union {Missing, Empty}]
        /\ header \in [Regions -> [own : Nat, remote : Nat, mctx : Pointers, list : Pointers]]
        /\ conn \in [Regions -> [Blocks ->
                   [state : {"free", "new", "create", "open", "close"},
                    by : Procs \union {NULL}, dest : Nat]]]
    BY <1>1, <1>5 DEF Init, Pointers, ConnRecord
  <1>8. /\ at \in [Procs -> SetupPCs \union {"run", "new", "insert"}]
        /\ local \in [Procs -> Calls]
        /\ sockets \in [Procs -> SUBSET [region : Regions, conn : Blocks, epoch : Nat]]
    BY <1>1 DEF Init, SetupPCs
  <1>9. /\ starts \in [Procs -> Nat] /\ epoch \in [Regions -> Nat]
        /\ ready \in [Regions -> BOOLEAN] /\ orphaned \in [Regions -> BOOLEAN]
        /\ calm \in [Procs -> [Regions -> BOOLEAN]]
        /\ ub \in BOOLEAN
    BY DEF Init
  <1>2. TypeOK
    BY <1>6, <1>7, <1>8, <1>9 DEF TypeOK, Calls, Attached
  <1>3. CallsOK
    BY DEF Init, CallsOK, ServerPCs, ClientPCs, Filling, Procs
  <1>4. QED
    BY <1>2, <1>3 DEF TypeInv

\* One process goes to l.
LEMMA GotoEffect ==
    ASSUME TypeOK, NEW p \in Procs, NEW l \in SetupPCs \union {"run", "new", "insert"}, Goto(p, l)
    PROVE  /\ at' \in [Procs -> SetupPCs \union {"run", "new", "insert"}]
           /\ at'[p] = l /\ \A q \in Procs \ {p} : at'[q] = at[q]
  BY DEF TypeOK, Goto

\* Starting, setup and its ends keep the types.
LEMMA SetupTypes ==
    ASSUME TypeInv, NEW p \in Procs,
           Start(p) \/ Kill(p) \/ SetupFails(p) \/ SetupDone(p)
    PROVE  TypeInv'
  <1>1. TypeOK /\ CallsOK
    BY DEF TypeInv
  <1>2. Server \in Procs /\ Clients \subseteq Procs
    BY DEF Procs
  <1>3. CASE Start(p)
    <2>1. /\ at' \in [Procs -> SetupPCs \union {"run", "new", "insert"}]
          /\ at'[p] = "setup" /\ \A q \in Procs \ {p} : at'[q] = at[q]
      BY <1>1, <1>3, GotoEffect DEF Start, SetupPCs
    <2>2. starts' \in [Procs -> Nat]
      BY <1>1, <1>3 DEF Start, TypeOK
    <2>3. TypeOK'
      BY <1>1, <1>3, <2>1, <2>2 DEF Start, TypeOK, shared, history
    <2>4. CallsOK'
      BY <1>1, <1>2, <1>3, <2>1 DEF Start, CallsOK, ServerPCs, ClientPCs, Filling, Ifaces
    <2>5. QED
      BY <2>3, <2>4 DEF TypeInv
  <1>4. CASE Kill(p)
    <2>1. Gone(p) /\ UNCHANGED <<shared, starts, epoch, ready, ub>>
      BY <1>4 DEF Kill
    <2>2. orphaned' \in [Regions -> BOOLEAN]
      BY <1>4 DEF Kill, Uses
    <2>3. TypeOK'
      BY <1>1, <2>1, <2>2, GoneTypes DEF TypeOK, shared, Calls, Attached
    <2>4. QED
      BY <1>1, <2>1, <2>3, GoneCalls DEF TypeInv
  <1>5. CASE SetupFails(p)
    <2>1. Gone(p) /\ UNCHANGED <<shared, starts, epoch, ready, ub, orphaned>>
      BY <1>5 DEF SetupFails, Exit
    <2>2. TypeOK'
      BY <1>1, <2>1, GoneTypes DEF TypeOK, shared, Calls, Attached
    <2>3. QED
      BY <1>1, <2>1, <2>2, GoneCalls DEF TypeInv
  <1>6. CASE SetupDone(p)
    <2>1. /\ at' \in [Procs -> SetupPCs \union {"run", "new", "insert"}]
          /\ at'[p] = "run" /\ \A q \in Procs \ {p} : at'[q] = at[q]
      BY <1>1, <1>6, GotoEffect DEF SetupDone
    <2>2. TypeOK'
      BY <1>1, <1>6, <2>1 DEF SetupDone, TypeOK, shared, history
    <2>3. CallsOK'
      BY <1>1, <1>2, <1>6, <2>1 DEF SetupDone, CallsOK, ServerPCs, ClientPCs, Filling, Ifaces
    <2>4. QED
      BY <2>2, <2>3 DEF TypeInv
  <1>7. QED
    BY <1>3, <1>4, <1>5, <1>6

\* registerInterface of the server, up to the region it publishes.
LEMMA ServerOpenTypes ==
    ASSUME TypeInv, NEW r \in Regions,
           ServerAttach(r) \/ ServerOpenFile(r) \/ ServerWriteFile(r)
    PROVE  TypeInv'
  <1>1. TypeOK /\ CallsOK
    BY DEF TypeInv
  <1>2. Server \in Procs /\ Clients \subseteq Procs /\ Server \notin Clients
    BY ProcsAssumption DEF Procs
  <1>3. CASE ServerAttach(r)
    <2>1. /\ at' \in [Procs -> SetupPCs \union {"run", "new", "insert"}]
          /\ at'[Server] = "open" /\ \A q \in Procs \ {Server} : at'[q] = at[q]
      BY <1>1, <1>2, <1>3, GotoEffect DEF ServerAttach, SetupPCs
    <2>2. PICK b \in Pointers : local' = [local EXCEPT ![Server].base = b]
      BY <1>3 DEF ServerAttach, Pointers
    <2>3. local \in [Procs -> Calls]
      BY <1>1 DEF TypeOK, Calls
    <2>4. /\ local' \in [Procs -> Calls] /\ local'[Server].base = b
          /\ \A q \in Procs \ {Server} : local'[q] = local[q]
      BY <1>2, <2>2, <2>3 DEF Calls
    <2>5. ready' \in [Regions -> BOOLEAN]
      BY <1>1, <1>3 DEF ServerAttach, TypeOK
    <2>6. TypeOK'
      BY <1>1, <1>3, <2>1, <2>4, <2>5 DEF ServerAttach, TypeOK, shared, Calls
    <2>7. CallsOK'
      BY <1>1, <1>2, <1>3, <2>1, <2>4 DEF ServerAttach, CallsOK, ServerPCs, ClientPCs, Filling, Ifaces
    <2>8. QED
      BY <2>6, <2>7 DEF TypeInv
  <1>4. CASE ServerOpenFile(r)
    <2>1. /\ at' \in [Procs -> SetupPCs \union {"run", "new", "insert"}]
          /\ at'[Server] = "write" /\ \A q \in Procs \ {Server} : at'[q] = at[q]
      BY <1>1, <1>2, <1>4, GotoEffect DEF ServerOpenFile, SetupPCs
    <2>2. addrFile' \in [Regions -> Pointers \union {Missing, Empty}]
      BY <1>1, <1>4 DEF ServerOpenFile, TypeOK
    <2>3. TypeOK'
      BY <1>1, <1>4, <2>1, <2>2 DEF ServerOpenFile, TypeOK, history
    <2>4. CallsOK'
      BY <1>1, <1>2, <1>4, <2>1 DEF ServerOpenFile, CallsOK, ServerPCs, ClientPCs, Filling, Ifaces
    <2>5. QED
      BY <2>3, <2>4 DEF TypeInv
  <1>5. CASE ServerWriteFile(r)
    <2>1. local[Server].base \in Pointers
      BY <1>1, <1>5 DEF CallsOK, ServerWriteFile
    <2>2. addrFile' \in [Regions -> Pointers \union {Missing, Empty}]
      BY <1>1, <1>5, <2>1 DEF ServerWriteFile, TypeOK
    <2>3. CASE local[Server].base = NULL
      <3>1. Gone(Server) /\ UNCHANGED <<header, conn, starts, epoch, ready, ub, orphaned>>
        BY <1>5, <2>3 DEF ServerWriteFile, Exit
      <3>2. TypeOK'
        BY <1>1, <1>2, <2>2, <3>1, GoneTypes DEF TypeOK, Calls, Attached
      <3>3. QED
        BY <1>1, <1>2, <3>1, <3>2, GoneCalls DEF TypeInv
    <2>4. CASE local[Server].base # NULL
      <3>1. local[Server].base \in Bases
        BY <2>1, <2>4 DEF Pointers
      <3>2. /\ Publish(Server, r, local[Server].base) /\ Goto(Server, "clear")
            /\ UNCHANGED <<header, conn, local, sockets, calm, orphaned, starts, epoch, ready, ub>>
        BY <1>5, <2>4 DEF ServerWriteFile
      <3>3. /\ at' \in [Procs -> SetupPCs \union {"run", "new", "insert"}]
            /\ at'[Server] = "clear" /\ \A q \in Procs \ {Server} : at'[q] = at[q]
        BY <1>1, <1>2, <3>2, GotoEffect DEF SetupPCs
      <3>4. /\ interfaces' \in [Procs -> Seq(Attached)]
            /\ Len(interfaces'[Server]) = Len(interfaces[Server]) + 1
            /\ \A q \in Procs \ {Server} : interfaces'[q] = interfaces[q]
        BY <1>1, <1>2, <3>1, <3>2, Published
      <3>5. Len(interfaces[Server]) \in Nat
        BY <1>1, <1>2 DEF TypeOK
      <3>6. TypeOK'
        BY <1>1, <2>2, <3>2, <3>3, <3>4 DEF TypeOK, Attached
      <3>9. Len(interfaces'[Server]) > 0
        BY <3>4, <3>5
      <3>7. CallsOK'
        BY <1>1, <1>2, <3>1, <3>2, <3>3, <3>4, <3>9 DEF CallsOK, ServerPCs, ClientPCs, Filling, Ifaces
      <3>8. QED
        BY <3>6, <3>7 DEF TypeInv
    <2>5. QED
      BY <2>3, <2>4
  <1>6. QED
    BY <1>3, <1>4, <1>5

\* Clearing and initialising a region.
LEMMA ServerFillTypes ==
    ASSUME TypeInv, NEW r \in Regions,
           ServerClear(r) \/ ServerFill(r) \/ ServerHeap(r) \/ ServerList(r)
    PROVE  TypeInv'
  <1>1. TypeOK /\ CallsOK
    BY DEF TypeInv
  <1>2. Server \in Procs /\ Clients \subseteq Procs /\ Server \notin Clients
    BY ProcsAssumption DEF Procs
  <1>3. local[Server].base \in Bases
    BY <1>1 DEF CallsOK, Filling, ServerClear, ServerFill, ServerHeap, ServerList
  <1>4. \E l \in Filling \union {"setup"} :
          /\ at' \in [Procs -> SetupPCs \union {"run", "new", "insert"}]
          /\ at'[Server] = l /\ \A q \in Procs \ {Server} : at'[q] = at[q]
    BY <1>1, <1>2, GotoEffect DEF ServerClear, ServerFill, ServerHeap, ServerList, SetupPCs, Filling
  <1>5. UNCHANGED <<addrFile, interfaces, local, sockets, starts, ub>>
    BY DEF ServerClear, ServerFill, ServerHeap, ServerList, history
  <1>6. header' \in [Regions -> [own : Nat, remote : Nat, mctx : Pointers, list : Pointers]]
    <2>1. Zero \in [own : Nat, remote : Nat, mctx : Pointers, list : Pointers]
      BY DEF Zero, Pointers
    <2>2. OwnAddress[r] \in Nat /\ RemoteAddress[r] \in Nat
      BY AddressAssumption
    <2>3. header \in [Regions -> [own : Nat, remote : Nat, mctx : Pointers, list : Pointers]]
      BY <1>1 DEF TypeOK
    <2>4. local[Server].base \in Pointers
      BY <1>3 DEF Pointers
    <2>5. CASE ServerClear(r)
      BY <2>1, <2>3, <2>5 DEF ServerClear
    <2>6. CASE ServerFill(r)
      BY <2>2, <2>3, <2>6 DEF ServerFill
    <2>7. CASE ServerHeap(r)
      BY <2>3, <2>4, <2>7 DEF ServerHeap
    <2>8. CASE ServerList(r)
      BY <2>3, <2>4, <2>8 DEF ServerList
    <2>9. QED
      BY <2>5, <2>6, <2>7, <2>8
  <1>7. conn' \in Conns
    <2>1. Free \in ConnRecord
      BY DEF Free, ConnRecord
    <2>2. conn \in Conns
      BY <1>1 DEF TypeOK, Conns, ConnRecord
    <2>3. CASE ServerClear(r)
      BY <2>1, <2>2, <2>3 DEF ServerClear, Conns, ConnRecord
    <2>4. CASE ~ServerClear(r)
      BY <2>2, <2>4 DEF ServerFill, ServerHeap, ServerList
    <2>5. QED
      BY <2>3, <2>4
  <1>8. /\ epoch' \in [Regions -> Nat] /\ ready' \in [Regions -> BOOLEAN]
        /\ orphaned' \in [Regions -> BOOLEAN]
    <2>1. CASE ServerClear(r)
      BY <1>1, <2>1 DEF TypeOK, ServerClear
    <2>2. CASE ServerFill(r) \/ ServerHeap(r)
      BY <1>1, <2>2 DEF TypeOK, ServerFill, ServerHeap, history
    <2>3. CASE ServerList(r)
      BY <1>1, <2>3 DEF TypeOK, ServerList
    <2>4. QED
      BY <2>1, <2>2, <2>3
  <1>9. calm' \in [Procs -> [Regions -> BOOLEAN]]
    <2>1. calm \in [Procs -> [Regions -> BOOLEAN]]
      BY <1>1 DEF TypeOK
    <2>2. CASE ServerClear(r)
      BY <2>1, <2>2 DEF ServerClear
    <2>3. CASE ServerFill(r) \/ ServerHeap(r)
      BY <2>1, <2>3 DEF ServerFill, ServerHeap, history
    <2>4. CASE ServerList(r)
      BY <2>1, <2>4 DEF ServerList
    <2>5. QED
      BY <2>2, <2>3, <2>4
  <1>10. TypeOK'
    BY <1>1, <1>4, <1>5, <1>6, <1>7, <1>8, <1>9 DEF TypeOK, Conns, ConnRecord
  <1>11. Len(interfaces[Server]) > 0
    BY <1>1 DEF CallsOK, Filling, ServerClear, ServerFill, ServerHeap, ServerList
  <1>12. CallsOK'
    BY <1>1, <1>2, <1>3, <1>4, <1>5, <1>11 DEF CallsOK, ServerPCs, ClientPCs, Filling, Ifaces
  <1>13. QED
    BY <1>10, <1>12 DEF TypeInv

\* registerInterface of a client.
LEMMA ClientTypes ==
    ASSUME TypeInv, NEW c \in Clients,
           (\E r \in Regions : ClientRead(c, r) \/ ClientAttach(c, r)) \/ ClientAttachFails(c)
    PROVE  TypeInv'
  <1>1. TypeOK /\ CallsOK
    BY DEF TypeInv
  <1>2. c \in Procs /\ Server \in Procs /\ Clients \subseteq Procs /\ Server \notin Clients
    BY ProcsAssumption DEF Procs
  <1>3. ASSUME NEW r \in Regions, ClientRead(c, r) PROVE TypeInv'
    <2>1. /\ at' \in [Procs -> SetupPCs \union {"run", "new", "insert"}]
          /\ at'[c] = "attach" /\ \A q \in Procs \ {c} : at'[q] = at[q]
      BY <1>1, <1>2, <1>3, GotoEffect DEF ClientRead, SetupPCs
    <2>2. addrFile[r] \in Pointers \union {Empty}
      BY <1>1, <1>3 DEF TypeOK, ClientRead
    <2>3. local \in [Procs -> Calls] /\ local' = [local EXCEPT ![c].base = addrFile[r]]
      BY <1>1, <1>3 DEF TypeOK, Calls, ClientRead
    <2>4. local' \in [Procs -> Calls] /\ \A q \in Procs \ {c} : local'[q] = local[q]
      BY <1>2, <2>2, <2>3 DEF Calls
    <2>5. calm' \in [Procs -> [Regions -> BOOLEAN]]
      BY <1>1, <1>2, <1>3 DEF TypeOK, ClientRead
    <2>6. TypeOK'
      BY <1>1, <1>3, <2>1, <2>4, <2>5 DEF ClientRead, TypeOK, shared, Calls
    <2>7. CallsOK'
      BY <1>1, <1>2, <1>3, <2>1, <2>4 DEF ClientRead, CallsOK, ServerPCs, ClientPCs, Filling, Ifaces
    <2>8. QED
      BY <2>6, <2>7 DEF TypeInv
  <1>4. ASSUME NEW r \in Regions, ClientAttach(c, r) PROVE TypeInv'
    <2>1. PICK b \in Bases : Publish(c, r, b)
      BY <1>4 DEF ClientAttach
    <2>2. /\ at' \in [Procs -> SetupPCs \union {"run", "new", "insert"}]
          /\ at'[c] = "setup" /\ \A q \in Procs \ {c} : at'[q] = at[q]
      BY <1>1, <1>2, <1>4, GotoEffect DEF ClientAttach, SetupPCs
    <2>3. /\ interfaces' \in [Procs -> Seq(Attached)]
          /\ \A q \in Procs \ {c} : interfaces'[q] = interfaces[q]
      BY <1>1, <1>2, <2>1, Published
    <2>4. TypeOK'
      BY <1>1, <1>4, <2>2, <2>3 DEF ClientAttach, TypeOK, shared, history, Attached
    <2>5. CallsOK'
      BY <1>1, <1>2, <1>4, <2>2, <2>3 DEF ClientAttach, CallsOK, ServerPCs, ClientPCs, Filling, Ifaces
    <2>6. QED
      BY <2>4, <2>5 DEF TypeInv
  <1>5. CASE ClientAttachFails(c)
    <2>1. Gone(c) /\ UNCHANGED <<shared, starts, epoch, ready, ub, orphaned>>
      BY <1>5 DEF ClientAttachFails, Exit
    <2>2. TypeOK'
      BY <1>1, <1>2, <2>1, GoneTypes DEF TypeOK, shared, Calls, Attached
    <2>3. QED
      BY <1>1, <1>2, <2>1, <2>2, GoneCalls DEF TypeInv
  <1>6. QED
    BY <1>3, <1>4, <1>5

\* The interface of the call under way, and its region.
LEMMA CurrentInterface ==
    ASSUME TypeInv, NEW p \in Procs, at[p] \in {"new", "insert"}
    PROVE  /\ local[p].iface \in Ifaces(p)
           /\ Region(p, local[p].iface) \in Regions /\ Base(p, local[p].iface) \in Bases
  <1>1. local[p].iface \in Ifaces(p)
    BY DEF TypeInv, CallsOK
  <1>2. interfaces[p] \in Seq(Attached)
    BY DEF TypeInv, TypeOK, Attached
  <1>3. interfaces[p][local[p].iface] \in Attached
    BY <1>1, <1>2 DEF Ifaces
  <1>4. QED
    BY <1>1, <1>3 DEF Region, Base, Attached

\* Every published interface is of a region, at one of its addresses.
LEMMA AnyInterface ==
    ASSUME TypeOK, NEW p \in Procs, NEW i \in Ifaces(p)
    PROVE  /\ i \in Nat /\ i >= 1 /\ i <= Len(interfaces[p])
           /\ Region(p, i) \in Regions /\ Base(p, i) \in Bases
  <1>1. interfaces[p] \in Seq(Attached)
    BY DEF TypeOK, Attached
  <1>2. interfaces[p][i] \in Attached /\ i \in 1..Len(interfaces[p])
    BY <1>1 DEF Ifaces
  <1>3. QED
    BY <1>1, <1>2 DEF Region, Base, Attached

\* The state of one connection changes.
LEMMA ChangedState ==
    ASSUME conn \in Conns, NEW r \in Regions, NEW k \in Blocks,
           NEW st \in {"free", "new", "create", "open", "close"},
           conn' = [conn EXCEPT ![r][k].state = st]
    PROVE  /\ conn' \in Conns /\ conn'[r][k].state = st
           /\ conn'[r][k].by = conn[r][k].by /\ conn'[r][k].dest = conn[r][k].dest
           /\ \A q \in Regions, l \in Blocks : q # r \/ l # k => conn'[q][l] = conn[q][l]
  <1>1. conn' = [conn EXCEPT ![r][k] = [conn[r][k] EXCEPT !.state = st]]
    OBVIOUS
  <1>2. conn[r][k] \in ConnRecord
    BY DEF Conns
  <1> DEFINE x == [conn[r][k] EXCEPT !.state = st]
  <1>3. x \in ConnRecord /\ x.state = st /\ x.by = conn[r][k].by /\ x.dest = conn[r][k].dest
    BY <1>2 DEF ConnRecord
  <1>4. conn' = [conn EXCEPT ![r][k] = x]
    BY <1>1
  <1> HIDE DEF x
  <1>5. conn' \in Conns /\ conn'[r][k] = x
        /\ \A q \in Regions, l \in Blocks : q # r \/ l # k => conn'[q][l] = conn[q][l]
    BY <1>3, <1>4 DEF Conns
  <1>6. QED
    BY <1>3, <1>5

\* Another socket of p, on a connection that exists now.
LEMMA AddedSocket ==
    ASSUME TypeOK, NEW p \in Procs, NEW r \in Regions, NEW k \in Blocks, AddSocket(p, r, k)
    PROVE  /\ sockets' \in [Procs -> SUBSET [region : Regions, conn : Blocks, epoch : Nat]]
           /\ sockets'[p] = sockets[p] \union {[region |-> r, conn |-> k, epoch |-> epoch[r]]}
           /\ \A q \in Procs \ {p} : sockets'[q] = sockets[q]
  BY DEF TypeOK, AddSocket

\* What connect does to the types.
LEMMA ConnectTypes ==
    ASSUME TypeInv, NEW p \in Procs, ConnectFind(p) \/ ConnectNew(p) \/ ConnectInsert(p)
    PROVE  TypeInv'
  <1>1. TypeOK /\ CallsOK /\ local \in [Procs -> Calls] /\ conn \in Conns /\ epoch \in [Regions -> Nat]
    BY DEF TypeInv, TypeOK, Calls, Conns, ConnRecord
  <1>2. Server \in Procs /\ Clients \subseteq Procs
    BY DEF Procs
  <1>3. CASE ConnectFind(p)
    <2>1. /\ at' \in [Procs -> SetupPCs \union {"run", "new", "insert"}]
          /\ at'[p] = "new" /\ \A q \in Procs \ {p} : at'[q] = at[q]
      BY <1>1, <1>3, GotoEffect DEF ConnectFind
    <2>2. PICK a \in Dests : \E i \in RouteTo(p, a) :
            local' = [local EXCEPT ![p].iface = i, ![p].dest = a]
      BY <1>3 DEF ConnectFind
    <2>8. PICK i \in RouteTo(p, a) :
            local' = [local EXCEPT ![p].iface = i, ![p].dest = a]
      BY <2>2
    <2>3. a \in Nat /\ i \in Ifaces(p) /\ i \in Nat
      BY <1>1, <2>8, AddressAssumption, AnyInterface DEF RouteTo
    <2>4. /\ local' \in [Procs -> Calls] /\ local'[p].iface = i
          /\ \A q \in Procs \ {p} : local'[q] = local[q]
      BY <1>1, <2>8, <2>3 DEF Calls
    <2>5. TypeOK'
      BY <1>1, <1>3, <2>1, <2>4 DEF ConnectFind, TypeOK, shared, history, Calls
    <2>6. CallsOK'
      BY <1>1, <1>2, <1>3, <2>1, <2>3, <2>4 DEF ConnectFind, CallsOK, ServerPCs, ClientPCs, Filling, Ifaces
    <2>7. QED
      BY <2>5, <2>6 DEF TypeInv
  <1>4. CASE ConnectNew(p)
    <2> DEFINE r == Region(p, local[p].iface)
    <2>1. /\ at' \in [Procs -> SetupPCs \union {"run", "new", "insert"}]
          /\ at'[p] = "insert" /\ \A q \in Procs \ {p} : at'[q] = at[q]
      BY <1>1, <1>4, GotoEffect DEF ConnectNew
    <2>2. r \in Regions
      BY <1>4, CurrentInterface DEF ConnectNew
    <2>3. PICK k \in Blocks :
            /\ conn' = [conn EXCEPT ![r][k] = [state |-> "new", by |-> p, dest |-> local[p].dest]]
            /\ local' = [local EXCEPT ![p].conn = k, ![p].epoch = epoch[r]]
      BY <1>4 DEF ConnectNew
    <2>4. conn' \in Conns
      BY <1>1, <2>2, <2>3 DEF Conns, ConnRecord, Calls
    <2>5. /\ local' \in [Procs -> Calls] /\ local'[p].iface = local[p].iface
          /\ local'[p].conn = k /\ \A q \in Procs \ {p} : local'[q] = local[q]
      BY <1>1, <2>2, <2>3 DEF Calls
    <2>6. TypeOK'
      BY <1>1, <1>4, <2>1, <2>4, <2>5 DEF ConnectNew, TypeOK, history, Calls, Conns, ConnRecord
    <2>7. CallsOK'
      BY <1>1, <1>2, <1>4, <2>1, <2>5 DEF ConnectNew, CallsOK, ServerPCs, ClientPCs, Filling, Ifaces
    <2>8. QED
      BY <2>6, <2>7 DEF TypeInv
  <1>5. CASE ConnectInsert(p)
    <2> DEFINE r == Region(p, local[p].iface)
               k == local[p].conn
    <2>1. /\ at' \in [Procs -> SetupPCs \union {"run", "new", "insert"}]
          /\ at'[p] = "run" /\ \A q \in Procs \ {p} : at'[q] = at[q]
      BY <1>1, <1>5, GotoEffect DEF ConnectInsert
    <2>2. r \in Regions
      BY <1>5, CurrentInterface DEF ConnectInsert
    <2>3. conn' = [conn EXCEPT ![r][k].state = "create"] /\ AddSocket(p, r, k)
          /\ local' = [local EXCEPT ![p] = NoCall]
      BY <1>5 DEF ConnectInsert
    <2>7. k \in Blocks
      BY <1>1, <1>5 DEF CallsOK, ConnectInsert
    <2>4. conn' \in Conns
      BY <1>1, <2>2, <2>3, <2>7, ChangedState
    <2>5. NoCall \in Calls
      BY DEF NoCall, Calls, Pointers
    <2>6. local' \in [Procs -> Calls] /\ \A q \in Procs \ {p} : local'[q] = local[q]
      BY <1>1, <2>3, <2>5
    <2>8. sockets' \in [Procs -> SUBSET [region : Regions, conn : Blocks, epoch : Nat]]
      BY <1>1, <2>2, <2>3, <2>7, AddedSocket
    <2>9. TypeOK'
      BY <1>1, <1>5, <2>1, <2>4, <2>6, <2>8 DEF ConnectInsert, TypeOK, history, Calls, Conns, ConnRecord
    <2>10. CallsOK'
      BY <1>1, <1>2, <1>5, <2>1, <2>6 DEF ConnectInsert, CallsOK, ServerPCs, ClientPCs, Filling, Ifaces
    <2>11. QED
      BY <2>9, <2>10 DEF TypeInv
  <1>6. QED
    BY <1>3, <1>4, <1>5

\* accept and close, and what has gone wrong.
LEMMA AcceptTypes ==
    ASSUME TypeInv, NEW p \in Procs, Accept(p) \/ Close(p) \/ Fault(p) \/ Undefined
    PROVE  TypeInv'
  <1>1. TypeOK /\ CallsOK /\ conn \in Conns /\ epoch \in [Regions -> Nat]
    BY DEF TypeInv, TypeOK, Conns, ConnRecord
  <1>2. UNCHANGED <<addrFile, header, interfaces, at, local, starts, history>>
    BY DEF Accept, Close, Fault, Undefined, vars, shared, process
  <1>3. CASE Accept(p)
    <2>1. PICK i \in Ifaces(p) : \E k \in Pending(p, i) :
              /\ conn' = [conn EXCEPT ![Region(p, i)][k].state = "open"]
              /\ AddSocket(p, Region(p, i), k)
      BY <1>3 DEF Accept
    <2>2. PICK k \in Blocks :
              /\ conn' = [conn EXCEPT ![Region(p, i)][k].state = "open"]
              /\ AddSocket(p, Region(p, i), k)
      BY <2>1 DEF Pending
    <2>3. Region(p, i) \in Regions
      BY <1>1, AnyInterface
    <2>4. conn' \in Conns
      BY <1>1, <2>2, <2>3, ChangedState
    <2>5. sockets' \in [Procs -> SUBSET [region : Regions, conn : Blocks, epoch : Nat]]
      BY <1>1, <2>2, <2>3, AddedSocket
    <2>6. ub' = ub
      BY <1>3 DEF Accept
    <2>7. TypeOK'
      BY <1>1, <1>2, <2>4, <2>5, <2>6 DEF TypeOK, history, Conns, ConnRecord
    <2>8. QED
      BY <1>1, <1>2, <2>7 DEF TypeInv, CallsOK, Ifaces
  <1>4. CASE Close(p)
    <2>1. PICK s \in sockets[p] :
              /\ conn' = [conn EXCEPT ![s.region][s.conn] = Closed(@)]
              /\ sockets' = [sockets EXCEPT ![p] = @ \ {s}]
      BY <1>4 DEF Close
    <2>2. s \in [region : Regions, conn : Blocks, epoch : Nat]
      BY <1>1 DEF TypeOK
    <2>3. \A x \in ConnRecord :
            Closed(x) \in ConnRecord
      BY DEF Closed, Free, ConnRecord
    <2>4. conn' \in Conns
      BY <1>1, <2>1, <2>2, <2>3 DEF Conns, ConnRecord
    <2>5. sockets' \in [Procs -> SUBSET [region : Regions, conn : Blocks, epoch : Nat]]
      BY <1>1, <2>1 DEF TypeOK
    <2>6. ub' = ub
      BY <1>4 DEF Close
    <2>7. TypeOK'
      BY <1>1, <1>2, <2>4, <2>5, <2>6 DEF TypeOK, history, Conns, ConnRecord
    <2>8. QED
      BY <1>1, <1>2, <2>7 DEF TypeInv, CallsOK, Ifaces
  <1>5. CASE Fault(p) \/ Undefined
    <2>1. UNCHANGED <<shared, process, starts, history>> /\ ub' \in BOOLEAN
      BY <1>1, <1>5 DEF Fault, Undefined, vars, TypeOK
    <2>2. TypeOK'
      BY <1>1, <2>1 DEF TypeOK, shared, process, history
    <2>3. QED
      BY <1>1, <1>2, <2>2 DEF TypeInv, CallsOK, Ifaces
  <1>6. QED
    BY <1>3, <1>4, <1>5

\* The alternatives of Next, one for each lemma.
LEMMA NextCases ==
    ASSUME [Next]_vars
    PROVE  \/ \E p \in Procs : Start(p) \/ Kill(p) \/ SetupFails(p) \/ SetupDone(p)
           \/ \E p \in Procs : ConnectFind(p) \/ ConnectNew(p) \/ ConnectInsert(p)
           \/ \E p \in Procs : Accept(p) \/ Close(p) \/ Fault(p)
           \/ \E r \in Regions : ServerAttach(r) \/ ServerOpenFile(r) \/ ServerWriteFile(r)
           \/ \E r \in Regions : ServerClear(r) \/ ServerFill(r) \/ ServerHeap(r) \/ ServerList(r)
           \/ \E c \in Clients : \/ \E r \in Regions : ClientRead(c, r) \/ ClientAttach(c, r)
                                 \/ ClientAttachFails(c)
           \/ UNCHANGED vars
  BY DEF Next, Undefined

\* Type correctness: the types hold of every step.
LEMMA TypesStep ==
    ASSUME TypeInv, [Next]_vars
    PROVE  TypeInv'
  <1>1. CASE UNCHANGED vars
    BY <1>1 DEF TypeInv, TypeOK, CallsOK, Ifaces, vars, shared, process, history
  <1>2. QED
    BY <1>1, NextCases, SetupTypes, ServerOpenTypes, ServerFillTypes, ClientTypes, ConnectTypes,
       AcceptTypes

\* Type correctness, for every number of processes, regions and addresses.
THEOREM TypeCorrect == Spec => []TypeOK
  <1>1. TypeInv => TypeOK
    BY DEF TypeInv
  <1>2. QED
    BY <1>1, InitTypes, TypesStep, PTL DEF Spec
---------------------------------------------------------------------------
(* A region through registerInterface                                     *)

\* Interfaces are published in the order of Setup.
Ordered ==
    \A p \in Procs : \A i \in Ifaces(p) :
        i \in DOMAIN Setup[p] /\ Region(p, i) = Setup[p][i]

\* Sockets come after setup.
Quiet == \A p \in Procs : at[p] \notin {"run", "new", "insert"} => sockets[p] = {}

\* A region the server is setting up.
Prepared ==
    \A r \in Regions :
        /\ at[Server] \in {"open", "write"} /\ Registering(Server, r) => ~ready[r]
        /\ at[Server] \in Filling /\ Current(r) =>
             /\ ~ready[r] /\ addrFile[r] = local[Server].base
             /\ Base(Server, Len(interfaces[Server])) = local[Server].base
        /\ at[Server] \in Filling \ {"clear"} /\ Current(r) => \A p \in Procs : ~calm[p][r]
        /\ at[Server] = "list" /\ Current(r) => header[r].mctx = local[Server].base

\* The file and the pointers of a region that is ready agree.
ReadyAgrees ==
    \A r \in Regions :
        ready[r] => /\ addrFile[r] \in Bases
                    /\ header[r].mctx = addrFile[r] /\ header[r].list = addrFile[r]

\* Who read the address of a region that was ready has it mapped, or is about
\* to map it, where its pointers are good.
CalmAt(p, r) ==
    /\ (\E i \in Ifaces(p) : Region(p, i) = r) \/ (at[p] = "attach" /\ Registering(p, r))
    /\ header[r].list \in Bases /\ header[r].mctx = header[r].list
    /\ \A i \in Ifaces(p) : Region(p, i) = r => Base(p, i) = header[r].list
    /\ at[p] = "attach" /\ Registering(p, r) => local[p].base = header[r].list

CalmAgrees == \A p \in Procs, r \in Regions : calm[p][r] => CalmAt(p, r)

SetupInv == Ordered /\ Quiet /\ Prepared /\ ReadyAgrees /\ CalmAgrees

\* A process has a region once, and not before it registers it.
LEMMA RegionOnce ==
    ASSUME TypeOK, Ordered, NEW p \in Procs
    PROVE  /\ \A i, j \in Ifaces(p) : Region(p, i) = Region(p, j) => i = j
           /\ \A r \in Regions, i \in Ifaces(p) : Registering(p, r) => Region(p, i) # r
  <1>1. \A i, j \in DOMAIN Setup[p] : Setup[p][i] = Setup[p][j] => i = j
    BY SetupAssumption
  <1>2. \A i \in Ifaces(p) : i # Slot(p)
    <2>1. \A i \in Ifaces(p) : i \in Nat /\ i <= Len(interfaces[p])
      BY AnyInterface
    <2>2. Len(interfaces[p]) \in Nat
      BY DEF TypeOK
    <2>3. QED
      BY <2>1, <2>2 DEF Slot
  <1>3. QED
    BY <1>1, <1>2 DEF Ordered, Registering

\* CalmAt is kept where nothing it speaks of changes.
LEMMA CalmKept ==
    ASSUME NEW p \in Procs, NEW r \in Regions, CalmAt(p, r),
           interfaces'[p] = interfaces[p], header'[r] = header[r],
           at'[p] = "attach" <=> at[p] = "attach",
           at[p] = "attach" => local'[p].base = local[p].base
    PROVE  CalmAt(p, r)'
  <1>1. /\ Ifaces(p)' = Ifaces(p) /\ Registering(p, r)' = Registering(p, r)
        /\ \A i \in Ifaces(p) : Region(p, i)' = Region(p, i) /\ Base(p, i)' = Base(p, i)
    BY DEF Ifaces, Region, Base, Registering, Slot
  <1>2. QED
    BY <1>1 DEF CalmAt

\* All processes: where no base and no pointer changes, what was read stays good.
LEMMA CalmStays ==
    ASSUME SetupInv, interfaces' = interfaces,
           \A p \in Procs, r \in Regions : calm'[p][r] => calm[p][r] /\ header'[r] = header[r],
           \A p \in Procs : at'[p] = "attach" <=> at[p] = "attach",
           \A p \in Procs : at[p] = "attach" => local'[p].base = local[p].base
    PROVE  CalmAgrees'
  BY CalmKept DEF SetupInv, CalmAgrees

\* A process that ends; the file of a region that is not ready may change.
LEMMA GoneSetup ==
    ASSUME TypeInv, SetupInv, NEW p \in Procs, Gone(p), UNCHANGED <<header, ready>>,
           \A r \in Regions : ready[r] => addrFile'[r] = addrFile[r],
           p # Server => addrFile' = addrFile
    PROVE  SetupInv'
  <1>1. /\ at'[p] = "down" /\ interfaces'[p] = <<>> /\ sockets'[p] = {}
        /\ \A r \in Regions : ~calm'[p][r]
        /\ \A q \in Procs \ {p} :
             /\ at'[q] = at[q] /\ interfaces'[q] = interfaces[q] /\ local'[q] = local[q]
             /\ sockets'[q] = sockets[q] /\ calm'[q] = calm[q]
    BY GoneTypes DEF TypeInv
  <1>2. Ordered'
    BY <1>1 DEF SetupInv, Ordered, Ifaces, Region
  <1>3. Quiet'
    BY <1>1 DEF SetupInv, Quiet
  <1>4. Prepared'
    <2>1. CASE p = Server
      BY <1>1, <2>1 DEF Prepared, Filling
    <2>2. CASE p # Server
      <3>1. Server \in Procs \ {p}
        BY <2>2 DEF Procs
      <3>2. at'[Server] = at[Server] /\ interfaces'[Server] = interfaces[Server]
            /\ local'[Server] = local[Server]
        BY <1>1, <3>1
      <3>3. \A r \in Regions, q \in Procs : calm'[q][r] => calm[q][r]
        BY <1>1
      <3>4. QED
        BY <2>2, <3>2, <3>3 DEF SetupInv, Prepared, Registering, Slot, Current, Base
    <2>3. QED
      BY <2>1, <2>2
  <1>5. ReadyAgrees'
    BY DEF SetupInv, ReadyAgrees
  <1>6. CalmAgrees'
    BY <1>1 DEF SetupInv, CalmAgrees, CalmAt, Ifaces, Region, Base, Registering, Slot
  <1>7. QED
    BY <1>2, <1>3, <1>4, <1>5, <1>6 DEF SetupInv

\* A step of p that touches no region and no interface, and after which p is
\* not registering one.
LEMMA RunSetup ==
    ASSUME TypeInv, SetupInv, NEW p \in Procs,
           UNCHANGED <<addrFile, header, interfaces, ready, calm>>, at[p] # "attach",
           \A q \in Procs \ {p} : /\ at'[q] = at[q] /\ sockets'[q] = sockets[q]
                                  /\ local'[q].base = local[q].base,
           at'[p] \in {"run", "new", "insert"} \/ (at'[p] = "setup" /\ sockets'[p] = {})
    PROVE  SetupInv'
  <1>1. Ordered' /\ ReadyAgrees'
    BY DEF SetupInv, Ordered, ReadyAgrees, Ifaces, Region
  <1>2. Quiet'
    BY DEF SetupInv, Quiet
  <1>3. Prepared'
    <2>1. CASE p = Server
      BY <2>1 DEF Prepared, Filling
    <2>2. CASE p # Server
      <3>1. Server \in Procs \ {p}
        BY <2>2 DEF Procs
      <3>2. at'[Server] = at[Server] /\ local'[Server].base = local[Server].base
        BY <3>1
      <3>3. QED
        BY <3>2 DEF SetupInv, Prepared, Registering, Slot, Current, Base
    <2>3. QED
      BY <2>1, <2>2
  <1>4. CalmAgrees'
    BY CalmStays
  <1>5. QED
    BY <1>1, <1>2, <1>3, <1>4 DEF SetupInv

\* At the start nothing is ready.
LEMMA InitSetup == Init => SetupInv
  <1> SUFFICES ASSUME Init PROVE SetupInv
    OBVIOUS
  <1>1. \A p \in Procs : Ifaces(p) = {}
    BY DEF Init, Ifaces
  <1>2. Server \in Procs
    BY DEF Procs
  <1>3. QED
    BY <1>1, <1>2 DEF Init, SetupInv, Ordered, Quiet, Prepared, ReadyAgrees, CalmAgrees, CalmAt, Filling

\* The steps of setupIface that belong to no region.
LEMMA StartSetup ==
    ASSUME TypeInv, SetupInv, NEW p \in Procs,
           Start(p) \/ Kill(p) \/ SetupFails(p) \/ SetupDone(p)
    PROVE  SetupInv'
  <1>1. CASE Start(p)
    <2>1. at'[p] = "setup" /\ \A q \in Procs \ {p} : at'[q] = at[q]
      BY <1>1, GotoEffect DEF Start, SetupPCs, TypeInv
    <2>2. sockets[p] = {}
      BY <1>1 DEF Start, SetupInv, Quiet
    <2>3. QED
      BY <1>1, <2>1, <2>2, RunSetup DEF Start, shared, history
  <1>2. CASE SetupDone(p)
    <2>1. at'[p] = "run" /\ \A q \in Procs \ {p} : at'[q] = at[q]
      BY <1>2, GotoEffect DEF SetupDone, TypeInv
    <2>2. QED
      BY <1>2, <2>1, RunSetup DEF SetupDone, shared, history
  <1>3. CASE Kill(p)
    BY <1>3, GoneSetup DEF Kill, shared
  <1>4. CASE SetupFails(p)
    BY <1>4, GoneSetup DEF SetupFails, Exit, shared
  <1>5. QED
    BY <1>1, <1>2, <1>3, <1>4

\* connect, accept and close leave the regions' headers alone.
LEMMA CallSetup ==
    ASSUME TypeInv, SetupInv, NEW p \in Procs,
           \/ ConnectFind(p) \/ ConnectNew(p) \/ ConnectInsert(p)
           \/ Accept(p) \/ Close(p) \/ Fault(p)
    PROVE  SetupInv'
  <1>1. UNCHANGED <<addrFile, header, interfaces, ready, calm>>
    BY DEF ConnectFind, ConnectNew, ConnectInsert, Accept, Close, Fault, shared, process, history
  <1>2. CASE Fault(p)
    BY <1>2 DEF Fault, shared, process, history, SetupInv, Ordered, Quiet, Prepared, ReadyAgrees,
             CalmAgrees, CalmAt, Ifaces, Region, Base, Registering, Slot, Current
  <1>3. CASE ~Fault(p)
    <2>1. at'[p] \in {"run", "new", "insert"} /\ \A q \in Procs \ {p} : at'[q] = at[q]
      BY <1>3, GotoEffect DEF ConnectFind, ConnectNew, ConnectInsert, Accept, AcceptDue, Close, TypeInv
    <2>2. \A q \in Procs \ {p} : local'[q].base = local[q].base
      BY <1>3 DEF ConnectFind, ConnectNew, ConnectInsert, Accept, Close, TypeInv, TypeOK
    <2>3. \A q \in Procs \ {p} : sockets'[q] = sockets[q]
      BY <1>3 DEF ConnectFind, ConnectNew, ConnectInsert, Accept, Close, AddSocket, TypeInv, TypeOK
    <2>4. at[p] # "attach"
      BY <1>3 DEF ConnectFind, ConnectNew, ConnectInsert, Accept, AcceptDue, Close
    <2>5. QED
      BY <1>1, <2>1, <2>2, <2>3, <2>4, RunSetup
  <1>4. QED
    BY <1>2, <1>3

\* The server opens, writes and publishes a region.
LEMMA ServerOpenSetup ==
    ASSUME TypeInv, SetupInv, NEW r \in Regions,
           ServerAttach(r) \/ ServerOpenFile(r) \/ ServerWriteFile(r)
    PROVE  SetupInv'
  <1>1. TypeOK /\ Server \in Procs /\ Server \notin Clients /\ Registering(Server, r)
    BY ProcsAssumption DEF TypeInv, Procs, ServerAttach, ServerOpenFile, ServerWriteFile
  <1>2. \A q \in Regions : Registering(Server, q) => q = r
    BY <1>1 DEF Registering
  <1>3. CASE ServerAttach(r)
    <2>1. at'[Server] = "open" /\ \A q \in Procs \ {Server} : at'[q] = at[q]
      BY <1>1, <1>3, GotoEffect DEF ServerAttach, SetupPCs
    <2>2. \A q \in Procs \ {Server} : local'[q] = local[q]
      BY <1>1, <1>3 DEF ServerAttach, TypeOK
    <2>3. ~ready'[r] /\ \A q \in Regions : ready'[q] => ready[q]
      BY <1>1, <1>3 DEF ServerAttach, TypeOK
    <2>4. sockets[Server] = {}
      BY <1>1, <1>3 DEF SetupInv, Quiet, ServerAttach
    <2>5. UNCHANGED <<shared, interfaces, sockets, calm>>
      BY <1>3 DEF ServerAttach
    <2>6. Ordered' /\ Quiet'
      BY <2>1, <2>4, <2>5 DEF SetupInv, Ordered, Quiet, Ifaces, Region
    <2>7. Prepared'
      BY <1>2, <2>1, <2>3, <2>5 DEF Prepared, Filling, Registering, Slot
    <2>8. ReadyAgrees'
      BY <2>3, <2>5 DEF SetupInv, ReadyAgrees, shared
    <2>10. \A q \in Procs : (at'[q] = "attach" <=> at[q] = "attach")
                         /\ (at[q] = "attach" => local'[q].base = local[q].base)
      BY <1>3, <2>1, <2>2 DEF ServerAttach
    <2>11. CalmAgrees'
      BY <2>5, <2>10, CalmStays DEF shared
    <2>9. QED
      BY <2>6, <2>7, <2>8, <2>11 DEF SetupInv
  <1>4. CASE ServerOpenFile(r)
    <2>1. at'[Server] = "write" /\ \A q \in Procs \ {Server} : at'[q] = at[q]
      BY <1>1, <1>4, GotoEffect DEF ServerOpenFile, SetupPCs
    <2>2. ~ready[r]
      BY <1>1, <1>4 DEF SetupInv, Prepared, ServerOpenFile
    <2>3. \A q \in Regions \ {r} : addrFile'[q] = addrFile[q]
      BY <1>1, <1>4 DEF ServerOpenFile, TypeOK
    <2>4. sockets[Server] = {}
      BY <1>1, <1>4 DEF SetupInv, Quiet, ServerOpenFile
    <2>5. UNCHANGED <<header, interfaces, local, sockets, ready, calm>>
      BY <1>4 DEF ServerOpenFile, history
    <2>6. Ordered' /\ Quiet'
      BY <2>1, <2>4, <2>5 DEF SetupInv, Ordered, Quiet, Ifaces, Region
    <2>7. Prepared'
      BY <1>2, <2>1, <2>2, <2>5 DEF Prepared, Filling, Registering, Slot
    <2>8. ReadyAgrees'
      BY <2>2, <2>3, <2>5 DEF SetupInv, ReadyAgrees
    <2>9. \A q \in Procs : at'[q] = "attach" <=> at[q] = "attach"
      BY <1>4, <2>1 DEF ServerOpenFile
    <2>10. CalmAgrees'
      BY <2>5, <2>9, CalmStays
    <2>11. QED
      BY <2>6, <2>7, <2>8, <2>10 DEF SetupInv
  <1>5. CASE ServerWriteFile(r)
    <2>1. ~ready[r]
      BY <1>1, <1>5 DEF SetupInv, Prepared, ServerWriteFile
    <2>2. addrFile'[r] = local[Server].base /\ \A q \in Regions \ {r} : addrFile'[q] = addrFile[q]
      BY <1>1, <1>5 DEF ServerWriteFile, TypeOK
    <2>3. CASE local[Server].base = NULL
      <3>1. Gone(Server) /\ UNCHANGED <<header, ready>>
        BY <1>5, <2>3 DEF ServerWriteFile, Exit
      <3>2. QED
        BY <1>1, <2>1, <2>2, <3>1, GoneSetup
    <2>4. CASE local[Server].base # NULL
      <3>1. /\ Publish(Server, r, local[Server].base) /\ Goto(Server, "clear")
            /\ UNCHANGED <<header, local, sockets, ready, calm>>
        BY <1>5, <2>4 DEF ServerWriteFile
      <3>2. local[Server].base \in Bases
        BY <1>5, <2>4 DEF TypeInv, CallsOK, ServerWriteFile, Pointers
      <3>3. at'[Server] = "clear" /\ \A q \in Procs \ {Server} : at'[q] = at[q]
        BY <1>1, <3>1, GotoEffect DEF SetupPCs
      <3>4. /\ Len(interfaces'[Server]) = Slot(Server)
            /\ DOMAIN interfaces'[Server] = Ifaces(Server) \union {Slot(Server)}
            /\ \A i \in Ifaces(Server) : interfaces'[Server][i] = interfaces[Server][i]
            /\ interfaces'[Server][Slot(Server)] = [region |-> r, base |-> local[Server].base]
            /\ \A q \in Procs \ {Server} : interfaces'[q] = interfaces[q]
        BY <1>1, <3>1, <3>2, Published DEF Slot
      <3>5. sockets[Server] = {}
        BY <1>1, <1>5 DEF SetupInv, Quiet, ServerWriteFile
      <3>6. Ordered'
        BY <1>1, <3>4 DEF SetupInv, Ordered, Ifaces, Region, Registering
      <3>7. Quiet'
        BY <3>1, <3>3, <3>5 DEF SetupInv, Quiet
      <3>8. \A q \in Regions : Current(q)' => q = r
        BY <3>4 DEF Current
      <3>9. Base(Server, Len(interfaces[Server]))' = local[Server].base
        BY <3>4 DEF Base
      <3>10. Prepared'
        BY <2>1, <2>2, <3>1, <3>3, <3>8, <3>9 DEF Prepared, Filling
      <3>11. ReadyAgrees'
        BY <2>1, <2>2, <3>1 DEF SetupInv, ReadyAgrees
      <3>12. CalmAgrees'
        <4>1. at[Server] = "write"
          BY <1>5 DEF ServerWriteFile
        <4>2. ~calm[Server][r]
          BY <1>1, <4>1, RegionOnce DEF SetupInv, CalmAgrees, CalmAt
        <4>3. ASSUME NEW q \in Regions, calm[Server][q]
              PROVE  /\ \E i \in Ifaces(Server)' : Region(Server, i)' = q
                     /\ \A i \in Ifaces(Server)' : Region(Server, i)' = q =>
                          Base(Server, i)' = header[q].list
          <5>1. \E i \in Ifaces(Server) : Region(Server, i) = q
            BY <1>1, <4>1, <4>3 DEF SetupInv, CalmAgrees, CalmAt
          <5>2. \A i \in Ifaces(Server) : Region(Server, i) = q => Base(Server, i) = header[q].list
            BY <1>1, <4>3 DEF SetupInv, CalmAgrees, CalmAt
          <5>3. q # r
            BY <4>2, <4>3
          <5>4. \A i \in Ifaces(Server) : Region(Server, i)' = Region(Server, i)
                                        /\ Base(Server, i)' = Base(Server, i)
            BY <3>4 DEF Region, Base
          <5>6. \A i \in Ifaces(Server)' : i \in Ifaces(Server) \/ interfaces'[Server][i].region = r
            BY <3>4 DEF Ifaces
          <5>7. Ifaces(Server) \subseteq Ifaces(Server)'
            BY <3>4 DEF Ifaces
          <5>8. QED
            BY <5>1, <5>2, <5>3, <5>4, <5>6, <5>7 DEF Region
        <4>4. ASSUME NEW p \in Procs \ {Server} PROVE /\ at'[p] = at[p] /\ interfaces'[p] = interfaces[p]
                                                      /\ local'[p] = local[p] /\ calm'[p] = calm[p]
          BY <3>1, <3>3, <3>4
        <4>5. ASSUME NEW p \in Procs \ {Server}, NEW q \in Regions, calm[p][q]
              PROVE  /\ \/ \E i \in Ifaces(p)' : Region(p, i)' = q
                        \/ at'[p] = "attach" /\ Registering(p, q)'
                     /\ \A i \in Ifaces(p)' : Region(p, i)' = q => Base(p, i)' = header[q].list
                     /\ at'[p] = "attach" /\ Registering(p, q)' => local'[p].base = header[q].list
          BY <4>4, <4>5 DEF SetupInv, CalmAgrees, CalmAt, Ifaces, Region, Base, Registering, Slot
        <4>6. at'[Server] # "attach"
          BY <3>3
        <4>7. header' = header /\ calm' = calm
          BY <3>1
        <4>8. \A p \in Procs, q \in Regions : calm[p][q] =>
                header[q].list \in Bases /\ header[q].mctx = header[q].list
          BY DEF SetupInv, CalmAgrees, CalmAt
        <4>9. QED
          BY <4>3, <4>5, <4>6, <4>7, <4>8 DEF CalmAgrees, CalmAt
      <3>13. QED
        BY <3>6, <3>7, <3>10, <3>11, <3>12 DEF SetupInv
    <2>5. QED
      BY <2>3, <2>4
  <1>6. QED
    BY <1>3, <1>4, <1>5

\* The server clears and initialises a region.
LEMMA ServerFillSetup ==
    ASSUME TypeInv, SetupInv, NEW r \in Regions,
           ServerClear(r) \/ ServerFill(r) \/ ServerHeap(r) \/ ServerList(r)
    PROVE  SetupInv'
  <1>1. TypeOK /\ Server \in Procs /\ Current(r) /\ at[Server] \in Filling
    BY DEF TypeInv, Procs, ServerClear, ServerFill, ServerHeap, ServerList, Filling
  <1>2. \A q \in Regions : Current(q) => q = r
    BY <1>1 DEF Current
  <1>3. ~ready[r] /\ addrFile[r] = local[Server].base /\ local[Server].base \in Bases
        /\ Base(Server, Len(interfaces[Server])) = local[Server].base
    BY <1>1 DEF SetupInv, Prepared, TypeInv, CallsOK
  <1>4. UNCHANGED <<addrFile, interfaces, local, sockets>>
    BY DEF ServerClear, ServerFill, ServerHeap, ServerList
  <1>5. \E l \in (Filling \ {"clear"}) \union {"setup"} :
          at'[Server] = l /\ \A q \in Procs \ {Server} : at'[q] = at[q]
    BY <1>1, GotoEffect DEF ServerClear, ServerFill, ServerHeap, ServerList, SetupPCs, Filling
  <1>6. sockets[Server] = {}
    BY <1>1 DEF SetupInv, Quiet, Filling
  <1>7. Ordered'
    BY <1>4 DEF SetupInv, Ordered, Ifaces, Region
  <1>8. Quiet'
    BY <1>4, <1>5, <1>6 DEF SetupInv, Quiet
  <1>9. \A q \in Regions \ {r} : header'[q] = header[q] /\ ready'[q] = ready[q]
    BY <1>1 DEF TypeOK, ServerClear, ServerFill, ServerHeap, ServerList, history
  <1>10. \A p \in Procs, q \in Regions \ {r} : calm'[p][q] = calm[p][q]
    <2>1. calm \in [Procs -> [Regions -> BOOLEAN]]
      BY <1>1 DEF TypeOK
    <2>2. CASE ServerClear(r)
      BY <2>1, <2>2 DEF ServerClear
    <2>3. CASE ServerFill(r) \/ ServerHeap(r)
      BY <2>3 DEF ServerFill, ServerHeap, history
    <2>4. CASE ServerList(r)
      BY <2>1, <2>4 DEF ServerList
    <2>5. QED
      BY <2>2, <2>3, <2>4
  <1>11. CASE ~ServerList(r)
    <2>1. \A p \in Procs : ~calm'[p][r]
      <3>1. CASE ServerClear(r)
        BY <1>1, <3>1 DEF ServerClear, TypeOK
      <3>2. CASE ServerFill(r) \/ ServerHeap(r)
        BY <1>1, <3>2 DEF ServerFill, ServerHeap, history, SetupInv, Prepared, Filling
      <3>3. QED
        BY <1>11, <3>1, <3>2
    <2>2. ready' = ready
      BY <1>11 DEF ServerClear, ServerFill, ServerHeap, history
    <2>3. at'[Server] = "list" => header'[r].mctx = local[Server].base
      <3>1. CASE ServerClear(r) \/ ServerFill(r)
        BY <1>1, <3>1, GotoEffect DEF ServerClear, ServerFill, SetupPCs
      <3>2. CASE ServerHeap(r)
        BY <1>1, <3>2 DEF ServerHeap, TypeOK
      <3>3. QED
        BY <1>11, <3>1, <3>2
    <2>4. Current(r)' = Current(r) /\ \A q \in Regions : Current(q)' = Current(q)
      BY <1>4 DEF Current
    <2>5. at'[Server] \in Filling \union {"setup"}
      BY <1>5
    <2>6. Prepared'
      BY <1>2, <1>3, <1>4, <2>1, <2>2, <2>3, <2>4, <2>5 DEF Prepared, Filling, Base
    <2>7. ReadyAgrees'
      BY <1>3, <1>4, <1>9, <2>2 DEF SetupInv, ReadyAgrees
    <2>8. CalmAgrees'
      <3>1. ASSUME NEW p \in Procs, NEW q \in Regions, calm'[p][q]
            PROVE  calm[p][q] /\ q # r /\ header'[q] = header[q]
        BY <1>9, <1>10, <2>1, <3>1
      <3>2. \A p \in Procs : at'[p] = "attach" <=> at[p] = "attach"
        BY <1>1, <1>5 DEF Filling
      <3>3. QED
        BY <1>4, <3>1, <3>2 DEF SetupInv, CalmAgrees, CalmAt, Ifaces, Region, Base, Registering, Slot
    <2>9. QED
      BY <1>7, <1>8, <2>6, <2>7, <2>8 DEF SetupInv
  <1>12. CASE ServerList(r)
    <2>1. at[Server] = "list" /\ at'[Server] = "setup"
      BY <1>1, <1>12, GotoEffect DEF ServerList, SetupPCs
    <2>2. header'[r].list = local[Server].base /\ header'[r].mctx = header[r].mctx
      BY <1>1, <1>12 DEF ServerList, TypeOK
    <2>3. header[r].mctx = local[Server].base /\ \A p \in Procs : ~calm[p][r]
      BY <1>1, <2>1 DEF SetupInv, Prepared, Filling
    <2>4. Prepared'
      BY <2>1 DEF Prepared, Filling
    <2>5. ReadyAgrees'
      BY <1>3, <1>4, <1>9, <2>2, <2>3 DEF SetupInv, ReadyAgrees
    <2>6. calm'[Server][r] /\ \A p \in Procs \ {Server} : ~calm'[p][r]
      BY <1>1, <1>12, <2>3 DEF ServerList, TypeOK
    <2>7. /\ Len(interfaces[Server]) \in Ifaces(Server)
          /\ Region(Server, Len(interfaces[Server])) = r
      BY <1>1 DEF Current, Ifaces, Region, TypeOK
    <2>8. \A i \in Ifaces(Server) : Region(Server, i) = r => Base(Server, i) = local[Server].base
      BY <1>1, <1>3, <2>7, RegionOnce DEF SetupInv
    <2>9. CalmAgrees'
      <3>1. ASSUME NEW p \in Procs, NEW q \in Regions \ {r}, calm'[p][q]
            PROVE  calm[p][q] /\ header'[q] = header[q]
        BY <1>9, <1>10, <3>1
      <3>2. \A p \in Procs : at'[p] = "attach" <=> at[p] = "attach"
        BY <1>1, <1>5 DEF Filling
      <3>3. at'[Server] # "attach"
        BY <2>1
      <3>4. QED
        BY <1>3, <1>4, <2>2, <2>3, <2>6, <2>7, <2>8, <3>1, <3>2, <3>3
           DEF SetupInv, CalmAgrees, CalmAt, Ifaces, Region, Base, Registering, Slot
    <2>10. QED
      BY <1>7, <1>8, <2>4, <2>5, <2>9 DEF SetupInv
  <1>13. QED
    BY <1>11, <1>12

\* A client reads the address and maps the region.
LEMMA ClientSetup ==
    ASSUME TypeInv, SetupInv, NEW c \in Clients,
           (\E r \in Regions : ClientRead(c, r) \/ ClientAttach(c, r)) \/ ClientAttachFails(c)
    PROVE  SetupInv'
  <1>1. TypeOK /\ c \in Procs /\ Server \in Procs /\ c # Server
    BY ProcsAssumption DEF TypeInv, Procs
  <1>2. ASSUME NEW r \in Regions, ClientRead(c, r) PROVE SetupInv'
    <2>1. at'[c] = "attach" /\ \A q \in Procs \ {c} : at'[q] = at[q]
      BY <1>1, <1>2, GotoEffect DEF ClientRead, SetupPCs
    <2>2. local'[c].base = addrFile[r] /\ \A q \in Procs \ {c} : local'[q] = local[q]
      BY <1>1, <1>2 DEF ClientRead, TypeOK
    <2>3. /\ calm'[c][r] = ready[r] /\ \A q \in Regions \ {r} : calm'[c][q] = calm[c][q]
          /\ \A p \in Procs \ {c} : calm'[p] = calm[p]
      BY <1>1, <1>2 DEF ClientRead, TypeOK
    <2>4. UNCHANGED <<shared, interfaces, sockets, ready>> /\ Registering(c, r) /\ at[c] = "setup"
      BY <1>2 DEF ClientRead
    <2>5. Ordered' /\ ReadyAgrees'
      BY <2>4 DEF SetupInv, Ordered, ReadyAgrees, Ifaces, Region, shared
    <2>6. Quiet'
      BY <2>1, <2>4 DEF SetupInv, Quiet
    <2>7. at'[Server] = at[Server] /\ local'[Server] = local[Server]
      BY <1>1, <2>1, <2>2
    <2>8. \A q \in Regions : Current(q)' = Current(q) /\ Registering(Server, q)' = Registering(Server, q)
      BY <2>4 DEF Current, Registering, Slot
    <2>9. at[Server] \in Filling /\ Current(r) => ~ready[r]
      BY DEF SetupInv, Prepared
    <2>10. Prepared'
      BY <1>1, <2>3, <2>4, <2>7, <2>8, <2>9 DEF SetupInv, Prepared, Base, shared, Filling
    <2>11. \A q \in Regions : Registering(c, q) => q = r
      BY <2>4 DEF Registering
    <2>12. \A i \in Ifaces(c) : Region(c, i) # r
      BY <1>1, <2>4, RegionOnce DEF SetupInv
    <2>13. \A p \in Procs : /\ Ifaces(p)' = Ifaces(p)
                            /\ \A i \in Ifaces(p) : Region(p, i)' = Region(p, i) /\ Base(p, i)' = Base(p, i)
                           /\ \A q \in Regions : Registering(p, q)' <=> Registering(p, q)
      BY <2>4 DEF Ifaces, Region, Base, Registering, Slot
    <2>14. header' = header
      BY <2>4 DEF shared
    <2>15. ASSUME NEW p \in Procs, NEW q \in Regions, calm'[p][q]
           PROVE  CalmAt(p, q)'
      <3>1. CASE p = c /\ q = r
        <4>1. ready[r]
          BY <2>3, <2>15, <3>1
        <4>2. header[r].list = addrFile[r] /\ header[r].mctx = addrFile[r] /\ addrFile[r] \in Bases
          BY <4>1 DEF SetupInv, ReadyAgrees
        <4>3. Registering(c, r)'
          BY <2>4 DEF Registering, Slot
        <4>4. QED
          BY <1>1, <2>1, <2>2, <2>12, <2>13, <2>14, <3>1, <4>2, <4>3 DEF CalmAt
      <3>2. CASE p = c /\ q # r
        <4>1. CalmAt(p, q)
          BY <2>3, <2>15, <3>2 DEF SetupInv, CalmAgrees
        <4>2. ~Registering(c, q) /\ ~Registering(c, q)'
          BY <2>4, <2>11, <3>2 DEF Registering, Slot
        <4>3. QED
          BY <2>4, <2>13, <2>14, <3>2, <4>1, <4>2 DEF CalmAt
      <3>3. CASE p # c
        <4>1. CalmAt(p, q)
          BY <2>3, <2>15, <3>3 DEF SetupInv, CalmAgrees
        <4>2. QED
          BY <2>1, <2>2, <2>4, <2>14, <3>3, <4>1, CalmKept
      <3>4. QED
        BY <3>1, <3>2, <3>3
    <2>16. CalmAgrees'
      BY <2>15 DEF CalmAgrees
    <2>17. QED
      BY <2>5, <2>6, <2>10, <2>16 DEF SetupInv
  <1>3. ASSUME NEW r \in Regions, ClientAttach(c, r) PROVE SetupInv'
    <2>1. PICK b \in Bases : local[c].base \in {b, NULL, Empty} /\ Publish(c, r, b)
      BY <1>3 DEF ClientAttach
    <2>2. at'[c] = "setup" /\ \A q \in Procs \ {c} : at'[q] = at[q]
      BY <1>1, <1>3, GotoEffect DEF ClientAttach, SetupPCs
    <2>3. UNCHANGED <<shared, local, sockets, ready, calm>> /\ Registering(c, r) /\ at[c] = "attach"
      BY <1>3 DEF ClientAttach, history
    <2>4. /\ DOMAIN interfaces'[c] = Ifaces(c) \union {Slot(c)}
          /\ \A i \in Ifaces(c) : interfaces'[c][i] = interfaces[c][i]
          /\ interfaces'[c][Slot(c)] = [region |-> r, base |-> b]
          /\ \A q \in Procs \ {c} : interfaces'[q] = interfaces[q]
      BY <1>1, <2>1, Published
    <2>5. Ordered'
      BY <1>1, <2>3, <2>4 DEF SetupInv, Ordered, Ifaces, Region, Registering
    <2>6. Quiet'
      BY <2>2, <2>3 DEF SetupInv, Quiet
    <2>7. interfaces'[Server] = interfaces[Server] /\ at'[Server] = at[Server]
      BY <1>1, <2>2, <2>4
    <2>8. Prepared' /\ ReadyAgrees'
      BY <2>3, <2>7 DEF SetupInv, Prepared, ReadyAgrees, Registering, Slot, Current, Base, shared
    <2>9. \A q \in Regions : Registering(c, q) => q = r
      BY <2>3 DEF Registering
    <2>10. header' = header
      BY <2>3 DEF shared
    <2>11. \A i \in Ifaces(c) : Region(c, i)' = Region(c, i) /\ Base(c, i)' = Base(c, i)
      BY <2>4 DEF Region, Base
    <2>12. /\ \A i \in Ifaces(c)' : i \in Ifaces(c) \/ (Region(c, i)' = r /\ Base(c, i)' = b)
           /\ Ifaces(c) \subseteq Ifaces(c)'
           /\ \E i \in Ifaces(c)' : Region(c, i)' = r
      BY <2>4 DEF Ifaces, Region, Base
    <2>13. ASSUME NEW q \in Regions, calm[c][q]
           PROVE  /\ \E i \in Ifaces(c)' : Region(c, i)' = q
                  /\ \A i \in Ifaces(c)' : Region(c, i)' = q => Base(c, i)' = header[q].list
      <3>1. CASE q = r
        <4>1. local[c].base = header[r].list /\ header[r].list \in Bases
          BY <1>1, <2>3, <2>13, <3>1 DEF SetupInv, CalmAgrees, CalmAt
        <4>2. b = header[r].list
          BY <2>1, <4>1, PointerAssumption
        <4>3. \A i \in Ifaces(c) : Region(c, i) # r
          BY <1>1, <2>3, RegionOnce DEF SetupInv
        <4>4. QED
          BY <2>11, <2>12, <3>1, <4>2, <4>3
      <3>2. CASE q # r
        BY <1>1, <2>3, <2>9, <2>11, <2>12, <2>13, <3>2 DEF SetupInv, CalmAgrees, CalmAt
      <3>3. QED
        BY <3>1, <3>2
    <2>14. ASSUME NEW p \in Procs \ {c}, NEW q \in Regions, calm[p][q]
           PROVE  /\ \/ \E i \in Ifaces(p)' : Region(p, i)' = q
                     \/ at'[p] = "attach" /\ Registering(p, q)'
                  /\ \A i \in Ifaces(p)' : Region(p, i)' = q => Base(p, i)' = header[q].list
                  /\ at'[p] = "attach" /\ Registering(p, q)' => local'[p].base = header[q].list
      BY <2>2, <2>3, <2>4, <2>14 DEF SetupInv, CalmAgrees, CalmAt, Ifaces, Region, Base, Registering, Slot
    <2>15. CalmAgrees'
      <3>1. \A p \in Procs, q \in Regions : calm[p][q] =>
              header[q].list \in Bases /\ header[q].mctx = header[q].list
        BY DEF SetupInv, CalmAgrees, CalmAt
      <3>2. at'[c] # "attach" /\ calm' = calm
        BY <2>2, <2>3
      <3>3. QED
        BY <2>10, <2>13, <2>14, <3>1, <3>2 DEF CalmAgrees, CalmAt
    <2>16. QED
      BY <2>5, <2>6, <2>8, <2>15 DEF SetupInv
  <1>4. CASE ClientAttachFails(c)
    BY <1>1, <1>4, GoneSetup DEF ClientAttachFails, Exit, shared
  <1>5. QED
    BY <1>2, <1>3, <1>4

\* Setting up regions keeps the pointers good that were read in time.
LEMMA SetupStep ==
    ASSUME TypeInv, SetupInv, [Next]_vars
    PROVE  SetupInv'
  <1>1. CASE UNCHANGED vars
    BY <1>1 DEF vars, shared, process, history, SetupInv, Ordered, Quiet, Prepared, ReadyAgrees,
             CalmAgrees, CalmAt, Ifaces, Region, Base, Registering, Slot, Current
  <1>2. QED
    BY <1>1, NextCases, StartSetup, CallSetup, ServerOpenSetup, ServerFillSetup, ClientSetup

---------------------------------------------------------------------------
(* The sockets on a connection                                            *)

\* Sockets are of connections in a region of the process.
Sockets ==
    /\ \A p \in Procs : \A s \in sockets[p] :
         /\ s.epoch <= epoch[s.region]
         /\ \E i \in Ifaces(p) : Region(p, i) = s.region
    /\ \A p \in Procs : at[p] = "insert" => local[p].epoch <= epoch[Region(p, local[p].iface)]

\* Who may have the connection, by its state.
HeldAt(r, k) ==
    LET st == conn[r][k].state IN
    /\ st # "new" => \A p \in Procs : ~Inserts(p, r, k)
    /\ st \in {"free", "new"} => \A p \in Procs : ~Has(p, r, k)
    /\ st = "new" => \A p \in Procs : Inserts(p, r, k) => p = conn[r][k].by
    /\ st = "create" => \A p \in Procs : Has(p, r, k) => p = conn[r][k].by
    /\ st = "close" => \A p, q \in Procs : Has(p, r, k) /\ Has(q, r, k) => p = q

\* Who has it, if no process was killed that had a connection there.
ReturnedAt(r, k) ==
    LET st == conn[r][k].state IN
    \/ orphaned[r]
    \/ st = "free"
    \/ st = "new" /\ \E p \in Procs : Inserts(p, r, k)
    \/ st \in {"create", "close"} /\ \E p \in Procs : Has(p, r, k)
    \/ st = "open" /\ \E p, q \in Procs : p # q /\ Has(p, r, k) /\ Has(q, r, k)

Held     == \A r \in Regions, k \in Blocks : HeldAt(r, k)
Returned == \A r \in Regions, k \in Blocks : ReturnedAt(r, k)

HolderInv == Sockets /\ Held /\ Returned

\* A process that goes on as it was has the same connections.
LEMMA UseKept ==
    ASSUME NEW p \in Procs, NEW r \in Regions, NEW k \in Blocks, epoch'[r] = epoch[r],
           sockets'[p] = sockets[p], at'[p] = "insert" <=> at[p] = "insert",
           at[p] = "insert" => local'[p] = local[p] /\ interfaces'[p] = interfaces[p]
    PROVE  (Has(p, r, k)' <=> Has(p, r, k)) /\ (Inserts(p, r, k)' <=> Inserts(p, r, k))
  BY DEF Has, Inserts

\* A connection whose users stay the same.
LEMMA HeldKept ==
    ASSUME NEW r \in Regions, NEW k \in Blocks, HeldAt(r, k), ReturnedAt(r, k),
           conn'[r][k] = conn[r][k], orphaned'[r] = orphaned[r],
           \A p \in Procs : (Has(p, r, k)' <=> Has(p, r, k)) /\ (Inserts(p, r, k)' <=> Inserts(p, r, k))
    PROVE  HeldAt(r, k)' /\ ReturnedAt(r, k)'
  BY DEF HeldAt, ReturnedAt

\* Steps that touch no connection.
LEMMA HolderKept ==
    ASSUME TypeInv, HolderInv, UNCHANGED <<conn, epoch, sockets, orphaned>>,
           \A q \in Procs : /\ at'[q] = "insert" <=> at[q] = "insert"
                            /\ at[q] = "insert" => local'[q] = local[q] /\ interfaces'[q] = interfaces[q]
                            /\ \A i \in Ifaces(q) : i \in DOMAIN interfaces'[q]
                                                    /\ interfaces'[q][i] = interfaces[q][i]
    PROVE  HolderInv'
  <1>4. \A q \in Procs : Ifaces(q) \subseteq DOMAIN interfaces'[q]
                       /\ \A i \in Ifaces(q) : interfaces'[q][i].region = Region(q, i)
    BY DEF Region
  <1>5. ASSUME NEW p \in Procs, NEW s \in sockets[p]
        PROVE  s.epoch <= epoch[s.region] /\ \E i \in DOMAIN interfaces'[p] : interfaces'[p][i].region = s.region
    BY <1>4, <1>5 DEF HolderInv, Sockets
  <1>6. ASSUME NEW p \in Procs, at'[p] = "insert"
        PROVE  local'[p].epoch <= epoch[interfaces'[p][local'[p].iface].region]
    BY <1>6 DEF HolderInv, Sockets, Region
  <1>1. Sockets'
    BY <1>5, <1>6 DEF Sockets, Ifaces, Region
  <1>2. ASSUME NEW r \in Regions, NEW k \in Blocks PROVE HeldAt(r, k)' /\ ReturnedAt(r, k)'
    <2>1. ASSUME NEW p \in Procs
          PROVE  (Has(p, r, k)' <=> Has(p, r, k)) /\ (Inserts(p, r, k)' <=> Inserts(p, r, k))
      <3>1. /\ epoch'[r] = epoch[r] /\ sockets'[p] = sockets[p]
            /\ at'[p] = "insert" <=> at[p] = "insert"
            /\ at[p] = "insert" => local'[p] = local[p] /\ interfaces'[p] = interfaces[p]
        BY <2>1
      <3>2. QED
        BY <3>1, UseKept
    <2>2. HeldAt(r, k) /\ ReturnedAt(r, k)
      BY DEF HolderInv, Held, Returned
    <2>3. QED
      BY <2>1, <2>2, HeldKept
  <1>3. QED
    BY <1>1, <1>2 DEF HolderInv, Held, Returned

\* A process ends, and its connections are orphans.
LEMMA HolderGone ==
    ASSUME TypeInv, HolderInv, NEW p \in Procs, Gone(p), UNCHANGED <<conn, epoch>>,
           \A r \in Regions : orphaned[r] \/ Uses(p, r) => orphaned'[r]
    PROVE  HolderInv'
  <1>1. /\ at'[p] = "down" /\ sockets'[p] = {}
        /\ \A q \in Procs \ {p} :
             /\ at'[q] = at[q] /\ interfaces'[q] = interfaces[q] /\ local'[q] = local[q]
             /\ sockets'[q] = sockets[q]
    BY GoneTypes DEF TypeInv
  <1>2. Sockets'
    BY <1>1 DEF HolderInv, Sockets, Ifaces, Region
  <1>3. ASSUME NEW r \in Regions, NEW k \in Blocks PROVE HeldAt(r, k)' /\ ReturnedAt(r, k)'
    <2>1. HeldAt(r, k) /\ ReturnedAt(r, k)
      BY DEF HolderInv, Held, Returned
    <2>2. ASSUME NEW q \in Procs \ {p}
          PROVE  (Has(q, r, k)' <=> Has(q, r, k)) /\ (Inserts(q, r, k)' <=> Inserts(q, r, k))
      BY <1>1, UseKept
    <2>3. ~Has(p, r, k)' /\ ~Inserts(p, r, k)'
      BY <1>1 DEF Has, Inserts
    <2>4. HeldAt(r, k)'
      BY <2>1, <2>2, <2>3 DEF HeldAt
    <2>5. Has(p, r, k) \/ Inserts(p, r, k) => orphaned'[r]
      BY DEF Uses
    <2>6. orphaned[r] => orphaned'[r]
      OBVIOUS
    <2>7. ReturnedAt(r, k)'
      BY <2>1, <2>2, <2>5, <2>6 DEF ReturnedAt
    <2>8. QED
      BY <2>4, <2>7
  <1>4. QED
    BY <1>2, <1>3 DEF HolderInv, Held, Returned

\* At the start there is no connection and no socket.
LEMMA InitHolders == Init => HolderInv
  <1> SUFFICES ASSUME Init PROVE HolderInv
    OBVIOUS
  <1>1. \A r \in Regions, k \in Blocks : HeldAt(r, k) /\ ReturnedAt(r, k)
    BY DEF Init, HeldAt, ReturnedAt, Has, Inserts, Free
  <1>2. QED
    BY <1>1 DEF Init, HolderInv, Held, Returned, Sockets

\* A process uses at most one connection for each state of the other side: two
\* processes that are not the server do not share a region.
LEMMA TwoProcs ==
    ASSUME TypeOK, Ordered, Sockets, NEW r \in Regions, NEW k \in Blocks,
           NEW p \in Procs, NEW q \in Procs, p # Server, q # Server, Has(p, r, k), Has(q, r, k)
    PROVE  p = q
  <1>1. PICK i \in Ifaces(p) : Region(p, i) = r
    BY DEF Has, Sockets
  <1>2. PICK j \in Ifaces(q) : Region(q, j) = r
    BY DEF Has, Sockets
  <1>3. i \in DOMAIN Setup[p] /\ j \in DOMAIN Setup[q] /\ Setup[p][i] = Setup[q][j]
    BY <1>1, <1>2 DEF Ordered
  <1>4. p \in Clients /\ q \in Clients
    BY DEF Procs
  <1>5. QED
    BY <1>3, <1>4, SetupAssumption

\* Setup touches no connection, but for the server's memset.
LEMMA SetupHolders ==
    ASSUME TypeInv, SetupInv, HolderInv,
           \/ \E p \in Procs : Start(p) \/ Kill(p) \/ SetupFails(p) \/ SetupDone(p)
           \/ \E c \in Clients : \/ \E r \in Regions : ClientRead(c, r) \/ ClientAttach(c, r)
                                 \/ ClientAttachFails(c)
    PROVE  HolderInv'
  <1>1. TypeOK /\ Clients \subseteq Procs
    BY DEF TypeInv, Procs
  <1>2. ASSUME NEW p \in Procs, Gone(p), UNCHANGED <<conn, epoch, orphaned>>,
               at[p] \in {"setup", "attach"}
        PROVE  HolderInv'
    <2>1. sockets[p] = {}
      BY <1>2 DEF SetupInv, Quiet
    <2>2. \A r \in Regions : ~Uses(p, r)
      BY <1>2, <2>1 DEF Uses, Has, Inserts
    <2>3. QED
      BY <1>2, <2>2, HolderGone
  <1>3. ASSUME NEW p \in Procs, Start(p) PROVE HolderInv'
    <2>1. at[p] = "down" /\ at'[p] = "setup" /\ \A q \in Procs \ {p} : at'[q] = at[q]
      BY <1>1, <1>3, GotoEffect DEF Start, SetupPCs
    <2>2. UNCHANGED <<conn, epoch, sockets, orphaned, local, interfaces>>
      BY <1>3 DEF Start, shared, history
    <2>3. QED
      BY <2>1, <2>2, HolderKept DEF Ifaces
  <1>4. ASSUME NEW p \in Procs, SetupDone(p) PROVE HolderInv'
    <2>1. at[p] = "setup" /\ at'[p] = "run" /\ \A q \in Procs \ {p} : at'[q] = at[q]
      BY <1>1, <1>4, GotoEffect DEF SetupDone
    <2>2. UNCHANGED <<conn, epoch, sockets, orphaned, local, interfaces>>
      BY <1>4 DEF SetupDone, shared, history
    <2>3. QED
      BY <2>1, <2>2, HolderKept DEF Ifaces
  <1>5. ASSUME NEW p \in Procs, Kill(p) PROVE HolderInv'
    <2>1. \A r \in Regions : orphaned'[r] = (orphaned[r] \/ Uses(p, r))
      BY <1>5 DEF Kill
    <2>2. Gone(p) /\ UNCHANGED <<conn, epoch>>
      BY <1>5 DEF Kill, shared
    <2>3. QED
      BY <2>1, <2>2, HolderGone
  <1>6. ASSUME NEW p \in Procs, SetupFails(p) PROVE HolderInv'
    BY <1>2, <1>6 DEF SetupFails, Exit, shared
  <1>7. ASSUME NEW c \in Clients, ClientAttachFails(c) PROVE HolderInv'
    BY <1>1, <1>2, <1>7 DEF ClientAttachFails, Exit, shared
  <1>8. ASSUME NEW c \in Clients, NEW r \in Regions, ClientRead(c, r) PROVE HolderInv'
    <2>1. at[c] = "setup" /\ at'[c] = "attach" /\ \A q \in Procs \ {c} : at'[q] = at[q]
      BY <1>1, <1>8, GotoEffect DEF ClientRead, SetupPCs
    <2>2. \A q \in Procs \ {c} : local'[q] = local[q]
      BY <1>1, <1>8 DEF ClientRead, TypeOK
    <2>3. UNCHANGED <<conn, epoch, sockets, orphaned, interfaces>>
      BY <1>8 DEF ClientRead, shared
    <2>4. QED
      BY <2>1, <2>2, <2>3, HolderKept DEF Ifaces
  <1>9. ASSUME NEW c \in Clients, NEW r \in Regions, ClientAttach(c, r) PROVE HolderInv'
    <2>1. at[c] = "attach" /\ at'[c] = "setup" /\ \A q \in Procs \ {c} : at'[q] = at[q]
      BY <1>1, <1>9, GotoEffect DEF ClientAttach, SetupPCs
    <2>2. PICK b \in Bases : Publish(c, r, b)
      BY <1>9 DEF ClientAttach
    <2>3. /\ DOMAIN interfaces'[c] = Ifaces(c) \union {Slot(c)}
          /\ \A i \in Ifaces(c) : interfaces'[c][i] = interfaces[c][i]
          /\ \A q \in Procs \ {c} : interfaces'[q] = interfaces[q]
      BY <1>1, <2>2, Published
    <2>4. UNCHANGED <<conn, epoch, sockets, orphaned, local>>
      BY <1>9 DEF ClientAttach, shared, history
    <2>5. \A q \in Procs : \A i \in Ifaces(q) : /\ i \in DOMAIN interfaces'[q]
                                              /\ interfaces'[q][i] = interfaces[q][i]
      BY <2>3 DEF Ifaces
    <2>6. QED
      BY <2>1, <2>3, <2>4, <2>5, HolderKept
  <1>10. QED
    BY <1>3, <1>4, <1>5, <1>6, <1>7, <1>8, <1>9

\* The server's setup: memset frees every connection, and no socket is of the
\* new epoch.
LEMMA ServerHolders ==
    ASSUME TypeInv, SetupInv, HolderInv, NEW r \in Regions,
           \/ ServerAttach(r) \/ ServerOpenFile(r) \/ ServerWriteFile(r)
           \/ ServerClear(r) \/ ServerFill(r) \/ ServerHeap(r) \/ ServerList(r)
    PROVE  HolderInv'
  <1>1. TypeOK /\ Server \in Procs
    BY DEF TypeInv, Procs
  <1>2. CASE ServerWriteFile(r) /\ local[Server].base = NULL
    <2>1. Gone(Server) /\ UNCHANGED <<conn, epoch, orphaned>> /\ at[Server] = "write"
      BY <1>2 DEF ServerWriteFile, Exit
    <2>2. sockets[Server] = {}
      BY <1>1, <2>1 DEF SetupInv, Quiet
    <2>3. \A q \in Regions : ~Uses(Server, q)
      BY <2>1, <2>2 DEF Uses, Has, Inserts
    <2>4. QED
      BY <1>1, <2>1, <2>3, HolderGone
  <1>3. CASE ServerWriteFile(r) /\ local[Server].base # NULL
    <2>1. /\ Publish(Server, r, local[Server].base) /\ Goto(Server, "clear") /\ at[Server] = "write"
          /\ UNCHANGED <<conn, local, sockets, orphaned, epoch>>
      BY <1>3 DEF ServerWriteFile
    <2>2. local[Server].base \in Bases
      BY <1>3 DEF TypeInv, CallsOK, ServerWriteFile, Pointers
    <2>3. at'[Server] = "clear" /\ \A q \in Procs \ {Server} : at'[q] = at[q]
      BY <1>1, <2>1, GotoEffect DEF SetupPCs
    <2>4. /\ DOMAIN interfaces'[Server] = Ifaces(Server) \union {Slot(Server)}
          /\ \A i \in Ifaces(Server) : interfaces'[Server][i] = interfaces[Server][i]
          /\ \A q \in Procs \ {Server} : interfaces'[q] = interfaces[q]
      BY <1>1, <2>1, <2>2, Published
    <2>5. \A q \in Procs : \A i \in Ifaces(q) : /\ i \in DOMAIN interfaces'[q]
                                              /\ interfaces'[q][i] = interfaces[q][i]
      BY <2>4 DEF Ifaces
    <2>6. QED
      BY <2>1, <2>3, <2>4, <2>5, HolderKept
  <1>4. CASE ServerAttach(r) \/ ServerOpenFile(r) \/ ServerFill(r) \/ ServerHeap(r) \/ ServerList(r)
    <2>1. at[Server] # "insert" /\ at'[Server] # "insert" /\ \A q \in Procs \ {Server} : at'[q] = at[q]
      BY <1>1, <1>4, GotoEffect
         DEF ServerAttach, ServerOpenFile, ServerFill, ServerHeap, ServerList, SetupPCs
    <2>2. \A q \in Procs \ {Server} : local'[q] = local[q]
      BY <1>1, <1>4 DEF ServerAttach, ServerOpenFile, ServerFill, ServerHeap, ServerList, TypeOK
    <2>3. UNCHANGED <<conn, epoch, sockets, orphaned, interfaces>>
      BY <1>4 DEF ServerAttach, ServerOpenFile, ServerFill, ServerHeap, ServerList, shared, history
    <2>4. QED
      BY <2>1, <2>2, <2>3, HolderKept DEF Ifaces
  <1>5. CASE ServerClear(r)
    <2>1. at[Server] # "insert" /\ at'[Server] # "insert" /\ \A q \in Procs \ {Server} : at'[q] = at[q]
      BY <1>1, <1>5, GotoEffect DEF ServerClear, SetupPCs
    <2>2. /\ epoch'[r] = epoch[r] + 1 /\ epoch[r] \in Nat
          /\ \A q \in Regions \ {r} : /\ epoch'[q] = epoch[q] /\ conn'[q] = conn[q]
                                      /\ orphaned'[q] = orphaned[q]
          /\ \A k \in Blocks : conn'[r][k] = Free
      BY <1>1, <1>5 DEF ServerClear, TypeOK
    <2>3. UNCHANGED <<interfaces, local, sockets>>
      BY <1>5 DEF ServerClear
    <2>4. \A p \in Procs : \A s \in sockets[p] : s.region \in Regions /\ s.epoch \in Nat
      BY <1>1 DEF TypeOK
    <2>5. \A p \in Procs : at[p] = "insert" =>
            Region(p, local[p].iface) \in Regions /\ local[p].epoch \in Nat
      BY <1>1, CurrentInterface DEF TypeOK
    <2>6. \A q \in Regions : epoch[q] \in Nat /\ epoch'[q] \in Nat /\ epoch[q] <= epoch'[q]
      <3>1. ASSUME NEW q \in Regions PROVE epoch[q] \in Nat
        BY <1>1 DEF TypeOK
      <3>2. ASSUME NEW q \in Regions PROVE epoch'[q] = epoch[q] \/ epoch'[q] = epoch[q] + 1
        BY <2>2
      <3>3. QED
        BY <3>1, <3>2
    <2>7. Sockets'
      <3>1. ASSUME NEW p \in Procs, NEW s \in sockets[p]
            PROVE  s.epoch <= epoch'[s.region] /\ \E i \in Ifaces(p) : Region(p, i) = s.region
        BY <2>4, <2>6 DEF HolderInv, Sockets
      <3>2. ASSUME NEW p \in Procs, at'[p] = "insert"
            PROVE  local[p].epoch <= epoch'[Region(p, local[p].iface)]
        <4>1. at[p] = "insert"
          BY <2>1, <3>2
        <4>2. local[p].epoch <= epoch[Region(p, local[p].iface)]
          BY <4>1 DEF HolderInv, Sockets
        <4>3. QED
          BY <2>5, <2>6, <4>1, <4>2
      <3>3. QED
        BY <2>3, <3>1, <3>2 DEF Sockets, Ifaces, Region
    <2>8. ASSUME NEW q \in Regions, NEW k \in Blocks PROVE HeldAt(q, k)' /\ ReturnedAt(q, k)'
      <3>1. CASE q = r
        <4>1. \A p \in Procs : \A s \in sockets[p] : s.region = r => s.epoch # epoch'[r]
          BY <2>2, <2>4 DEF HolderInv, Sockets
        <4>2. \A p \in Procs : at[p] = "insert" /\ Region(p, local[p].iface) = r =>
                local[p].epoch # epoch'[r]
          BY <2>2, <2>5 DEF HolderInv, Sockets
        <4>3. \A p \in Procs : ~Has(p, r, k)'
          BY <2>3, <4>1 DEF Has
        <4>4. \A p \in Procs : ~Inserts(p, r, k)'
          BY <2>1, <2>3, <4>2 DEF Inserts, Region
        <4>5. conn'[r][k].state = "free"
          BY <2>2 DEF Free
        <4>6. QED
          BY <3>1, <4>3, <4>4, <4>5 DEF HeldAt, ReturnedAt
      <3>2. CASE q # r
        <4>1. \A p \in Procs : (Has(p, q, k)' <=> Has(p, q, k)) /\ (Inserts(p, q, k)' <=> Inserts(p, q, k))
          BY <2>1, <2>2, <2>3, <3>2, UseKept
        <4>2. HeldAt(q, k) /\ ReturnedAt(q, k)
          BY DEF HolderInv, Held, Returned
        <4>3. QED
          BY <2>2, <3>2, <4>1, <4>2, HeldKept
      <3>3. QED
        BY <3>1, <3>2
    <2>9. QED
      BY <2>7, <2>8 DEF HolderInv, Held, Returned
  <1>6. QED
    BY <1>2, <1>3, <1>4, <1>5

\* connect: a connection nobody has, then one its creator has.
LEMMA ConnectHolders ==
    ASSUME TypeInv, SetupInv, HolderInv, NEW p \in Procs,
           ConnectFind(p) \/ ConnectNew(p) \/ ConnectInsert(p)
    PROVE  HolderInv'
  <1>1. TypeOK /\ conn \in Conns /\ local \in [Procs -> Calls]
    BY DEF TypeInv, TypeOK, Conns, ConnRecord, Calls
  <1>2. CASE ConnectFind(p)
    <2>1. at[p] = "run" /\ at'[p] = "new" /\ \A q \in Procs \ {p} : at'[q] = at[q]
      BY <1>1, <1>2, GotoEffect DEF ConnectFind
    <2>2. \A q \in Procs \ {p} : local'[q] = local[q]
      BY <1>1, <1>2 DEF ConnectFind
    <2>3. UNCHANGED <<conn, epoch, sockets, orphaned, interfaces>>
      BY <1>2 DEF ConnectFind, shared, history
    <2>4. QED
      BY <2>1, <2>2, <2>3, HolderKept DEF Ifaces
  <1>3. CASE ConnectNew(p)
    <2> DEFINE r == Region(p, local[p].iface)
    <2>1. at[p] = "new" /\ at'[p] = "insert" /\ \A q \in Procs \ {p} : at'[q] = at[q]
      BY <1>1, <1>3, GotoEffect DEF ConnectNew
    <2>2. r \in Regions /\ local[p].dest \in Nat
      BY <1>1, <1>3, CurrentInterface DEF ConnectNew, Calls
    <2>3. PICK k \in Blocks :
            /\ conn[r][k].state = "free"
            /\ conn' = [conn EXCEPT ![r][k] = [state |-> "new", by |-> p, dest |-> local[p].dest]]
            /\ local' = [local EXCEPT ![p].conn = k, ![p].epoch = epoch[r]]
      BY <1>3 DEF ConnectNew
    <2>4. /\ conn'[r][k].state = "new" /\ conn'[r][k].by = p
          /\ \A q \in Regions, l \in Blocks : q # r \/ l # k => conn'[q][l] = conn[q][l]
      BY <1>1, <2>2, <2>3 DEF Conns
    <2>5. /\ local'[p].conn = k /\ local'[p].epoch = epoch[r] /\ local'[p].iface = local[p].iface
          /\ \A q \in Procs \ {p} : local'[q] = local[q]
      BY <1>1, <2>3 DEF Calls
    <2>6. UNCHANGED <<interfaces, sockets, epoch, orphaned>>
      BY <1>3 DEF ConnectNew, history
    <2>7. epoch[r] \in Nat
      BY <1>1, <2>2 DEF TypeOK
    <2>8. Sockets'
      <3>1. ASSUME NEW q \in Procs, at'[q] = "insert"
            PROVE  local'[q].epoch <= epoch[Region(q, local'[q].iface)]
        BY <2>1, <2>5, <2>7, <3>1 DEF HolderInv, Sockets
      <3>2. QED
        BY <2>6, <3>1 DEF HolderInv, Sockets, Ifaces, Region
    <2>9. ASSUME NEW q \in Regions, NEW l \in Blocks PROVE HeldAt(q, l)' /\ ReturnedAt(q, l)'
      <3>1. HeldAt(q, l) /\ ReturnedAt(q, l)
        BY DEF HolderInv, Held, Returned
      <3>2. ASSUME NEW x \in Procs
            PROVE  /\ Has(x, q, l)' <=> Has(x, q, l)
                   /\ x # p => (Inserts(x, q, l)' <=> Inserts(x, q, l))
                   /\ x = p => ~Inserts(x, q, l) /\ (Inserts(x, q, l)' <=> q = r /\ l = k)
        <4>1. Has(x, q, l)' <=> Has(x, q, l)
          BY <2>6 DEF Has
        <4>2. CASE x # p
          BY <2>1, <2>5, <2>6, <4>1, <4>2 DEF Inserts
        <4>3. CASE x = p
          BY <2>1, <2>5, <2>6, <4>1, <4>3 DEF Inserts, Region
        <4>4. QED
          BY <4>2, <4>3, <4>1
      <3>3. CASE q = r /\ l = k
        BY <2>3, <2>4, <3>1, <3>2, <3>3 DEF HeldAt, ReturnedAt
      <3>4. CASE q # r \/ l # k
        <4>1. conn'[q][l] = conn[q][l] /\ orphaned'[q] = orphaned[q]
          BY <2>4, <2>6, <3>4
        <4>2. QED
          BY <3>1, <3>2, <3>4, <4>1, HeldKept
      <3>5. QED
        BY <3>3, <3>4
    <2>10. QED
      BY <2>8, <2>9 DEF HolderInv, Held, Returned
  <1>4. CASE ConnectInsert(p)
    <2>14. at[p] = "insert"
      BY <1>4 DEF ConnectInsert
    <2>15. Region(p, local[p].iface) \in Regions /\ local[p].conn \in Blocks
      BY <2>14, CurrentInterface DEF TypeInv, CallsOK
    <2>16. PICK r \in Regions, k \in Blocks : r = Region(p, local[p].iface) /\ k = local[p].conn
      BY <2>15
    <2>1. at[p] = "insert" /\ at'[p] = "run" /\ \A q \in Procs \ {p} : at'[q] = at[q]
      BY <1>1, <1>4, GotoEffect DEF ConnectInsert
    <2>2. local[p].iface \in Ifaces(p)
      BY <2>1, CurrentInterface
    <2>3. /\ conn' = [conn EXCEPT ![r][k].state = "create"] /\ AddSocket(p, r, k)
          /\ local[p].epoch = epoch[r]
      BY <1>4, <2>16 DEF ConnectInsert
    <2>4. /\ conn'[r][k].state = "create" /\ conn'[r][k].by = conn[r][k].by
          /\ \A q \in Regions, l \in Blocks : q # r \/ l # k => conn'[q][l] = conn[q][l]
      BY <1>1, <2>2, <2>3, ChangedState
    <2>5. /\ sockets'[p] = sockets[p] \union {[region |-> r, conn |-> k, epoch |-> epoch[r]]}
          /\ \A q \in Procs \ {p} : sockets'[q] = sockets[q]
      BY <1>1, <2>2, <2>3, AddedSocket
    <2>6. \A q \in Procs \ {p} : local'[q] = local[q]
      BY <1>1, <1>4 DEF ConnectInsert
    <2>7. UNCHANGED <<interfaces, epoch, orphaned>>
      BY <1>4 DEF ConnectInsert, history
    <2>8. epoch[r] \in Nat
      BY <1>1, <2>2 DEF TypeOK
    <2>9. Sockets'
      <3>1. ASSUME NEW q \in Procs, at'[q] = "insert"
            PROVE  local'[q].epoch <= epoch[Region(q, local'[q].iface)]
        BY <2>1, <2>6, <3>1 DEF HolderInv, Sockets
      <3>2. ASSUME NEW q \in Procs, NEW s \in sockets'[q]
            PROVE  s.epoch <= epoch[s.region] /\ \E i \in Ifaces(q) : Region(q, i) = s.region
        BY <2>2, <2>5, <2>8, <2>16, <3>2 DEF HolderInv, Sockets
      <3>3. QED
        BY <2>7, <3>1, <3>2 DEF Sockets, Ifaces, Region
    <2>10. Inserts(p, r, k)
      BY <2>1, <2>3, <2>16 DEF Inserts, Region
    <2>11. conn[r][k].state = "new" /\ conn[r][k].by = p
      BY <2>2, <2>10 DEF HolderInv, Held, HeldAt
    <2>12. ASSUME NEW q \in Regions, NEW l \in Blocks PROVE HeldAt(q, l)' /\ ReturnedAt(q, l)'
      <3>1. HeldAt(q, l) /\ ReturnedAt(q, l)
        BY DEF HolderInv, Held, Returned
      <3>2. ASSUME NEW x \in Procs, x # p
            PROVE  (Has(x, q, l)' <=> Has(x, q, l)) /\ (Inserts(x, q, l)' <=> Inserts(x, q, l))
        BY <2>1, <2>5, <2>6, <2>7, <3>2, UseKept
      <3>3. ~Inserts(p, q, l)'
        BY <2>1 DEF Inserts
      <3>4. CASE q = r /\ l = k
        <4>1. Has(p, r, k)'
          BY <2>5, <2>7 DEF Has
        <4>2. \A x \in Procs : ~Has(x, r, k)
          BY <2>2, <2>11 DEF HolderInv, Held, HeldAt
        <4>3. \A x \in Procs : Inserts(x, r, k) => x = p
          BY <2>2, <2>11 DEF HolderInv, Held, HeldAt
        <4>4. QED
          BY <2>4, <2>11, <3>2, <3>3, <3>4, <4>1, <4>2, <4>3 DEF HeldAt, ReturnedAt
      <3>5. CASE q # r \/ l # k
        <4>1. conn'[q][l] = conn[q][l] /\ orphaned'[q] = orphaned[q]
          BY <2>4, <2>7, <3>5
        <4>2. Has(p, q, l)' <=> Has(p, q, l)
          BY <2>5, <2>7, <3>5 DEF Has
        <4>3. ~Inserts(p, q, l)
          BY <2>16, <3>5 DEF Inserts, Region
        <4>4. QED
          BY <3>1, <3>2, <3>3, <4>1, <4>2, <4>3, HeldKept
      <3>6. QED
        BY <3>4, <3>5
    <2>13. QED
      BY <2>9, <2>12 DEF HolderInv, Held, Returned
  <1>5. QED
    BY <1>2, <1>3, <1>4

\* accept: one more process has the connection.
LEMMA AcceptHolders ==
    ASSUME TypeInv, SetupInv, HolderInv, NEW p \in Procs, Accept(p)
    PROVE  HolderInv'
  <1>1. TypeOK /\ conn \in Conns /\ at[p] = "run"
    BY DEF TypeInv, TypeOK, Conns, ConnRecord, Accept, AcceptDue
  <1>2. PICK i \in Ifaces(p) : \E k \in Pending(p, i) :
            /\ conn' = [conn EXCEPT ![Region(p, i)][k].state = "open"]
            /\ AddSocket(p, Region(p, i), k)
    BY DEF Accept
  <1>3. Region(p, i) \in Regions
    BY <1>1, AnyInterface
  <1>4. PICK r \in Regions, k \in Blocks :
          /\ r = Region(p, i) /\ k \in Pending(p, i)
          /\ conn' = [conn EXCEPT ![r][k].state = "open"]
          /\ AddSocket(p, r, k)
    BY <1>2, <1>3 DEF Pending
  <1>5. conn[r][k].state = "create" /\ conn[r][k].by # p
    BY <1>4 DEF Pending
  <1>6. /\ conn'[r][k].state = "open"
        /\ \A q \in Regions, l \in Blocks : q # r \/ l # k => conn'[q][l] = conn[q][l]
    BY <1>1, <1>4, ChangedState
  <1>7. /\ sockets'[p] = sockets[p] \union {[region |-> r, conn |-> k, epoch |-> epoch[r]]}
        /\ \A q \in Procs \ {p} : sockets'[q] = sockets[q]
    BY <1>1, <1>4, AddedSocket
  <1>8. UNCHANGED <<interfaces, epoch, orphaned, at, local>>
    BY DEF Accept, history
  <1>9. epoch[r] \in Nat
    BY <1>1 DEF TypeOK
  <1>10. Sockets'
    <2>1. ASSUME NEW q \in Procs, NEW s \in sockets'[q]
          PROVE  s.epoch <= epoch[s.region] /\ \E j \in Ifaces(q) : Region(q, j) = s.region
      BY <1>4, <1>7, <1>9, <2>1 DEF HolderInv, Sockets
    <2>2. QED
      BY <1>8, <2>1 DEF HolderInv, Sockets, Ifaces, Region
  <1>11. ASSUME NEW q \in Regions, NEW l \in Blocks PROVE HeldAt(q, l)' /\ ReturnedAt(q, l)'
    <2>1. HeldAt(q, l) /\ ReturnedAt(q, l)
      BY DEF HolderInv, Held, Returned
    <2>2. ASSUME NEW x \in Procs
          PROVE  /\ Inserts(x, q, l)' <=> Inserts(x, q, l)
                 /\ Has(x, q, l) => Has(x, q, l)'
                 /\ x # p \/ q # r \/ l # k => (Has(x, q, l)' <=> Has(x, q, l))
      <3>1. Inserts(x, q, l)' <=> Inserts(x, q, l)
        BY <1>8 DEF Inserts
      <3>2. CASE x = p
        BY <1>7, <1>8, <3>1, <3>2 DEF Has
      <3>3. CASE x # p
        BY <1>7, <1>8, <3>1, <3>3 DEF Has
      <3>4. QED
        BY <3>2, <3>3
    <2>3. CASE q = r /\ l = k
      <3>1. Has(p, q, l)'
        BY <1>7, <1>8, <2>3 DEF Has
      <3>2. \A x \in Procs : ~Inserts(x, q, l) /\ (Has(x, q, l) => x # p)
        BY <1>5, <2>1, <2>3 DEF HeldAt
      <3>3. conn'[q][l].state = "open" /\ conn[q][l].state = "create" /\ orphaned'[q] = orphaned[q]
        BY <1>5, <1>6, <1>8, <2>3
      <3>4. HeldAt(q, l)'
        BY <2>2, <3>2, <3>3 DEF HeldAt
      <3>5. orphaned[q] \/ \E x \in Procs : Has(x, q, l)
        BY <2>1, <3>3 DEF ReturnedAt
      <3>6. orphaned'[q] \/ \E x, y \in Procs : x # y /\ Has(x, q, l)' /\ Has(y, q, l)'
        BY <2>2, <3>1, <3>2, <3>3, <3>5
      <3>7. ReturnedAt(q, l)'
        BY <3>3, <3>6 DEF ReturnedAt
      <3>8. QED
        BY <3>4, <3>7
    <2>4. CASE q # r \/ l # k
      <3>1. conn'[q][l] = conn[q][l] /\ orphaned'[q] = orphaned[q]
        BY <1>6, <1>8, <2>4
      <3>2. QED
        BY <2>1, <2>2, <2>4, <3>1, HeldKept
    <2>5. QED
      BY <2>3, <2>4
  <1>12. QED
    BY <1>10, <1>11 DEF HolderInv, Held, Returned

\* close: the first of two leaves the connection to the other, who frees it.
LEMMA CloseHolders ==
    ASSUME TypeInv, SetupInv, HolderInv, NEW p \in Procs, Close(p)
    PROVE  HolderInv'
  <1>1. TypeOK /\ conn \in Conns /\ at[p] = "run"
    BY DEF TypeInv, TypeOK, Conns, ConnRecord, Close
  <1>2. PICK s \in sockets[p] :
          /\ s.epoch = epoch[s.region]
          /\ conn' = [conn EXCEPT ![s.region][s.conn] = Closed(@)]
          /\ sockets' = [sockets EXCEPT ![p] = @ \ {s}]
    BY DEF Close
  <1>3. s \in [region : Regions, conn : Blocks, epoch : Nat]
    BY <1>1 DEF TypeOK
  <1>4. PICK r \in Regions, k \in Blocks :
          /\ r = s.region /\ k = s.conn
          /\ s = [region |-> r, conn |-> k, epoch |-> epoch[r]]
    BY <1>2, <1>3
  <1>5. /\ conn'[r][k] = Closed(conn[r][k])
        /\ \A q \in Regions, l \in Blocks : q # r \/ l # k => conn'[q][l] = conn[q][l]
    BY <1>1, <1>2, <1>4 DEF Conns
  <1>6. sockets'[p] = sockets[p] \ {s} /\ \A q \in Procs \ {p} : sockets'[q] = sockets[q]
    BY <1>1, <1>2 DEF TypeOK
  <1>7. UNCHANGED <<interfaces, epoch, orphaned, at, local>>
    BY DEF Close, history
  <1>8. Has(p, r, k)
    BY <1>2, <1>4 DEF Has
  <1>9. ~Has(p, r, k)'
    BY <1>4, <1>6, <1>7 DEF Has
  <1>10. Sockets'
    BY <1>6, <1>7 DEF HolderInv, Sockets, Ifaces, Region
  <1>11. ASSUME NEW q \in Regions, NEW l \in Blocks PROVE HeldAt(q, l)' /\ ReturnedAt(q, l)'
    <2>1. HeldAt(q, l) /\ ReturnedAt(q, l)
      BY DEF HolderInv, Held, Returned
    <2>2. ASSUME NEW x \in Procs
          PROVE  /\ Inserts(x, q, l)' <=> Inserts(x, q, l)
                 /\ Has(x, q, l)' => Has(x, q, l)
                 /\ x # p \/ q # r \/ l # k => (Has(x, q, l)' <=> Has(x, q, l))
      <3>1. Inserts(x, q, l)' <=> Inserts(x, q, l)
        BY <1>7 DEF Inserts
      <3>2. CASE x = p
        BY <1>4, <1>6, <1>7, <3>1, <3>2 DEF Has
      <3>3. CASE x # p
        BY <1>6, <1>7, <3>1, <3>3 DEF Has
      <3>4. QED
        BY <3>2, <3>3
    <2>3. CASE q = r /\ l = k
      <3>1. conn[q][l].state \in {"create", "open", "close"}
        <4>1. conn[q][l] \in ConnRecord
          BY <1>1 DEF Conns
        <4>2. QED
          BY <1>8, <2>1, <2>3, <4>1 DEF HeldAt, ConnRecord
      <3>2. orphaned'[q] = orphaned[q]
        BY <1>7
      <3>3. CASE conn[q][l].state = "open"
        <4>1. conn'[q][l].state = "close"
          <5>1. conn'[q][l] = [conn[q][l] EXCEPT !.state = "close"]
            BY <1>5, <2>3, <3>3 DEF Closed
          <5>2. conn[q][l] \in ConnRecord
            BY <1>1 DEF Conns
          <5>3. QED
            BY <5>1, <5>2 DEF ConnRecord
        <4>2. \A x \in Procs : ~Inserts(x, q, l)
          BY <2>1, <3>3 DEF HeldAt
        <4>3. ASSUME NEW x \in Procs, NEW y \in Procs, Has(x, q, l)', Has(y, q, l)' PROVE x = y
          <5>1. x # p /\ y # p /\ Has(x, q, l) /\ Has(y, q, l) /\ Has(p, q, l)
            BY <1>8, <1>9, <2>2, <2>3, <4>3
          <5>2. CASE p = Server
            BY <1>1, <5>1, <5>2, TwoProcs DEF SetupInv, HolderInv
          <5>3. CASE p # Server
            BY <1>1, <5>1, <5>3, TwoProcs DEF SetupInv, HolderInv
          <5>4. QED
            BY <5>2, <5>3
        <4>4. HeldAt(q, l)'
          BY <2>2, <4>1, <4>2, <4>3 DEF HeldAt
        <4>5. orphaned[q] \/ \E x \in Procs : x # p /\ Has(x, q, l)
          BY <2>1, <3>3 DEF ReturnedAt
        <4>6. ReturnedAt(q, l)'
          BY <2>2, <3>2, <4>1, <4>5 DEF ReturnedAt
        <4>7. QED
          BY <4>4, <4>6
      <3>4. CASE conn[q][l].state \in {"create", "close"}
        <4>1. conn'[q][l].state = "free"
          BY <1>5, <2>3, <3>4 DEF Closed, Free
        <4>2. \A x \in Procs : ~Inserts(x, q, l) /\ (Has(x, q, l) => x = p)
          BY <1>8, <2>1, <2>3, <3>4 DEF HeldAt
        <4>3. \A x \in Procs : ~Has(x, q, l)'
          BY <1>9, <2>2, <2>3, <4>2
        <4>4. QED
          BY <2>2, <4>1, <4>2, <4>3 DEF HeldAt, ReturnedAt
      <3>5. QED
        BY <3>1, <3>3, <3>4
    <2>4. CASE q # r \/ l # k
      <3>1. conn'[q][l] = conn[q][l] /\ orphaned'[q] = orphaned[q]
        BY <1>5, <1>7, <2>4
      <3>2. QED
        BY <2>1, <2>2, <2>4, <3>1, HeldKept
    <2>5. QED
      BY <2>3, <2>4
  <1>12. QED
    BY <1>10, <1>11 DEF HolderInv, Held, Returned

\* Every step accounts for the connections.
LEMMA HolderStep ==
    ASSUME TypeInv, SetupInv, HolderInv, [Next]_vars
    PROVE  HolderInv'
  <1>1. CASE \E p \in Procs : Fault(p)
    BY <1>1, HolderKept DEF Fault, shared, process, history, Ifaces
  <1>2. CASE UNCHANGED vars
    BY <1>2, HolderKept DEF vars, shared, process, history, Ifaces
  <1>3. QED
    BY <1>1, <1>2, NextCases, SetupHolders, ServerHolders, ConnectHolders, AcceptHolders, CloseHolders
=============================================================================
