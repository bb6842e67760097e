---------------------------- MODULE Interfaces ----------------------------
(***************************************************************************)
(* The regions that processes share, how a server and its clients set them *)
(* up (setupIface, registerInterface), crash and start again, and how      *)
(* connect, accept and epoll_pwait find an interface by its address        *)
(* (util.c).                                                               *)
(*                                                                         *)
(* A region survives the processes.  The server maps it anywhere, leaves   *)
(* the address in a file, clears the region and initialises it; the client *)
(* reads the file and maps the region at that address, because it is full  *)
(* of pointers.  Nothing tells the client when the region is ready, or     *)
(* that it was cleared.                                                    *)
(*                                                                         *)
(* Abstractions: what happens inside one connection is the subject of      *)
(* Connection: here accept and close are one step, and the order of the    *)
(* list is left out.  Every process has one listening socket, and no       *)
(* process accepts its own connections (PortsApart there).  connect does   *)
(* not block.  An access through a pointer that is not valid sets ub.      *)
(***************************************************************************)
EXTENDS Naturals, Sequences, FiniteSets

CONSTANTS
    Server, Clients,   \* the process built with MODE_SERVER, the others
    Regions,
    Blocks,            \* the connections a region has room for
    Bases,             \* where a region may be mapped
    NULL, Missing, Empty,    \* no pointer; no address file, one without contents
    Setup,             \* Setup[p]: the regions p registers, in order
    OwnAddress, RemoteAddress,   \* what the server is told for each region
    Listen,            \* Listen[p]: the address p listens on, 0 for any
    Eventful,          \* processes that accept only when epoll_pwait says so
    Dests,             \* the addresses that processes connect to
    MAX_INTERFACES,
    MaxSockets,        \* bound on the connected sockets of a process
    MaxStarts          \* MaxStarts[p]: bound on how often p is started

Procs == Clients \union {Server}

ASSUME ProcsAssumption == Server \notin Clients
ASSUME PointerAssumption == NULL \notin Bases /\ Missing \notin Bases /\ Empty \notin Bases
ASSUME AddressAssumption ==
    /\ OwnAddress \in [Regions -> Nat] /\ RemoteAddress \in [Regions -> Nat]
    /\ Listen \in [Procs -> Nat] /\ Dests \subseteq Nat
\* The server has every region once, and every region has one client.
ASSUME SetupAssumption ==
    /\ Setup \in [Procs -> Seq(Regions)]
    /\ \A p \in Procs : \A i, j \in DOMAIN Setup[p] : Setup[p][i] = Setup[p][j] => i = j
    /\ \A c, d \in Clients : \A i \in DOMAIN Setup[c], j \in DOMAIN Setup[d] :
         Setup[c][i] = Setup[d][j] => c = d
ASSUME BoundAssumption ==
    /\ MAX_INTERFACES \in Nat /\ MaxSockets \in Nat /\ MaxStarts \in [Procs -> Nat]
    /\ Eventful \subseteq Procs

VARIABLES
    addrFile,     \* addrFile[r]: the file with the address of r
    header,       \* header[r]: struct interface, by the server's names
    conn,         \* conn[r][k]: connState, and (history) who asked for whom
    interfaces,   \* interfaces[p]: the regions p has published, where they are
    at,           \* where p is
    local,        \* the variables of the call p executes
    sockets,      \* sockets[p]: the connections p has a socket on
    starts,       \* how often p was started
    epoch,        \* history: how often r was cleared
    ready,        \* history: the server has set up r, and no other started to
    calm,         \* history: r was ready when p read its address, and still is
    orphaned,     \* history: a process with a connection in r was killed
    ub

shared  == <<addrFile, header, conn>>
process == <<interfaces, at, local, sockets>>
history == <<epoch, ready, calm, orphaned>>
vars    == <<shared, process, starts, history, ub>>

\* Cleared memory: addresses 0 and NULL pointers.
Zero   == [own |-> 0, remote |-> 0, mctx |-> NULL, list |-> NULL]
Free   == [state |-> "free", by |-> NULL, dest |-> 0]
NoCall == [base |-> NULL, iface |-> 0, dest |-> 0, conn |-> NULL, epoch |-> 0]

Init ==
    /\ addrFile \in [Regions -> {Missing} \union Bases]
    /\ header = [r \in Regions |-> Zero]
    /\ conn = [r \in Regions |-> [k \in Blocks |-> Free]]
    /\ interfaces = [p \in Procs |-> <<>>]
    /\ at = [p \in Procs |-> "down"]
    /\ local = [p \in Procs |-> NoCall]
    /\ sockets = [p \in Procs |-> {}]
    /\ starts = [p \in Procs |-> 0]
    /\ epoch = [r \in Regions |-> 0]
    /\ ready = [r \in Regions |-> FALSE]
    /\ calm = [p \in Procs |-> [r \in Regions |-> FALSE]]
    /\ orphaned = [r \in Regions |-> FALSE]
    /\ ub = FALSE

Goto(p, l) == at' = [at EXCEPT ![p] = l]

---------------------------------------------------------------------------
(* Starting, setupIface and registerInterface                             *)

Start(p) ==
    /\ at[p] = "down" /\ starts[p] < MaxStarts[p]
    /\ starts' = [starts EXCEPT ![p] = @ + 1]
    /\ Goto(p, "setup")
    /\ UNCHANGED <<shared, interfaces, local, sockets, history, ub>>

\* What is left of p when it ends, by exit(1) or because it is killed.
Gone(p) ==
    /\ Goto(p, "down")
    /\ interfaces' = [interfaces EXCEPT ![p] = <<>>]
    /\ local' = [local EXCEPT ![p] = NoCall]
    /\ sockets' = [sockets EXCEPT ![p] = {}]
    /\ calm' = [calm EXCEPT ![p] = [r \in Regions |-> FALSE]]

\* p has or is about to have a connection in r.
Has(p, r, k) == [region |-> r, conn |-> k, epoch |-> epoch[r]] \in sockets[p]
Inserts(p, r, k) ==
    /\ at[p] = "insert" /\ interfaces[p][local[p].iface].region = r
    /\ local[p].conn = k /\ local[p].epoch = epoch[r]
Uses(p, r) == \E k \in Blocks : Has(p, r, k) \/ Inserts(p, r, k)

Kill(p) ==
    /\ at[p] # "down"
    /\ Gone(p)
    /\ orphaned' = [r \in Regions |-> orphaned[r] \/ Uses(p, r)]
    /\ UNCHANGED <<shared, starts, epoch, ready, ub>>

Exit(p) == Gone(p) /\ UNCHANGED orphaned

\* getFreeInterface: the table fills from the start and is never emptied.
Slot(p) == Len(interfaces[p]) + 1

\* registerInterface of the next region finds a free slot.
Registering(p, r) ==
    Slot(p) \in DOMAIN Setup[p] /\ Slot(p) <= MAX_INTERFACES /\ r = Setup[p][Slot(p)]

\* No slot is free, or the environment names no addresses for the interface.
SetupFails(p) ==
    /\ at[p] = "setup" /\ Slot(p) \in DOMAIN Setup[p]
    /\ Exit(p)
    /\ UNCHANGED <<shared, starts, epoch, ready, ub>>

\* *ppIface = pIface.
Publish(p, r, b) ==
    interfaces' = [interfaces EXCEPT ![p] = Append(@, [region |-> r, base |-> b])]

\* setupIface is done with the last region.
SetupDone(p) ==
    /\ at[p] = "setup" /\ Slot(p) \notin DOMAIN Setup[p]
    /\ Goto(p, "run")
    /\ UNCHANGED <<shared, interfaces, local, sockets, starts, history, ub>>

\* createSharedRegion of the server: wherever the kernel finds room, or NULL.
ServerAttach(r) ==
    /\ at[Server] = "setup" /\ Registering(Server, r)
    /\ \E b \in Bases \union {NULL} : local' = [local EXCEPT ![Server].base = b]
    /\ ready' = [ready EXCEPT ![r] = FALSE]
    /\ Goto(Server, "open")
    /\ UNCHANGED <<shared, interfaces, sockets, starts, epoch, calm, orphaned, ub>>

\* setAddressToFile: fopen empties the file ...
ServerOpenFile(r) ==
    /\ at[Server] = "open" /\ Registering(Server, r)
    /\ addrFile' = [addrFile EXCEPT ![r] = Empty]
    /\ Goto(Server, "write")
    /\ UNCHANGED <<header, conn, interfaces, local, sockets, starts, history, ub>>

\* Mutants of ServerWriteFile: an address that is there is kept; the region is
\* used although it could not be mapped.
ServerKeepsFile(r) ==
    /\ at[Server] = "write" /\ Registering(Server, r)
    /\ addrFile' = [addrFile EXCEPT ![r] =
                      IF header[r].list # NULL THEN header[r].list ELSE local[Server].base]
    /\ IF local[Server].base = NULL
         THEN Exit(Server)
         ELSE /\ Publish(Server, r, local[Server].base) /\ Goto(Server, "clear")
              /\ UNCHANGED <<local, sockets, calm, orphaned>>
    /\ UNCHANGED <<header, conn, starts, epoch, ready, ub>>

ServerUsesNull(r) ==
    /\ at[Server] = "write" /\ Registering(Server, r)
    /\ addrFile' = [addrFile EXCEPT ![r] = local[Server].base]
    /\ Publish(Server, r, local[Server].base) /\ Goto(Server, "clear")
    /\ UNCHANGED <<header, conn, local, sockets, starts, history, ub>>

\* ... and fclose writes the address.  Only then a NULL region is noticed.
ServerWriteFile(r) ==
    /\ at[Server] = "write" /\ Registering(Server, r)
    /\ addrFile' = [addrFile EXCEPT ![r] = local[Server].base]
    /\ IF local[Server].base = NULL
         THEN Exit(Server)
         ELSE /\ Publish(Server, r, local[Server].base) /\ Goto(Server, "clear")
              /\ UNCHANGED <<local, sockets, calm, orphaned>>
    /\ UNCHANGED <<header, conn, starts, epoch, ready, ub>>

\* The region the server has published last, and is about to initialise.
Current(r) == Len(interfaces[Server]) > 0 /\ r = interfaces[Server][Len(interfaces[Server])].region

\* memset: whatever a client has in the region is gone.
ServerClear(r) ==
    /\ at[Server] = "clear" /\ Current(r)
    /\ header' = [header EXCEPT ![r] = Zero]
    /\ conn' = [conn EXCEPT ![r] = [k \in Blocks |-> Free]]
    /\ epoch' = [epoch EXCEPT ![r] = @ + 1]
    /\ calm' = [p \in Procs |-> [calm[p] EXCEPT ![r] = FALSE]]
    /\ orphaned' = [orphaned EXCEPT ![r] = FALSE]
    /\ Goto(Server, "fill")
    /\ UNCHANGED <<addrFile, interfaces, local, sockets, starts, ready, ub>>

\* magic (which nobody reads), the addresses and the bounds of the region.
ServerFill(r) ==
    /\ at[Server] = "fill" /\ Current(r)
    /\ header' = [header EXCEPT ![r].own = OwnAddress[r], ![r].remote = RemoteAddress[r]]
    /\ Goto(Server, "heap")
    /\ UNCHANGED <<addrFile, conn, interfaces, local, sockets, starts, history, ub>>

\* createMallocContext.
ServerHeap(r) ==
    /\ at[Server] = "heap" /\ Current(r)
    /\ header' = [header EXCEPT ![r].mctx = local[Server].base]
    /\ Goto(Server, "list")
    /\ UNCHANGED <<addrFile, conn, interfaces, local, sockets, starts, history, ub>>

\* llist_new: the region is ready.
ServerList(r) ==
    /\ at[Server] = "list" /\ Current(r)
    /\ header' = [header EXCEPT ![r].list = local[Server].base]
    /\ ready' = [ready EXCEPT ![r] = TRUE]
    /\ calm' = [calm EXCEPT ![Server][r] = TRUE]
    /\ Goto(Server, "setup")
    /\ UNCHANGED <<addrFile, conn, interfaces, local, sockets, starts, epoch, orphaned, ub>>

\* getAddressFromFile of a client; without a file, fscanf gets a NULL pointer.
ClientRead(c, r) ==
    /\ at[c] = "setup" /\ Registering(c, r)
    /\ addrFile[r] # Missing
    /\ local' = [local EXCEPT ![c].base = addrFile[r]]
    /\ calm' = [calm EXCEPT ![c][r] = ready[r]]
    /\ Goto(c, "attach")
    /\ UNCHANGED <<shared, interfaces, sockets, starts, epoch, ready, orphaned, ub>>

\* createSharedRegion of a client: at the address of the file or not at all.
\* For address 0 the kernel takes any; of an empty file the address is what the
\* variable happens to hold.
ClientAttach(c, r) ==
    /\ at[c] = "attach" /\ Registering(c, r)
    /\ \E b \in Bases :
         /\ local[c].base \in {b, NULL, Empty}
         /\ Publish(c, r, b)
    /\ Goto(c, "setup")
    /\ UNCHANGED <<shared, local, sockets, starts, history, ub>>

ClientAttachFails(c) ==
    /\ at[c] = "attach"
    /\ Exit(c)
    /\ UNCHANGED <<shared, starts, epoch, ready, ub>>

---------------------------------------------------------------------------
(* Looking for an interface                                               *)

Ifaces(p)    == DOMAIN interfaces[p]
Region(p, i) == interfaces[p][i].region
Base(p, i)   == interfaces[p][i].base

\* The pointers in the region are those of an initialised region that p has
\* mapped where the server has.
HeapSound(p, i) == header[Region(p, i)].mctx = Base(p, i)
ListSound(p, i) == header[Region(p, i)].list = Base(p, i)

\* The client's struct interface names the two addresses the other way round.
Own(p, i) ==
    IF p = Server THEN header[Region(p, i)].own ELSE header[Region(p, i)].remote

\* Mutant of Remote: every process reads the first word.
RemoteNotSwapped(p, i) == header[Region(p, i)].remote

Remote(p, i) ==
    IF p = Server THEN header[Region(p, i)].remote ELSE header[Region(p, i)].own

\* getInterfaceBySockaddr: the first interface to that address.
RouteTo(p, a) ==
    {i \in Ifaces(p) : /\ Remote(p, i) = a
                       /\ \A j \in Ifaces(p) : Remote(p, j) = a => i <= j}

\* searchNewConnectionOnIface: what p may accept.
Pending(p, i) ==
    {k \in Blocks : /\ conn[Region(p, i)][k].state = "create"
                    /\ conn[Region(p, i)][k].by # p}

\* Mutant of Searched: the other side's address is compared.
SearchedByRemote(p) == {i \in Ifaces(p) : Remote(p, i) = Listen[p]}

\* The interfaces searchNewConnectionOnAnyIface and
\* acceptNewConnectionOnAnyIface walk: only the second knows 0.0.0.0.
Searched(p) == {i \in Ifaces(p) : Own(p, i) = Listen[p]}
Accepted(p) == {i \in Ifaces(p) : Listen[p] = 0 \/ Own(p, i) = Listen[p]}

\* Walking the interfaces S, p finds something on i, or an invalid list.
Found(p, S, i) ==
    /\ i \in S
    /\ ~ListSound(p, i) \/ Pending(p, i) # {}
    /\ \A j \in S : j < i => ListSound(p, j) /\ Pending(p, j) = {}

\* The application accepts, or accepts when epoll_pwait reports the socket.
AcceptDue(p) ==
    /\ at[p] = "run"
    /\ p \in Eventful => \E i \in Searched(p) : Found(p, Searched(p), i) /\ ListSound(p, i)

---------------------------------------------------------------------------
(* connect, accept and close                                              *)

Room(p) == Cardinality(sockets[p]) < MaxSockets

AddSocket(p, r, k) ==
    sockets' = [sockets EXCEPT ![p] =
                  @ \union {[region |-> r, conn |-> k, epoch |-> epoch[r]]}]

\* connectEx looks for an interface; without one it returns ENETUNREACH.
ConnectFind(p) ==
    /\ at[p] = "run" /\ Room(p)
    /\ \E a \in Dests : \E i \in RouteTo(p, a) :
         local' = [local EXCEPT ![p].iface = i, ![p].dest = a]
    /\ Goto(p, "new")
    /\ UNCHANGED <<shared, interfaces, sockets, starts, history, ub>>

\* createNewConnection in the region of the interface.
ConnectNew(p) ==
    /\ at[p] = "new"
    /\ LET i == local[p].iface
           r == Region(p, i)
       IN  /\ HeapSound(p, i)
           /\ \E k \in Blocks :
                /\ conn[r][k].state = "free"
                /\ conn' = [conn EXCEPT ![r][k] =
                              [state |-> "new", by |-> p, dest |-> local[p].dest]]
                /\ local' = [local EXCEPT ![p].conn = k, ![p].epoch = epoch[r]]
    /\ Goto(p, "insert")
    /\ UNCHANGED <<addrFile, header, interfaces, sockets, starts, history, ub>>

\* initiateNewConnection: now the peer can find it.
ConnectInsert(p) ==
    /\ at[p] = "insert"
    /\ LET i == local[p].iface
           r == Region(p, i)
           k == local[p].conn
       IN  /\ ListSound(p, i) /\ local[p].epoch = epoch[r]
           /\ conn' = [conn EXCEPT ![r][k].state = "create"]
           /\ AddSocket(p, r, k)
    /\ local' = [local EXCEPT ![p] = NoCall]
    /\ Goto(p, "run")
    /\ UNCHANGED <<addrFile, header, interfaces, starts, history, ub>>

\* accept4, with a free entry in the socket table.
Accept(p) ==
    /\ AcceptDue(p) /\ Room(p) /\ ~ub
    /\ \E i \in Ifaces(p) :
         /\ Found(p, Accepted(p), i) /\ ListSound(p, i)
         /\ \E k \in Pending(p, i) :
              /\ conn' = [conn EXCEPT ![Region(p, i)][k].state = "open"]
              /\ AddSocket(p, Region(p, i), k)
    /\ UNCHANGED <<addrFile, header, interfaces, at, local, starts, history, ub>>

\* Mutant of Closed: a connection that was never accepted is not removed.
ClosedNotRemoved(c) == IF c.state = "close" THEN Free ELSE [c EXCEPT !.state = "close"]

\* closeConnection: what becomes of the connection.
Closed(c) == IF c.state = "open" THEN [c EXCEPT !.state = "close"] ELSE Free

Close(p) ==
    /\ at[p] = "run"
    /\ \E s \in sockets[p] :
         /\ s.epoch = epoch[s.region]
         /\ conn' = [conn EXCEPT ![s.region][s.conn] = Closed(@)]
         /\ sockets' = [sockets EXCEPT ![p] = @ \ {s}]
    /\ UNCHANGED <<addrFile, header, interfaces, at, local, starts, history, ub>>

---------------------------------------------------------------------------
(* What goes wrong                                                        *)

\* fopen has returned NULL.
NoFile(p) ==
    p \in Clients /\ at[p] = "setup" /\ \E r \in Regions : Registering(p, r) /\ addrFile[r] = Missing

\* The region has no room for another connection: malloc returns NULL.
Full(p) ==
    /\ at[p] = "new"
    /\ \A k \in Blocks : conn[Region(p, local[p].iface)][k].state # "free"

\* The call of p follows a pointer of a region that is not initialised, or is
\* mapped elsewhere.
WildPointer(p) ==
    \/ at[p] = "new" /\ ~HeapSound(p, local[p].iface)
    \/ at[p] = "insert" /\ ~ListSound(p, local[p].iface)
    \/ at[p] = "run" /\ \E i \in Searched(p) : Found(p, Searched(p), i) /\ ~ListSound(p, i)
    \/ AcceptDue(p) /\ \E i \in Accepted(p) : Found(p, Accepted(p), i) /\ ~ListSound(p, i)

\* p uses a connection that was cleared with its region.
Cleared(p) ==
    \/ at[p] = "insert" /\ local[p].epoch # epoch[Region(p, local[p].iface)]
    \/ at[p] = "run" /\ \E s \in sockets[p] : s.epoch # epoch[s.region]

Fault(p) ==
    /\ NoFile(p) \/ Full(p) \/ WildPointer(p) \/ Cleared(p)
    /\ ub' = TRUE
    /\ UNCHANGED <<shared, process, starts, history>>

\* After such an access the model says nothing more.
Undefined == ub /\ UNCHANGED vars

Next ==
    \/ /\ ~ub
       /\ \/ \E p \in Procs :
               \/ Start(p) \/ Kill(p) \/ SetupFails(p) \/ SetupDone(p)
               \/ ConnectFind(p) \/ ConnectNew(p) \/ ConnectInsert(p)
               \/ Accept(p) \/ Close(p) \/ Fault(p)
          \/ \E r \in Regions :
               \/ ServerAttach(r) \/ ServerOpenFile(r) \/ ServerWriteFile(r)
               \/ ServerClear(r) \/ ServerFill(r) \/ ServerHeap(r) \/ ServerList(r)
          \/ \E c \in Clients :
               \/ \E r \in Regions : ClientRead(c, r) \/ ClientAttach(c, r)
               \/ ClientAttachFails(c)
    \/ Undefined

Spec == Init /\ [][Next]_vars

\* The applications come back to accept, blocking or told by epoll_pwait.
FairSpec == Spec /\ \A p \in Procs : WF_vars(Accept(p))

---------------------------------------------------------------------------
(* Properties                                                             *)

Pointers == Bases \union {NULL}
SetupPCs == {"down", "setup", "open", "write", "clear", "fill", "heap", "list", "attach"}

\* Every variable has its type; what is published is mapped.
TypeOK ==
    /\ addrFile \in [Regions -> Pointers \union {Missing, Empty}]
    /\ header \in [Regions -> [own : Nat, remote : Nat, mctx : Pointers, list : Pointers]]
    /\ conn \in [Regions -> [Blocks ->
                   [state : {"free", "new", "create", "open", "close"},
                    by : Procs \union {NULL}, dest : Nat]]]
    /\ interfaces \in [Procs -> Seq([region : Regions, base : Bases])]
    /\ at \in [Procs -> SetupPCs \union {"run", "new", "insert"}]
    /\ local \in [Procs -> [base : Pointers \union {Empty}, iface : Nat, dest : Nat,
                            conn : Blocks \union {NULL}, epoch : Nat]]
    /\ sockets \in [Procs -> SUBSET [region : Regions, conn : Blocks, epoch : Nat]]
    /\ starts \in [Procs -> Nat] /\ epoch \in [Regions -> Nat]
    /\ ready \in [Regions -> BOOLEAN] /\ orphaned \in [Regions -> BOOLEAN]
    /\ calm \in [Procs -> [Regions -> BOOLEAN]]
    /\ ub \in BOOLEAN

\* A process that read the address of a region when the server had set it up
\* is safe until the server clears the region: all pointers in it are good
\* where the process has mapped it, and all its connections are there.  The
\* windows of registerInterface (util.c:216-256) and a restart of the server
\* in or after the client's setup are the only ways to a wild pointer.
SafeOnceReady ==
    \A p \in Procs : \A i \in Ifaces(p) :
        calm[p][Region(p, i)] =>
            /\ HeapSound(p, i) /\ ListSound(p, i)
            /\ \A s \in sockets[p] : s.region = Region(p, i) =>
                 s.epoch = epoch[s.region] /\ conn[s.region][s.conn].state # "free"

\* A connection is accepted by the process it was addressed to, and each side
\* sees the other's address as the remote one (util.h:29-33, util.c:26-33,
\* 458-475), unless one of them uses the region before it is ready.
AddresseeAccepts ==
    \A p, q \in Procs : \A i \in Ifaces(p), j \in Ifaces(q), k \in Blocks :
        LET r == Region(p, i) IN
        (/\ p # q /\ r = Region(q, j) /\ calm[p][r] /\ calm[q][r]
         /\ Has(p, r, k) /\ Has(q, r, k) /\ conn[r][k].by = q) =>
            conn[r][k].dest = Own(p, i) /\ Own(p, i) = Remote(q, j) /\ Own(q, j) = Remote(p, i)

\* Every connection in a region belongs to a socket, or to a connect under way,
\* unless a process died that had connections there: without crashes a region
\* is full only of connections in use (util.c:347, 530).
MemoryIsReturned ==
    \A r \in Regions, k \in Blocks :
        conn[r][k].state # "free" =>
            orphaned[r] \/ \E p \in Procs : Has(p, r, k) \/ Inserts(p, r, k)

\* Somebody waits to be accepted by p, which has nothing else to do.
Wanted(p) ==
    /\ ~ub /\ at[p] = "run" /\ Room(p)
    /\ \A i \in Ifaces(p) : calm[p][Region(p, i)]
    /\ \E q \in Procs \ {p}, i \in Ifaces(p), k \in Blocks :
         LET r == Region(p, i) IN
         /\ calm[q][r] /\ Has(q, r, k)
         /\ conn[r][k].state = "create" /\ conn[r][k].by = q
         /\ Listen[p] \in {0, conn[r][k].dest}

\* Who connects to an address is noticed by the process that listens on it, on
\* whichever interface: it goes on accepting as long as somebody waits.  Not
\* so if it listens on 0.0.0.0 and leaves the waiting to epoll_pwait, which
\* takes the address literally (util.c:429).
ConnectIsNoticed ==
    \A p \in Procs :
        \/ p \in Eventful /\ Listen[p] = 0
        \/ []<>~Wanted(p)
        \/ []<><<Accept(p)>>_vars
===========================================================================
