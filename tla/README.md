# A TLA+ model of shmsock

shmsock implements the Unix socket API and the epoll API over a memory region that two processes share. It is
linked or preloaded into both; `socket`, `connect`, `accept`, `send`, `recv`, `close`, `epoll_*` and `poll` then
work on connections that live in the region, and no kernel call is made. There is no lock around a call: the two
processes read and write the connections as they go. This directory holds TLA+ models of that code, TLC runs on
small instances, and TLAPS proofs for all instances. File and line references are to the repository's sources.

    tlc -workers 2 -config channel.cfg MCChannel     # a run
    tlapm ChannelProofs.tla                          # a proof module

## 1. The system

| Component | State | Operations | Module |
|---|---|---|---|
| connection life cycle (`util.c`, `socket.c`, `list.c:llist_remove`) | `connState`, ports and masks of each connection, the interface's `connectionList`, in shared memory | `connectEx`, `accept4`, `closeConnection`, `removeConnection` | `Connection`, which implements `Lifecycle` |
| byte channel (`socket.c`, `util.c`) | two lists of packets per connection, each packet with `offset` and `datasize` | `send`, `sendmsg`, `recv`, close of either side | `Channel`, which implements `ByteStream` |
| socket descriptor table (`socket.c`, `socket.h`) | `fds`, `currentMaxFd`, private to a process | `socket`, `bind`, `listen`, `accept4`, `close` | `Descriptors` |
| epoll instances (`event.c`) | `pollfds` with their listeners `lfds`, `isMixed` and `realPollfd`, `randomPollFd`, private; files in the kernel | `epoll_create1`, `epoll_ctl`, the scan of `epoll_pwait`, `close` | `Descriptors` |
| `poll` (`event.c`) | the static `epollfd` | create, ADD each, wait, DEL each | `Descriptors` |
| event masks (`event.c`, `event.h`, `util.c`) | `own_events` (shared with the peer), `own_lt_events` | `SET_EVENT`, `CLEAR_EVENT`, the paths and the timeout of `epoll_pwait` | `Events` |
| interfaces (`util.c`) | `interfaces` (private), the file with the address, the header of the region | `setupIface`, `registerInterface`, the searches by address of `connectEx`, `accept4` and `epoll_pwait` | `Interfaces` |
| shared list (`list.c`, the `ll` submodule) | nodes in the region | insert, remove by index, get, length | external: one step per operation on a sequence |
| allocator (`custom-malloc` submodule) | heap in the region, current context | `malloc`, `free` | external: the set `live` of `Connection`, the `Blocks` of `Interfaces` |
| API lock (`api-tools.h`) | a mutex | `FUNC_LOCK`, `SLEEP_LOCKED` | not modelled: compiled out by `NOLOCK` (`socket.c:121`, `event.c:189`) |
| names and options (`socket.c`) | none that matters here | `getsockname`, `setsockopt`, `ioctl`, ... | not modelled |

How they interact. `connect` allocates a connection in the region and inserts it in the list; an `accept` of the
other process finds it there and writes `c_open`; from then on each side has a socket whose `pConn` is the same
address. `send` appends a packet to the list that is the other's `recvBuffer` and sets `EPOLLIN` in the other's
event mask; `close` writes `c_close` and sets `EPOLLHUP`, or frees the connection if the other has closed before.
`epoll_pwait` polls: it looks at the masks, the lists and `connState` of all its listeners, sleeps 100 us, and looks
again. The descriptor tables are private, but their entries point to each other (a listener to a slot of `fds`) and
into the region (`pConn`). The region is full of pointers, so both processes must map it at the same address: the
server leaves the address in a file, clears the region and initialises it; a client reads the file and attaches.
Nothing tells the client when the region is ready, or that a server that was started again has cleared it.

What is hard. Everything shared is read and written without a lock, so a test and what it guards are two steps:
both sides close at once; an accept writes `c_open` after its test; `recv` looks at the list, then at `connState`;
`SET_EVENT` and `CLEAR_EVENT` are unlocked read-modify-writes of one word; `llist_remove` finds an index, then
removes whatever is there. Addresses of freed connections are used again. Slots of the private tables are used
again too, with listeners still pointing to them. Numbers are never used again. The region outlives its processes: one
that is killed leaves its connections there, a server that restarts clears it under its client, and a client that
starts meanwhile reads an old address, an empty file or a region that is half initialised. Blocking is polling, so everything
that returns must be shown to return. `PROJECT.json` lists these hazards at their lines, with the properties that
cover them.

What makes each part correct. *Connection*: what a socket relies on stays allocated, a connection is accepted once,
closed for good, freed once. *Channel*: the bytes read are the bytes written, in order, and the end comes after all
of them. *Events*: an application that waits is woken when it must be, and not told what is not so; timeouts are
kept. *Descriptors*: a number means one thing, an event is reported for the socket it was asked for, `poll` leaves
nothing behind and is refused only for a cause. *Interfaces*: who attached to a region that was ready uses good pointers
until it is cleared, a connection reaches the process it is addressed to, memory comes back.

## 2. The modules

A definition has the name of the function it models where one function is one step; `PROJECT.json` ("map") names the
lines of each. An action models what a process does between two accesses to shared memory that the other could come
between; in `Descriptors`, where all is private, a whole call. Definitions whose name says what is wrong with them
(`RestKeepsSize`, `AcceptableInAnyState`, ...) are *mutants*: each is put in the place of the definition that follows
it to see that a property notices. They are no part of any specification.

**Connection** (`MCConnection`). One interface, two processes. `connState`, `port`, `live` and `list` are the region;
`fd[p]` are the slots of process p; `call[p]` is the call p executes: its program counter, slot and loop variables.
`ConnectNew`, `ConnectInsert`, `ConnectTest`, `ConnectTest2` are `connectEx`; `PollConnecting` its second call on a
non-blocking socket; `AcceptStart`, `AcceptGet`, `AcceptTest`, `AcceptOpen` the search of `accept4`, entry by entry;
`CloseTest1`, `CloseTest2`, `CloseWrite`, `CloseEvent` are `closeConnection`; `RemoveGet`, `RemoveIndex`,
`RemoveFree` are `llist_remove` and `free`. An access to a freed connection sets `ub` and ends the behaviour: C
promises nothing from there. `closers`, `disturbed` and `crossed` are history variables, read by properties only.
The listening socket is not among the slots: it is never closed here and its own ("shadow") connection is not shared.

**Lifecycle** is the promise of `Connection`: a connection is offered by one process, accepted once by the other, left
by each once, and released once, by a process that is then the only one to have it. It has `phase` (none, offered, open,
closed) and `ends`, the processes with a socket on the connection. `Connection` implements it (`LifecycleRefinement`)
with phase = what `connState` says of an allocated connection, and ends = the processes that hold it and have not
written `c_close`; all that a call reads, its walk through the list and the list itself are stutters. Two ends of
the promise are left open by the code and are named in `Lifecycle`: if both leave at once nobody releases (`Leave` of
the second), and an accept that crosses a withdrawal breaks it (`Cross`, then `Anything`).

**Channel** (`MCChannel`), **ByteStream**. One direction of an open connection. A byte is its position in the stream,
so a lost, repeated or reordered byte shows. `RecvLook` (is the list empty?), `RecvTake` and `RecvTest` (is it
closed?) are the steps of `recv`. `ByteStream` is the promise: bytes are read in the order they were written, and none
after the end. `Channel` implements it with written = `queued`, read = `out`, finished = the receiver's socket is not
open.

**Events** (`MCEvents`). One watched socket (listening, connecting or open; the three kinds of initial states), its
masks, a peer that connects, accepts, sends and closes when it likes, and the application's loop around
`epoll_pwait`. The two accesses of `SET_EVENT` and of `CLEAR_EVENT` are steps. The application is external and is
assumed to be a proper event loop: after an edge-triggered event it receives until `EAGAIN`, and a socket reported as
connected it receives from at once (its first data share the bit of the connect event). Other sockets of the same
instance are left out; they add events to the array, and `maxevents` is taken to be large enough.

**Descriptors** (`MCDescriptors`). The tables of one process; a listener points to a slot, as in the code. What the
other process does to a connection shows as a choice (`Prepare`, the `opened` sockets of `Scan`). `poll` is split at
its calls of `epoll_ctl` because each may fail, and what was registered before stays. `Accept` with a full table, and
a scan of a socket that has no connection, use a NULL pointer: `ub`. Numbers below `FD_START` are files: `kernel[e]` is
the instance of the kernel that slot `e` forwards them to (`Forwarded`), created at the first file, once, and kept by the
slot when its instance is closed. `inherited` and `early` are history variables that name the causes properties except.

**Interfaces** (`MCInterfaces`). A server and clients, and the regions that the server shares with each. `addrFile`,
`header` (`mctx`, `list` and the two addresses of `struct interface`) and `conn` survive the processes; `interfaces[p]`
is the table of `p`, `at[p]` and `local[p]` the call it executes. `ServerAttach`, `ServerOpenFile`, `ServerWriteFile`,
`ServerClear`, `ServerFill`, `ServerHeap`, `ServerList` are `registerInterface` of a server, `ClientRead` and
`ClientAttach` that of a client, at the grain at which the other can look; `SetupFails` is every `exit(1)` of
`setupIface`, `Kill` a process that is killed at any point. `ConnectFind`, `ConnectNew`, `ConnectInsert` are
`connectEx`; `Accept` and `Close` are one step here, because what happens inside a connection is the subject of
`Connection`; the list is a set, because which of several connections is accepted first is not asked. A pointer is
good where the region was mapped when it was written; using another one sets `ub`. The server's `own` is the client's
`remote` (`Own`, `Remote`): one header serves both. `ready`, `calm`, `epoch` and `orphaned` are history: the region was
set up and no server started since, the process read the address then, how often it was cleared, whether a process
died with connections there.

Modules that compose: `Channel` with `ByteStream` and `Connection` with `Lifecycle` by refinement. `Interfaces` is built
on the same `Lifecycle`, one for each region (`Life(r)` in `InterfacesSafetyProofs`), so that its single steps for accept
and close are steps of what `Connection` is shown to implement access by access. `Connection`, `Channel` and `Events` split the one
connection by concern: `Connection` shows that `connState` goes from create to open to close and that the memory
is there while a socket has it, which `Channel` and `Events` take for granted. `Interfaces` is what `Connection` takes
for granted: its list and its memory are there, and mapped where the pointers say, in every region that was ready when the
process came (`SafeOnceReady`).

## 3. The runs

| Run | Instance | States | Question |
|---|---|---|---|
| `connection_safety` | 2 processes, 2 sockets each, 2 addresses, one side non-blocking in connect, the other in accept | 873,858 | is memory safe, each connection accepted once, the list exact; does it all implement `Lifecycle` |
| `connection_live` | 1 socket each, 2 addresses | 318,861 | do close, connect and accept return |
| `channel` | send of 0, 1, 2 bytes, sendmsg of 1+2, buffers of 0 to 2 bytes, up to 6 bytes, 3 packets | 12,984 | is it a byte stream, does recv return |
| `events` | every interest, both triggers, all three kinds of socket; 16-bit int; timeouts -1, 0, 1 and 33 ms | 239,376 | are wake-ups kept, does `epoll_pwait` return in time |
| `descriptors` | 2 slots per table, 3 + 2 numbers, a file, 3 lists to poll | 4,142,098 | do the tables and the kernel's instances keep their order |
| `interfaces` | server and 1 client, 2 regions with 2 connections each, server started twice, client once, 1 connected socket each | 657,584 | is a region safe once it was ready, do connections arrive, does memory come back |
| `close_uaf`, `list_race`, `refused`, `eof`, `stale_listener`, `ranges` | as above, blocking sockets | - | six statements of comments that the code does not keep (section 6) |

What the properties of the passing runs say is written above each of them. `HeldIsLive`, `SoleHolder`,
`OpenHasBothEnds`, `CloseIsFinal` and `ListExact` relate the memory to what each process believes; `FreedAccessOnlyThere`
and `LeakOnlyOnSimultaneousClose` say that the two known races (section 6) are the only ways to a freed access or a
leak. `LifecycleRefinement` says what is left for a user of `connect`, `accept` and `close` when all of this is put together. `StreamRefinement` and `Contiguous` are about the data, `EofAfterCloseIsComplete` about the one case in which the
end of the stream can be trusted. `NoLostWakeup` is the central property of `Events`: a set event *can* be overwritten,
but never one the application has yet to act on. `ListenersFollowFds` says that closing a socket that a listener has is
the *only* way to events of another socket; `PollRestores` that a failing `epoll_ctl` is the only way for `poll` to
leave something behind; `PollFailsForCause` that `poll` is refused for nothing an earlier call has left; `NullForCause`
names the ways to a NULL pointer. `SafeOnceReady` names the windows of `registerInterface` as the only way to a wild
pointer; `AddresseeAccepts` and `ConnectIsNoticed` are about routing, safety and liveness of it; `MemoryIsReturned` says
that only a process that is killed leaves connections in a region.

**Bounds, and why they are enough.** Two processes are what the library supports. Two sockets per process and two
addresses let an address be freed and used again while the other process still walks the list, and let both processes
close two connections at once; the list bound (2, or 3 for liveness) only stops new connects. The safety of `Connection`
is stated up to a *crossing*: a non-blocking creator gives up a connection (`close` in state `c_create`) in the moment
the other accepts it. Then the other has a socket on freed memory, nothing can be said any more, and the run stops there
(`NoCrossing`); what precedes is explored in full. Six bytes in packets of at most two, received one at a time, exercise
every split of a packet; three packets make a first, a middle and a last one. Two packets and two pending
connections are what it takes to have one left after one was taken. With 16-bit integers the timeout that overflows is 33 ms
instead of 36 minutes: the waits stay short, and `IntMax` is a parameter of the proof. Three numbers for two slots let a
slot be used again, and the counter leave its range; one of the lists to poll mixes the file with a socket, one names a
socket twice, so that `poll` fails in the middle. In `interfaces` the second start of the server meets a client in every
phase of its setup and of its calls, and the client registers the regions in the other order; two connections fill a
region, so that `malloc` fails; the client listens on 0.0.0.0 and the server on its address, one waits in `epoll_pwait`
and one in `accept`, and every address is tried by everyone, also those nobody has. The proofs of section 5 do not depend on these bounds.

**Symmetry**: slots and addresses in `connection_safety`; not processes, which differ, and not in the runs with
liveness. **Deadlock** is checked except in `descriptors`, where a process that has used up its numbers and closed
all its sockets can really do nothing more, and in `interfaces`, where everyone may be dead when the starts are used up.

## 4. Fairness

`FairSpec` assumes that a call, once started, is executed: weak fairness of the steps inside a call (`InCall(p)`;
`Sending`, `Receiving`; `PeerSets`, `Epoll`). The operating system schedules both processes and the sleeps return. Weak
fairness is enough because inside a call a process always has a step to take: it polls and never blocks. No application
is assumed to make a call: the liveness properties are about a call that is under way and about conditions that the
code itself must notice. So `AcceptReturns` is about an accept while the other process waits in `connect`, and excepts
the case in which a disturbed `llist_remove` dropped the connection from the list; `ConnectReturns` of `Events` excepts
connections that were closed before the scan saw them open, which `epoll_pwait` never reports. In `Interfaces`, weak
fairness of `Accept(p)` says that a process that listens accepts when it can, which is what its event loop is for;
`ConnectIsNoticed` then needs that `epoll_pwait` and `accept4` find what `connect` has left, on whichever interface. It
excepts a process that listens on 0.0.0.0 and waits in `epoll_pwait` (section 6).

## 5. The proofs

All theorems are checked by TLAPS to the last leaf, for every value of the constants that satisfies the named
assumptions (there are two processes, NULL is no address, bounds are numbers, the ranges are in order).

| Module | Theorems | Argument |
|---|---|---|
| `ConnectionProofs` | `TypeOK` | with `Frame`: the registers of a call are set when its steps read them; then the invariant `Core` that the next module uses |
| `ConnectionSafetyProofs` | `HeldIsLive`, `SoleHolder`, `LeakOnlyOnSimultaneousClose`, `OpenHasBothEnds`, `FreedAccessOnlyThere`, `CloseIsFinal`, `ListExact`, `LifecycleRefinement`; no crossing with blocking connects, and then `Lifecycle` without exception; the life of a connection goes forward only; an undisturbed `llist_remove` removes its entry; a connect is refused by the peer only | the invariants `Core`, `ListInv` and `Waiting`, below |
| `ChannelProofs` | `TypeOK`, `Contiguous`, `EofAfterCloseIsComplete`, `ReportedIsQueued`, `StreamRefinement`; what was read is the beginning of what was written | `ClosedBy`: the list is deleted only when both have closed; `EndedForGood`: a stream seen to end stays ended |
| `EventsProofs` | `TypeOK`, `NoLostWakeup`, `NoLostHangup`, `LevelInIsTrue`, `TimeoutIsKept`; a bound on the steps of a wait | `MaskIsFresh`, `LostOnlyToClose`, `Clock`, below |
| `DescriptorsProofs` | `NumbersAreUnique`, `OneListenerPerFd`, `ListenersFollowFds`; numbers are spent once given out, and run out | `FreshNumbers`, `PollAccount`: the listeners in the instance of `poll` are those of the entries it has added and not yet deleted |
| `PollProofs` | `TypeOK`, `ClosedEpollForgets`, `PollRestores`, `PollFailsForCause`, `NullForCause` | `FileAccount`: the same account of the files; `Connected`: which sockets have a connection |
| `InterfacesProofs` | `TypeOK` | `TypeInv`, `SetupInv`, `HolderInv`, below |
| `InterfacesSafetyProofs` | `SafeOnceReady`, `AddresseeAccepts`, `MemoryIsReturned`; every region lives by `Lifecycle` | with `Fresh` and `Addressed` |

*Connection.* None of the safety properties is inductive. `Ownership` ties the state of a connection to who has it: in
`c_create` only its creator; after that everyone who has not written `c_close`; in `c_close` someone has. `RemoverIsAlone`
says that a process that removes a connection is the last one that had it, `CloseKnows` that the state it read cannot
change any more, `AcceptIsDue` that an accept about to write `c_open` still finds its connection as it tested it, which
is what a crossing breaks. These theorems also assume `PortsApart`: no process takes the port it listens on as the own
port of a connection. The code counts own ports up from 10000 without looking (`socket.c:291`) and tells its own
connections from the peer's by the port alone, so without it a process accepts itself.

`ListExact` has an invariant of its own, `ListInv`, for as long as no removal was disturbed: the index a `llist_remove` has
reached is not past the entry it looks for, and once found the index stays the entry's. Its loop then never ends without
finding, because an allocated connection is missing from the list only while its creator is about to insert it or its
remover about to free it, and no two of these calls have the same connection (`Apart`).

The exception `~crossed` of all these is needed for non-blocking connects only: `BlockingNeverCrosses` shows that no
crossing happens with `NonblockConnect = {}`, because a connection that waits to be accepted then has a creator within
`connectEx` (`Waiting`), who cannot be removing it.

`ConnectionIsLifecycle` maps every step. `CloseWrite` is the step at which a process leaves, because what it holds counts
until then; `RemoveFree`, which frees, is a `Release`, and that the remover is the only end left is `RemoverIsAlone`; that
an `AcceptOpen` finds the connection offered, and not its own, is `AcceptIsDue`. From the refinement and not from the
code follows `ConnectionsAgeInOrder`: phases go forward only, and a connection that nobody has and nobody released is
never released. `UndisturbedRemoval` and `RefusedByTheOther` are about the statements that the runs `list_race` and
`refused` refute: the first holds as long as no other call changes the list under `llist_remove`, so that race is the only
reason why it fails; the second says that a connect is refused only after a close of the other side, never of its own.

*Channel.* The refinement carries over what is proved of the abstract stream: `StreamIsRead` shows, for `ByteStream`
alone, that the bytes read are 1, 2, 3, ... and no more than were written, and `ReceivedInOrder` is that for `recv` and
`send`.

*Events.* `NoLostWakeup` breaks if a peer that sets the hang-up overwrites `EPOLLIN` with an old mask; it does not,
because a peer sends and closes in sequence, and nobody else sets the bit (`MaskIsFresh`). It breaks if an application
goes back to rest with its event cleared; it does not, because it clears before it receives. For the connect event,
`LostOnlyToClose` says that the peer's only write that can come in between is the hang-up, and then the socket does not
open. `TimeoutIsKept` needs that `Wrap` is the identity on what fits (`WrapIsExact`) and that no sleep of an earlier wait
is counted (`Clock`). `WaitsAreBounded` is what can be proved of `TimedWaitReturns` without fairness: `Left` is a natural
number (by `Clock`, the sleeps cannot exceed the timeout by more than one), every step of `epoll_pwait` that does not
return makes it smaller, and no step of the peer changes it. That `epoll_pwait` does take its steps is the assumption of
`FairSpec`. Timeouts whose product overflows are left to the run, which has one.

*Descriptors.* A listener is found by the number of its slot, so `OneListenerPerFd` rests on `NumbersAreUnique`,
`PollRestores` on both: a DEL takes the only listener there is for its entry. `FileAccount` needs that no socket has
the number of a file, which `FreshNumbers` keeps. `PollFailsForCause` is a pigeonhole argument on the account: were all
`MAX_FDS_LISTEN` listeners of the instance taken, each would be for another one of the fewer entries before the next, by
`OneListenerPerFd` and `NumbersAreUnique`. `NullForCause` follows from `Connected` (no listener points to a socket
without a connection, but for the two causes) and from `ListenersFollowFds`, which keeps listeners from slots that become
new sockets.
`NumbersAreSpent` says of every step that a number below the counter names what it named before: what an application
does with a number that it has closed is refused and not done to another socket. Its price is `NumbersRunOut`, the
hazard of `socket.c:153` that no run states.

*Interfaces.* `SafeOnceReady` is not inductive: it says nothing of a region that is being set up. `SetupInv` follows each
region through `registerInterface`: while `ready`, the pointers in the header are those of the address in the file, and
the server is not in its setup of it; a client that read the address while `ready` and is not yet attached has it in
`local`. `HolderInv` says who may have a connection: in `create` its creator, in `close` one process at most; and, unless
a process was killed that had connections there, that somebody has it.
`Fresh` says that sockets of a process that was set up in time are of the present epoch, `Addressed` that what `connect`
stored is the word of the header that the other process reads as its own address. The addresses, the number of clients
and regions, the starts and the kills are arbitrary.
`RegionsAreLifecycles` closes the gap between the two models of a connection. As long as a region is not cleared and nobody
is killed who has a connection there (both end the promise, as `epoch` and `orphaned` record), every step of `Interfaces`
offers, accepts, leaves or releases a connection as `Lifecycle` has it, with `HolderInv` for who has it. `Interfaces`
needs no crossing: its connect blocks, and for blocking connects `BlockingIsLifecycle` proves the same of `Connection`.

Only model-checked: all liveness, which is out of the prover's reach (so is `ENABLED`, which fairness needs); for
`TimedWaitReturns` the descent is proved and only the fairness is not. Every
invariant and every action property of the runs that pass is proved.

## 6. What the code does otherwise than it says

Each is a run that ends in a counterexample to a statement of a comment; `PROJECT.json` quotes both.

1. `close_uaf`: closing from both sides at once is said to leak at worst (`util.c:516-517`). The side that wrote
   `c_close` first sets the hang-up event in memory that the other may have freed.
2. `list_race`: `llist_remove` removes by an index it looked up before; an insert in between makes it remove another
   entry and leave a freed one in the list (`list.c:31`).
3. `refused`: a connection that was accepted and closed before `connect` looks is reported as refused, its data are
   never read (`util.c:397`, `socket.c:301`).
4. `eof`: `recv` may report the end of the stream with data left (`socket.c:390`).
5. `stale_listener`: a listener of a closed socket answers for the next socket in its slot (`event.c:89`).
6. `ranges`: `accept4` hands out numbers of the epoll range (`socket.c:257`).

Seen while modelling, without a run of their own: `accept4` checks `fd` instead of `newFd` after taking a slot
(`socket.c:255`); `epoll_pwait` follows the NULL `pConn` of a created or bound socket (`event.c:340`; `NullForCause` shows
when); a listening socket
reports `EPOLLIN` whether asked for or not, against `event.c:391`; `isMixed` of a closed epoll instance stays for the
next (`event.c:132`), and the kernel's instance is never closed; when the kernel gives none, `isMixed` is set all the
same (`event.c:243`); a search for connections treats 0.0.0.0 as an address (`util.c:429`) where accepting takes it as any
(`util.c:467`; its comment says that it means all interfaces), so such a listener is never reported readable
(`ConnectIsNoticed` excepts it); the addresses a client passes to `registerInterface` are ignored, those of the server
count; `magic` and `active` of an interface are written and never read; the packets left in a connection are not freed with
their list; a non-blocking connect that is given up can be accepted at the same time (the crossing of section 3);
`SLEEP_LOCKED` (`api-tools.h`) takes the lock before and releases it after the sleep, the reverse of what
`event.c:489-490` wants, in a configuration that is never compiled.

## 7. Not modelled, and the plan

Left out of all models: formatting and names; threads sharing a descriptor (the library is built without its lock);
packets filling the region, where the result of `malloc` is used untested (`util.c:530`): `Interfaces` has a region that
is full of connections, which is the same line of thought; `fcntl` and the flags of sockets, except that a socket may
be non-blocking (a parameter of `Connection`).

Not modelled at all, and why:

- *enclaves* (`registerInterface2`, `MODE_FIXED_REGION`): they initialise a region by the steps of a server, at an
  address they are given; nothing is read from a file, so the windows of `Interfaces` are there without the file;
- *the current malloc context*, a global that every access sets first: two threads would share it, but the library is
  built for one;
- *the API lock*: compiled out; *names and options*: they change no state that another call reads;
- the submodules (list, allocator) are empty here: they are modelled by what their names promise, one step each. Whether
  two processes may use the list and the allocator at the same time is a question of its own that no model here can see.

A hazard that no property of a run covers is left in `PROJECT.json`: after 200 sockets `socket()` fails for ever
(`socket.c:153`), which is how the counter is meant; the run `descriptors` reaches it, `NumbersRunOut` proves it. Nor does a property say that a listener late in the
table is ever reported when `maxevents` is filled by the ones before it: the scan always starts from the first, and an
application that does not handle its events may starve the others.

The order of the project was: `Connection` (what everything rests on), `Channel` and its abstraction, `Events`,
`Descriptors`, `Interfaces`, then the kernel's half of `Descriptors`, each with its run before its proof. What could come
next:

1. `Events` with several sockets in one instance, for the question of starvation above.
2. `Connection` in a region of `Interfaces`, in one module, with `Accept` and `Close` at the grain of `Connection`: the
   searches over several interfaces interleaved with the races on one connection. Its state space is the product of
   the two. `RegionsAreLifecycles` and `ConnectionIsLifecycle` answer the part of that question that concerns who has a
   connection; what is left is the order of the searches.
