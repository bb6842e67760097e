---------------------------- MODULE Descriptors ----------------------------
(***************************************************************************)
(* The descriptor tables of one process: the sockets (fds, socket.c), the  *)
(* epoll instances with their listeners (pollfds, event.c), the numbers    *)
(* they are given, and poll, which uses an epoll instance of its own.      *)
(* Numbers below FD_START are files of the kernel: epoll_ctl forwards them *)
(* to an epoll instance of the kernel, which the slot keeps.               *)
(*                                                                         *)
(* The tables are private to a process of one thread, so a call is one     *)
(* step; poll is split where epoll_ctl may fail, and nothing else runs     *)
(* while it does.                                                          *)
(*                                                                         *)
(* Abstractions: what happens to the connection of a socket is left to     *)
(* Connection, so connect, accept and the events found are a choice; event *)
(* masks, addresses and flags are left out; a call that fails without a    *)
(* change of state is no step.  Every file can be polled, and is open, or  *)
(* opened again at once; the events of files change nothing here.          *)
(***************************************************************************)
EXTENDS Integers, Sequences

CONSTANTS
    FD_START, POLLFD_START, SYSTEM_MAX_FD,    \* the ranges of numbers
    MAX_FDS, MAX_POLLFDS, MAX_FDS_LISTEN,     \* the sizes of the tables
    Files,        \* the files of the kernel that the process polls
    PollLists,    \* what the application polls: sequences of numbers
    MaxNumber     \* bound: no accept once this number is reached

ASSUME RangeAssumption ==
    /\ FD_START \in Nat /\ POLLFD_START \in Nat /\ SYSTEM_MAX_FD \in Nat
    /\ FD_START < POLLFD_START /\ POLLFD_START < SYSTEM_MAX_FD
ASSUME SizeAssumption ==
    MAX_FDS \in Nat \ {0} /\ MAX_POLLFDS \in Nat \ {0} /\ MAX_FDS_LISTEN \in Nat \ {0}
\* Numbers below FD_START are those of the kernel.
ASSUME FilesAssumption == Files \subseteq Nat /\ \A f \in Files : f < FD_START
ASSUME PollListsAssumption ==
    /\ PollLists \subseteq Seq(Nat) /\ MaxNumber \in Nat
    /\ \A list \in PollLists : \A i \in DOMAIN list : list[i] \in Files \/ list[i] >= FD_START

VARIABLES
    fds,            \* fds[i]: active, num, state
    currentMaxFd,   \* the next number of a socket
    pollfds,        \* pollfds[e]: active, num
    randomPollFd,   \* the next number of an epoll instance
    lfds,           \* lfds[e][k]: active, the slot it points to, its user data
    kernel,         \* kernel[e]: realPollfd (none unless isMixed), the files it has
    epollfd,        \* the static epollfd of poll
    poll,           \* the call of poll: step, its list, the next index
    strayed,        \* history: a socket was closed while a listener had it
    leaked,         \* history: poll failed between adding and deleting
    inherited,      \* history: an instance was closed when it had files
    early,          \* history: a socket without a connection was added
    ub              \* a NULL pointer was used

socketVars == <<fds, currentMaxFd>>
epollVars  == <<pollfds, randomPollFd, inherited>>
listenVars == <<lfds, kernel, early>>
pollVars   == <<epollfd, poll, leaked>>

vars == <<socketVars, epollVars, listenVars, pollVars, strayed, ub>>

FdSlots   == 0..(MAX_FDS - 1)
PollSlots == 0..(MAX_POLLFDS - 1)
Listeners == 0..(MAX_FDS_LISTEN - 1)

FdStates == {"created", "bound", "listen", "connecting", "open"}

\* The fields of entries that are not active are not read.
NoFd       == [active |-> FALSE, num |-> 0, state |-> "created"]
NoEpfd     == [active |-> FALSE, num |-> 0]
NoListener == [active |-> FALSE, fd |-> 0, data |-> 0]

NoPoll == [at |-> "idle", fds |-> <<>>, i |-> 1]

Init ==
    /\ fds = [i \in FdSlots |-> NoFd]
    /\ currentMaxFd = FD_START
    /\ pollfds = [e \in PollSlots |-> NoEpfd]
    /\ randomPollFd = POLLFD_START
    /\ lfds = [e \in PollSlots |-> [k \in Listeners |-> NoListener]]
    /\ kernel = [e \in PollSlots |-> [fd |-> "none", files |-> {}]]
    /\ epollfd = -1 /\ poll = NoPoll
    /\ strayed = FALSE /\ leaked = FALSE /\ inherited = FALSE /\ early = FALSE /\ ub = FALSE

\* The tables are searched from the start.
First(i, S) == i \in S /\ \A j \in S : i <= j

Ready == ~ub /\ poll.at = "idle"

---------------------------------------------------------------------------
(* Sockets                                                                *)

Numbered(n) == {i \in FdSlots : fds[i].active /\ fds[i].num = n}
FreeFds     == {i \in FdSlots : ~fds[i].active}

\* A free slot becomes a socket with the next number.
NewFd(i, st) ==
    /\ First(i, FreeFds)
    /\ fds' = [fds EXCEPT ![i] = [active |-> TRUE, num |-> currentMaxFd, state |-> st]]
    /\ currentMaxFd' = currentMaxFd + 1

Socket ==
    /\ Ready
    /\ currentMaxFd < POLLFD_START
    /\ \E i \in FdSlots : NewFd(i, "created")
    /\ UNCHANGED <<epollVars, listenVars, pollVars, strayed, ub>>

\* The socket in slot i goes from one state to another.
Becomes(i, from, to) ==
    /\ fds[i].active /\ fds[i].state = from
    /\ fds' = [fds EXCEPT ![i].state = to]

\* Mutant of Prepare: a refused connection makes the socket a new one.
PrepareRefused ==
    /\ Ready
    /\ \E i \in FdSlots :
         \/ Becomes(i, "created", "bound")
         \/ Becomes(i, "bound", "listen")
         \/ Becomes(i, "created", "connecting")
         \/ Becomes(i, "connecting", "open")
         \/ Becomes(i, "connecting", "created")
    /\ UNCHANGED <<currentMaxFd, epollVars, listenVars, pollVars, strayed, ub>>

\* bind, listen, and connect, which may have to wait to be accepted.
Prepare ==
    /\ Ready
    /\ \E i \in FdSlots :
         \/ Becomes(i, "created", "bound")
         \/ Becomes(i, "bound", "listen")
         \/ Becomes(i, "created", "connecting")
         \/ Becomes(i, "connecting", "open")
    /\ UNCHANGED <<currentMaxFd, epollVars, listenVars, pollVars, strayed, ub>>

\* Mutant of Accept: the number is not used up.
AcceptKeepsNumber ==
    /\ Ready
    /\ currentMaxFd < MaxNumber
    /\ \E l \in FdSlots : fds[l].active /\ fds[l].state = "listen"
    /\ \E i \in FdSlots :
         /\ First(i, FreeFds)
         /\ fds' = [fds EXCEPT ![i] = [active |-> TRUE, num |-> currentMaxFd,
                                       state |-> "open"]]
    /\ UNCHANGED <<currentMaxFd, epollVars, listenVars, pollVars, strayed, ub>>

\* accept4 has accepted a connection: it tests fd where it means newFd, and
\* the number not at all.
Accept ==
    /\ Ready
    /\ currentMaxFd < MaxNumber
    /\ \E l \in FdSlots : fds[l].active /\ fds[l].state = "listen"
    /\ IF FreeFds = {}
         THEN ub' = TRUE /\ UNCHANGED socketVars
         ELSE (\E i \in FdSlots : NewFd(i, "open")) /\ UNCHANGED ub
    /\ UNCHANGED <<epollVars, listenVars, pollVars, strayed>>

\* The listeners that point to slot i.
Watches(i) ==
    \E e \in PollSlots, k \in Listeners : lfds[e][k].active /\ lfds[e][k].fd = i

\* handleSockfdClose: close of a number below POLLFD_START.  The slot is free,
\* the listeners stay.
CloseSocket ==
    /\ Ready
    /\ \E i \in FdSlots :
         /\ fds[i].active /\ fds[i].num < POLLFD_START
         /\ fds' = [fds EXCEPT ![i] = NoFd]
         /\ strayed' = (strayed \/ Watches(i))
    /\ UNCHANGED <<currentMaxFd, epollVars, listenVars, pollVars, ub>>

\* close of a file: the kernel forgets it everywhere.
CloseFile ==
    /\ Ready
    /\ \E f \in Files :
         kernel' = [e \in PollSlots |-> [kernel[e] EXCEPT !.files = @ \ {f}]]
    /\ UNCHANGED <<socketVars, epollVars, lfds, early, pollVars, strayed, ub>>

---------------------------------------------------------------------------
(* Epoll instances                                                        *)

Epfd(n) == {e \in PollSlots : pollfds[e].active /\ pollfds[e].num = n}

Create(e) ==
    /\ randomPollFd < SYSTEM_MAX_FD
    /\ First(e, {x \in PollSlots : ~pollfds[x].active})
    /\ pollfds' = [pollfds EXCEPT ![e] = [active |-> TRUE, num |-> randomPollFd]]
    /\ randomPollFd' = randomPollFd + 1

EpollCreate ==
    /\ Ready
    /\ \E e \in PollSlots : Create(e)
    /\ UNCHANGED <<socketVars, inherited, listenVars, pollVars, strayed, ub>>

\* Mutant of CloseEpoll: the listeners stay.
CloseEpollKeepsListeners ==
    /\ Ready
    /\ \E e \in PollSlots :
         /\ pollfds[e].active
         /\ pollfds[e].num # epollfd \/ Numbered(epollfd) # {}
         /\ pollfds' = [pollfds EXCEPT ![e] = NoEpfd]
         /\ inherited' = (inherited \/ kernel[e].files # {})
    /\ UNCHANGED <<socketVars, randomPollFd, listenVars, pollVars, strayed, ub>>

\* handleEpfdClose: close of a number from POLLFD_START on.  The application
\* knows the numbers of its own instances and of its sockets.  The slot keeps
\* the instance of the kernel with its files.
CloseEpoll ==
    /\ Ready
    /\ \E e \in PollSlots :
         /\ pollfds[e].active
         /\ pollfds[e].num # epollfd \/ Numbered(epollfd) # {}
         /\ pollfds' = [pollfds EXCEPT ![e] = NoEpfd]
         /\ lfds' = [lfds EXCEPT ![e] = [k \in Listeners |-> NoListener]]
         /\ inherited' = (inherited \/ kernel[e].files # {})
    /\ UNCHANGED <<socketVars, randomPollFd, kernel, early, pollVars, strayed, ub>>

\* getListenerForFd: the listeners whose slot has number n now.  epoll_ctl has
\* made sure that n is active.
ListenersFor(e, n) ==
    {k \in Listeners : lfds[e][k].active /\ fds[lfds[e][k].fd].num = n}

FreeListeners(e) == {k \in Listeners : ~lfds[e][k].active}

\* Mutant of CanAdd: a listener that exists is no error.
CanAddTwice(e, n) == Numbered(n) # {} /\ FreeListeners(e) # {}

\* EBADF, EEXIST and ENOMEM.
CanAdd(e, n) ==
    Numbered(n) # {} /\ ListenersFor(e, n) = {} /\ FreeListeners(e) # {}

\* Mutant of Add: the listener points to the first socket.
AddFirstFd(e, n) ==
    \E i \in FdSlots, k \in Listeners :
        /\ First(i, {j \in FdSlots : fds[j].active}) /\ First(k, FreeListeners(e))
        /\ lfds' = [lfds EXCEPT ![e][k] = [active |-> TRUE, fd |-> i, data |-> n]]

Add(e, n) ==
    \E i \in FdSlots, k \in Listeners :
        /\ First(i, Numbered(n)) /\ First(k, FreeListeners(e))
        /\ lfds' = [lfds EXCEPT ![e][k] = [active |-> TRUE, fd |-> i, data |-> n]]

\* EBADF and ENOENT.
CanDelete(e, n) == Numbered(n) # {} /\ ListenersFor(e, n) # {}

Delete(e, n) ==
    \E k \in Listeners :
        /\ First(k, ListenersFor(e, n))
        /\ lfds' = [lfds EXCEPT ![e][k] = NoListener]

\* The kernel's instance a file is forwarded to.  The first file asks the kernel
\* for one, once: also when it gives none, the slot is mixed ever after.
Forwarded(e) ==
    IF kernel[e].fd = "none"
      THEN [fd : {"open", "failed"}, files : {{}}]
      ELSE {kernel[e]}

\* epoll_ctl(ADD) returns 0.  A socket that is not listening or connected yet
\* has no pConn.
AddSucceeds(e, n) ==
    \/ /\ n \in Files
       /\ \E k \in Forwarded(e) :
            /\ k.fd = "open" /\ n \notin k.files
            /\ kernel' = [kernel EXCEPT ![e] = [k EXCEPT !.files = @ \union {n}]]
       /\ UNCHANGED <<lfds, early>>
    \/ /\ n \notin Files
       /\ CanAdd(e, n) /\ Add(e, n)
       /\ early' = (early \/ \E i \in Numbered(n) : fds[i].state \in {"created", "bound"})
       /\ UNCHANGED kernel

\* It returns -1.
AddFails(e, n) ==
    /\ \/ /\ n \in Files
          /\ \E k \in Forwarded(e) :
               /\ k.fd = "failed" \/ n \in k.files
               /\ kernel' = [kernel EXCEPT ![e] = k]
       \/ n \notin Files /\ ~CanAdd(e, n) /\ UNCHANGED kernel
    /\ UNCHANGED <<lfds, early>>

\* Mutant of DeleteSucceeds: DEL is not forwarded to the kernel.
DeleteNotForwarded(e, n) ==
    /\ \/ n \in Files /\ UNCHANGED <<kernel, lfds>>
       \/ n \notin Files /\ CanDelete(e, n) /\ Delete(e, n) /\ UNCHANGED kernel
    /\ UNCHANGED early

\* epoll_ctl(DEL) returns 0, or -1.
DeleteSucceeds(e, n) ==
    /\ \/ /\ n \in Files
          /\ \E k \in Forwarded(e) :
               /\ k.fd = "open" /\ n \in k.files
               /\ kernel' = [kernel EXCEPT ![e] = [k EXCEPT !.files = @ \ {n}]]
          /\ UNCHANGED lfds
       \/ n \notin Files /\ CanDelete(e, n) /\ Delete(e, n) /\ UNCHANGED kernel
    /\ UNCHANGED early

DeleteFails(e, n) ==
    /\ \/ /\ n \in Files
          /\ \E k \in Forwarded(e) :
               /\ k.fd = "failed" \/ n \notin k.files
               /\ kernel' = [kernel EXCEPT ![e] = k]
       \/ n \notin Files /\ ~CanDelete(e, n) /\ UNCHANGED kernel
    /\ UNCHANGED <<lfds, early>>

\* epoll_ctl on an instance of the application.  What MOD of a file does to the
\* state, a DEL or ADD that fails does as well.
EpollCtl ==
    /\ Ready
    /\ \E e \in PollSlots, n \in Files \union {fds[i].num : i \in {j \in FdSlots : fds[j].active}} :
         /\ pollfds[e].active /\ pollfds[e].num # epollfd
         /\ \/ AddSucceeds(e, n) \/ DeleteSucceeds(e, n)
            \/ n \in Files /\ (AddFails(e, n) \/ DeleteFails(e, n))
            \/ \E k \in Listeners :
                 /\ First(k, ListenersFor(e, n))
                 /\ lfds' = [lfds EXCEPT ![e][k].data = n]
                 /\ UNCHANGED <<kernel, early>>
    /\ UNCHANGED <<socketVars, epollVars, pollVars, strayed, ub>>

\* epoll_pwait goes through the listeners, up to the one that fills the events
\* of the caller: those of free slots are deleted, connecting sockets that were
\* accepted are opened.  A socket without a connection is a NULL pointer.
Scan(e) ==
    \E last \in Listeners :
      LET seen   == {k \in 0..last : lfds[e][k].active}
          stale  == {k \in seen : ~fds[lfds[e][k].fd].active}
          valid  == {lfds[e][k].fd : k \in seen \ stale}
      IN  /\ last = MAX_FDS_LISTEN - 1 \/ last \in seen \ stale
          /\ IF \E i \in valid : fds[i].state \in {"created", "bound"}
               THEN ub' = TRUE /\ UNCHANGED <<fds, lfds>>
               ELSE /\ lfds' = [lfds EXCEPT ![e] =
                          [k \in Listeners |->
                             IF k \in stale THEN NoListener ELSE @[k]]]
                    /\ \E opened \in SUBSET {i \in valid : fds[i].state = "connecting"} :
                         fds' = [i \in FdSlots |->
                                   IF i \in opened THEN [fds[i] EXCEPT !.state = "open"]
                                                   ELSE fds[i]]
                    /\ UNCHANGED ub

EpollWait ==
    /\ Ready
    /\ \E e \in PollSlots : pollfds[e].active /\ pollfds[e].num # epollfd /\ Scan(e)
    /\ UNCHANGED <<currentMaxFd, epollVars, kernel, early, pollVars, strayed>>

---------------------------------------------------------------------------
(* poll                                                                   *)

\* The first call creates its instance.
PollCreate ==
    /\ Ready
    /\ epollfd = -1
    /\ \E e \in PollSlots : Create(e)
    /\ epollfd' = randomPollFd
    /\ UNCHANGED <<socketVars, inherited, listenVars, poll, leaked, strayed, ub>>

PollStart ==
    /\ Ready
    /\ epollfd # -1
    /\ \E list \in PollLists : poll' = [at |-> "add", fds |-> list, i |-> 1]
    /\ UNCHANGED <<socketVars, epollVars, listenVars, epollfd, leaked, strayed, ub>>

More == poll.i <= Len(poll.fds)
Step == poll' = [poll EXCEPT !.i = @ + 1] /\ UNCHANGED leaked

\* An epoll_ctl failed: poll returns -1 at once.
Fail ==
    /\ poll' = NoPoll
    /\ leaked' = (leaked \/ poll.at = "del" \/ poll.i > 1)

\* The application has closed the instance of poll.
NoInstance == Epfd(epollfd) = {} /\ Fail /\ UNCHANGED listenVars

PollAdd ==
    /\ ~ub /\ poll.at = "add"
    /\ \/ More /\ NoInstance
       \/ More /\ \E e \in Epfd(epollfd) : AddFails(e, poll.fds[poll.i]) /\ Fail
       \/ More /\ \E e \in Epfd(epollfd) : AddSucceeds(e, poll.fds[poll.i]) /\ Step
       \/ ~More /\ poll' = [poll EXCEPT !.at = "wait"] /\ UNCHANGED <<listenVars, leaked>>
    /\ UNCHANGED <<socketVars, epollVars, epollfd, strayed, ub>>

\* Mutant of PollWait: deleting starts with the entry before the first.
PollWaitFromZero ==
    /\ ~ub /\ poll.at = "wait"
    /\ poll' = [poll EXCEPT !.at = "del", !.i = 0]
    /\ UNCHANGED <<fds, lfds, ub>>
    /\ UNCHANGED <<currentMaxFd, epollVars, kernel, early, epollfd, leaked, strayed>>

PollWait ==
    /\ ~ub /\ poll.at = "wait"
    /\ poll' = [poll EXCEPT !.at = "del", !.i = 1]
    /\ IF Epfd(epollfd) = {}
         THEN UNCHANGED <<fds, lfds, ub>>
         ELSE \E e \in Epfd(epollfd) : Scan(e)
    /\ UNCHANGED <<currentMaxFd, epollVars, kernel, early, epollfd, leaked, strayed>>

\* Mutant of PollDelete: the last one is forgotten.
PollDeleteNotLast ==
    /\ ~ub /\ poll.at = "del"
    /\ \/ More /\ NoInstance
       \/ More /\ \E e \in Epfd(epollfd) : DeleteFails(e, poll.fds[poll.i]) /\ Fail
       \/ /\ poll.i < Len(poll.fds)
          /\ \E e \in Epfd(epollfd) : DeleteSucceeds(e, poll.fds[poll.i]) /\ Step
       \/ poll.i >= Len(poll.fds) /\ poll' = NoPoll /\ UNCHANGED <<listenVars, leaked>>
    /\ UNCHANGED <<socketVars, epollVars, epollfd, strayed, ub>>

PollDelete ==
    /\ ~ub /\ poll.at = "del"
    /\ \/ More /\ NoInstance
       \/ More /\ \E e \in Epfd(epollfd) : DeleteFails(e, poll.fds[poll.i]) /\ Fail
       \/ More /\ \E e \in Epfd(epollfd) : DeleteSucceeds(e, poll.fds[poll.i]) /\ Step
       \/ ~More /\ poll' = NoPoll /\ UNCHANGED <<listenVars, leaked>>
    /\ UNCHANGED <<socketVars, epollVars, epollfd, strayed, ub>>

---------------------------------------------------------------------------
\* The process has crashed.
Crashed == ub /\ UNCHANGED vars

Next == \/ Socket \/ Prepare \/ Accept \/ CloseSocket \/ CloseFile
        \/ EpollCreate \/ CloseEpoll \/ EpollCtl \/ EpollWait
        \/ PollCreate \/ PollStart \/ PollAdd \/ PollWait \/ PollDelete
        \/ Crashed

Spec == Init /\ [][Next]_vars

---------------------------------------------------------------------------
(* Properties                                                             *)

\* Every variable has its type.
TypeOK ==
    /\ fds \in [FdSlots -> [active : BOOLEAN, num : Nat, state : FdStates]]
    /\ currentMaxFd \in Nat /\ randomPollFd \in Nat
    /\ pollfds \in [PollSlots -> [active : BOOLEAN, num : Nat]]
    /\ lfds \in [PollSlots ->
                   [Listeners -> [active : BOOLEAN, fd : FdSlots, data : Nat]]]
    /\ kernel \in [PollSlots -> [fd : {"none", "failed", "open"}, files : SUBSET Files]]
    /\ epollfd \in Nat \union {-1}
    /\ poll \in [at : {"idle", "add", "wait", "del"}, fds : Seq(Nat), i : Nat \ {0}]
    /\ strayed \in BOOLEAN /\ leaked \in BOOLEAN /\ ub \in BOOLEAN
    /\ inherited \in BOOLEAN /\ early \in BOOLEAN

\* A number names one socket, and one epoll instance, and was given to no other
\* before: close and epoll_ctl never act on another one of the same table
\* (socket.c:62-70, event.c:49-57).
NumbersAreUnique ==
    /\ \A i, j \in FdSlots :
         fds[i].active /\ fds[j].active /\ fds[i].num = fds[j].num => i = j
    /\ \A i \in FdSlots : fds[i].active => fds[i].num < currentMaxFd
    /\ \A d, e \in PollSlots :
         pollfds[d].active /\ pollfds[e].active /\ pollfds[d].num = pollfds[e].num
           => d = e

\* A socket has one listener in an epoll instance, also when its slot was freed
\* and used again while a listener had it; an event is not reported twice, and
\* deleting the listener deletes them all (event.c:85-100, 258-275).
OneListenerPerFd ==
    \A e \in PollSlots : \A k, l \in Listeners :
        lfds[e][k].active /\ lfds[e][l].active /\ lfds[e][k].fd = lfds[e][l].fd
          => k = l

\* An epoll instance that was closed leaves no listener to the next one in its
\* slot (event.c:122-139, 200-221), and no file unless it was closed with some.
ClosedEpollForgets ==
    \A e \in PollSlots : ~pollfds[e].active =>
        /\ \A k \in Listeners : ~lfds[e][k].active
        /\ inherited \/ kernel[e].files = {}

\* As long as no socket is closed while a listener has it, events are reported
\* for the socket, and with the data, that epoll_ctl was given.
ListenersFollowFds ==
    ~strayed =>
        \A e \in PollSlots, k \in Listeners :
            lfds[e][k].active =>
                /\ fds[lfds[e][k].fd].active
                /\ fds[lfds[e][k].fd].num = lfds[e][k].data

\* poll leaves no listener and no file in its instance, so that the next call
\* starts with none, unless one of its calls of epoll_ctl failed
\* (event.c:560-567), or its slot had files before (event.c:132).
PollRestores ==
    poll.at = "idle" /\ ~leaked =>
        \A e \in Epfd(epollfd) :
            /\ \A k \in Listeners : ~lfds[e][k].active
            /\ inherited \/ kernel[e].files = {}

\* poll of sockets and files that exist, none of them twice, and not more than
\* an instance holds, registers them all: it is not refused for what an earlier
\* call has left behind, nor for listeners of closed sockets.  Unless an
\* epoll_ctl of an earlier poll failed, an instance was closed with files, or
\* the kernel had no instance to give (event.c:87-100, 132, 240-245, 542).
PollFailsForCause ==
    \A e \in Epfd(epollfd) :
        (/\ poll.at = "add" /\ More /\ Len(poll.fds) <= MAX_FDS_LISTEN
         /\ ~leaked /\ ~inherited /\ kernel[e].fd # "failed"
         /\ \A j \in 1..(poll.i - 1) : poll.fds[j] # poll.fds[poll.i]) =>
            LET n == poll.fds[poll.i] IN
            IF n \in Files THEN n \notin kernel[e].files
                           ELSE Numbered(n) = {} \/ CanAdd(e, n)

\* epoll_pwait and poll follow the NULL pConn of a socket only if the socket was
\* added before connect or listen, or took the slot of one that was closed while
\* a listener had it (event.c:340, 372); and accept4 uses NULL only with a full
\* table (socket.c:252-258).
NullForCause == ub => early \/ strayed \/ FreeFds = {}

\* event.c:82-84: a listener is looked up by the number of its fd, because the
\* fd may have been closed: an event is never reported with the data of
\* another socket.
ListenerIsOfItsNumber ==
    \A e \in PollSlots, k \in Listeners :
        lfds[e][k].active /\ fds[lfds[e][k].fd].active =>
            fds[lfds[e][k].fd].num = lfds[e][k].data

\* socket.h:59-61: the numbers of sockets are below POLLFD_START, those of epoll
\* instances from there on.
RangesAreKept ==
    \A i \in FdSlots : fds[i].active => fds[i].num < POLLFD_START
===========================================================================
