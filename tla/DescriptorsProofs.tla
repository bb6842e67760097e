-------------------------- MODULE DescriptorsProofs --------------------------
(***************************************************************************)
(* The tables keep their order for all sizes, ranges and lists to poll.    *)
(*                                                                         *)
(* NumbersAreUnique, OneListenerPerFd, ClosedListeners and                 *)
(* ListenersFollowFds rest on each other and on FreshNumbers.  PollAccount *)
(* is an account of the listeners poll still has to delete; PollProofs     *)
(* goes on from it.  From FreshNumbers it also follows that a number is    *)
(* spent when it was given out, and what that costs.                       *)
(***************************************************************************)
EXTENDS Descriptors, TLAPS

\* The types of the tables and of poll.
Types ==
    /\ fds \in [FdSlots -> [active : BOOLEAN, num : Nat, state : FdStates]]
    /\ currentMaxFd \in Nat /\ randomPollFd \in Nat
    /\ pollfds \in [PollSlots -> [active : BOOLEAN, num : Nat]]
    /\ lfds \in [PollSlots ->
                   [Listeners -> [active : BOOLEAN, fd : FdSlots, data : Nat]]]
    /\ epollfd \in Nat \union {-1}
    /\ poll \in [at : {"idle", "add", "wait", "del"}, fds : Seq(Nat), i : Nat \ {0}]
    /\ strayed \in BOOLEAN /\ leaked \in BOOLEAN /\ ub \in BOOLEAN

\* A slot that is free has no listener.
ClosedListeners ==
    \A e \in PollSlots : ~pollfds[e].active => \A k \in Listeners : ~lfds[e][k].active

\* Numbers of epoll instances are not given again, those of sockets are not
\* those of files.
FreshNumbers ==
    /\ \A e \in PollSlots : pollfds[e].active => pollfds[e].num < randomPollFd
    /\ epollfd < randomPollFd
    /\ currentMaxFd >= FD_START
    /\ \A i \in FdSlots : fds[i].active => fds[i].num >= FD_START

\* The entries of its list that poll has registered and not yet deleted.
ToDelete(j) ==
    /\ j \in 1..Len(poll.fds)
    /\ poll.at = "add" => j < poll.i
    /\ poll.at = "del" => j >= poll.i

\* The listeners in the instance of poll are for the sockets in its list.
PollAccount ==
    ~leaked =>
        \A e \in Epfd(epollfd), k \in Listeners :
            lfds[e][k].active =>
                /\ poll.at # "idle"
                /\ fds[lfds[e][k].fd].active
                /\ \E j \in Nat : ToDelete(j) /\ poll.fds[j] = fds[lfds[e][k].fd].num

IInv == /\ Types /\ NumbersAreUnique /\ FreshNumbers
        /\ OneListenerPerFd /\ ClosedListeners /\ ListenersFollowFds
        /\ PollAccount

---------------------------------------------------------------------------
(* What the parts of the actions do                                       *)

FdTable       == [FdSlots -> [active : BOOLEAN, num : Nat, state : FdStates]]
ListenerTable == [PollSlots -> [Listeners -> [active : BOOLEAN, fd : FdSlots, data : Nat]]]

SameNumbers ==
    \A i \in FdSlots : /\ fds'[i].active <=> fds[i].active
                       /\ fds'[i].num = fds[i].num

ListenersShrink ==
    \A e \in PollSlots, k \in Listeners :
        lfds'[e][k].active => lfds[e][k].active /\ lfds'[e][k] = lfds[e][k]

\* Entries that are not used have the types of the tables.
LEMMA UnusedEntries ==
    /\ NoFd \in [active : BOOLEAN, num : Nat, state : FdStates] /\ ~NoFd.active
    /\ NoEpfd \in [active : BOOLEAN, num : Nat] /\ ~NoEpfd.active
    /\ NoListener \in [active : BOOLEAN, fd : FdSlots, data : Nat] /\ ~NoListener.active
  BY SizeAssumption DEF NoFd, NoEpfd, NoListener, FdStates, FdSlots

\* A free slot becomes a socket with the next number; no other slot changes.
LEMMA NewFdEffect ==
    ASSUME Types, NEW i \in FdSlots, NEW st \in FdStates, NewFd(i, st)
    PROVE  /\ fds' \in FdTable /\ currentMaxFd' = currentMaxFd + 1
           /\ ~fds[i].active
           /\ fds'[i] = [active |-> TRUE, num |-> currentMaxFd, state |-> st]
           /\ \A j \in FdSlots \ {i} : fds'[j] = fds[j]
  BY DEF Types, NewFd, First, FreeFds, FdTable

\* A free listener is pointed to a socket that has none in this instance.
LEMMA AddEffect ==
    ASSUME Types, NEW e \in PollSlots, NEW n \in Nat, CanAdd(e, n), Add(e, n)
    PROVE  /\ lfds' \in ListenerTable
           /\ \E i \in FdSlots, k \in Listeners :
                /\ fds[i].active /\ fds[i].num = n
                /\ ~lfds[e][k].active
                /\ \A l \in Listeners : lfds[e][l].active => lfds[e][l].fd # i
                /\ lfds'[e][k].active /\ lfds'[e][k].fd = i /\ lfds'[e][k].data = n
                /\ \A d \in PollSlots, l \in Listeners :
                     d # e \/ l # k => lfds'[d][l] = lfds[d][l]
  <1>1. PICK i \in FdSlots, k \in Listeners :
          /\ First(i, Numbered(n)) /\ First(k, FreeListeners(e))
          /\ lfds' = [lfds EXCEPT ![e][k] = [active |-> TRUE, fd |-> i, data |-> n]]
    BY DEF Add
  <1>2. fds[i].active /\ fds[i].num = n /\ ~lfds[e][k].active
    BY <1>1 DEF First, Numbered, FreeListeners
  <1>3. \A l \in Listeners : lfds[e][l].active => lfds[e][l].fd # i
    BY <1>2 DEF CanAdd, ListenersFor
  <1>4. lfds \in ListenerTable
    BY DEF Types, ListenerTable
  <1>5. [active |-> TRUE, fd |-> i, data |-> n] \in [active : BOOLEAN, fd : FdSlots, data : Nat]
    OBVIOUS
  <1>6. lfds' \in ListenerTable
    BY <1>1, <1>4, <1>5 DEF ListenerTable
  <1>7. /\ lfds'[e][k].active /\ lfds'[e][k].fd = i /\ lfds'[e][k].data = n
        /\ \A d \in PollSlots, l \in Listeners : d # e \/ l # k => lfds'[d][l] = lfds[d][l]
    BY <1>1, <1>4 DEF ListenerTable
  <1>8. QED
    BY <1>2, <1>3, <1>6, <1>7

\* One listener for the number goes, the others stay.
LEMMA DeleteEffect ==
    ASSUME Types, NEW e \in PollSlots, NEW n \in Nat, Delete(e, n)
    PROVE  /\ lfds' \in ListenerTable /\ ListenersShrink
           /\ \E k \in Listeners :
                /\ lfds[e][k].active /\ ~lfds'[e][k].active
                /\ fds[lfds[e][k].fd].num = n
  <1>1. PICK k \in Listeners : /\ First(k, ListenersFor(e, n))
                               /\ lfds' = [lfds EXCEPT ![e][k] = NoListener]
    BY DEF Delete
  <1>2. lfds \in ListenerTable
    BY DEF Types, ListenerTable
  <1>3. lfds[e][k].active /\ fds[lfds[e][k].fd].num = n
    BY <1>1 DEF First, ListenersFor
  <1>4. NoListener \in [active : BOOLEAN, fd : FdSlots, data : Nat] /\ ~NoListener.active
    BY UnusedEntries
  <1>6. lfds' \in ListenerTable
    BY <1>1, <1>2, <1>4 DEF ListenerTable
  <1>7. ~lfds'[e][k].active
    BY <1>1, <1>2, <1>4 DEF ListenerTable
  <1>8. \A d \in PollSlots, l \in Listeners : d # e \/ l # k => lfds'[d][l] = lfds[d][l]
    BY <1>1, <1>2 DEF ListenerTable
  <1>9. ListenersShrink
    BY <1>7, <1>8 DEF ListenersShrink
  <1>10. QED
    BY <1>3, <1>6, <1>7, <1>9

\* A scan changes states of sockets and deletes listeners, no more.
LEMMA ScanEffect ==
    ASSUME Types, NEW e \in PollSlots, Scan(e)
    PROVE  /\ fds' \in FdTable /\ SameNumbers
           /\ lfds' \in ListenerTable /\ ListenersShrink
           /\ ub' \in BOOLEAN
  <1> DEFINE Cleaned(stale) ==
               [lfds EXCEPT ![e] =
                  [k \in Listeners |->
                     IF k \in stale THEN NoListener ELSE @[k]]]
             Opened(opened) ==
               [i \in FdSlots |-> IF i \in opened THEN [fds[i] EXCEPT !.state = "open"]
                                                  ELSE fds[i]]
  <1>1. \/ ub' = TRUE /\ UNCHANGED <<fds, lfds>>
        \/ /\ \E stale : lfds' = Cleaned(stale)
           /\ \E opened : fds' = Opened(opened)
           /\ UNCHANGED ub
    BY Zenon DEF Scan
  <1>2. CASE ub' = TRUE /\ UNCHANGED <<fds, lfds>>
    BY <1>2 DEF Types, FdTable, SameNumbers, ListenerTable, ListenersShrink
  <1>3. CASE /\ \E stale : lfds' = Cleaned(stale)
             /\ \E opened : fds' = Opened(opened)
             /\ UNCHANGED ub
    <2>1. PICK opened : fds' = Opened(opened)
      BY <1>3
    <2>2. \A i \in FdSlots : /\ fds'[i] \in [active : BOOLEAN, num : Nat, state : FdStates]
                             /\ fds'[i].active = fds[i].active
                             /\ fds'[i].num = fds[i].num
      BY <2>1 DEF Types, FdStates
    <2>3. fds' \in FdTable /\ SameNumbers
      BY <2>1, <2>2 DEF FdTable, SameNumbers
    <2>4. PICK stale : lfds' = Cleaned(stale)
      BY <1>3
    <2>5. lfds \in [PollSlots -> [Listeners -> [active : BOOLEAN, fd : FdSlots, data : Nat]]]
      BY DEF Types
    <2>6. \A d \in PollSlots \ {e} : lfds'[d] = lfds[d]
      BY <2>4, <2>5
    <2>7. lfds'[e] = [k \in Listeners |->
                        IF k \in stale THEN NoListener
                                       ELSE lfds[e][k]]
      BY <2>4, <2>5
    <2>8. \A k \in Listeners :
            /\ lfds'[e][k] \in [active : BOOLEAN, fd : FdSlots, data : Nat]
            /\ lfds'[e][k].active => lfds[e][k].active /\ lfds'[e][k] = lfds[e][k]
      <3> SUFFICES ASSUME NEW k \in Listeners
                   PROVE  /\ lfds'[e][k] \in [active : BOOLEAN, fd : FdSlots, data : Nat]
                          /\ lfds'[e][k].active =>
                               lfds[e][k].active /\ lfds'[e][k] = lfds[e][k]
        OBVIOUS
      <3>1. lfds[e][k] \in [active : BOOLEAN, fd : FdSlots, data : Nat]
        BY <2>5
      <3>2. CASE k \in stale
        <4>1. lfds'[e][k] = NoListener
          BY <2>7, <3>2
        <4>2. QED
          BY <4>1, UnusedEntries
      <3>3. CASE k \notin stale
        <4>1. lfds'[e][k] = lfds[e][k]
          BY <2>7, <3>3
        <4>2. QED
          BY <3>1, <4>1
      <3>4. QED
        BY <3>2, <3>3
    <2>9. lfds' \in ListenerTable /\ ListenersShrink
      BY <2>4, <2>5, <2>6, <2>7, <2>8 DEF ListenerTable, ListenersShrink
    <2>10. QED
      BY <1>3, <2>3, <2>9 DEF Types
  <1>4. QED
    BY <1>1, <1>2, <1>3

\* A free slot becomes an epoll instance with the next number.
LEMMA CreateEffect ==
    ASSUME Types, NEW e \in PollSlots, Create(e)
    PROVE  /\ pollfds' \in [PollSlots -> [active : BOOLEAN, num : Nat]]
           /\ randomPollFd' = randomPollFd + 1
           /\ ~pollfds[e].active
           /\ pollfds'[e] = [active |-> TRUE, num |-> randomPollFd]
           /\ \A d \in PollSlots \ {e} : pollfds'[d] = pollfds[d]
  BY DEF Types, Create, First

---------------------------------------------------------------------------
(* What keeps the parts of the invariant                                  *)

\* Numbers stay as they are if no slot changes hands.
LEMMA NumbersStay ==
    ASSUME NumbersAreUnique, FreshNumbers, SameNumbers,
           UNCHANGED <<currentMaxFd, pollfds, randomPollFd, epollfd>>
    PROVE  NumbersAreUnique' /\ FreshNumbers'
  BY DEF NumbersAreUnique, FreshNumbers, SameNumbers

\* No property of the listeners is lost when some of them go.
LEMMA ListenersStay ==
    ASSUME Types, OneListenerPerFd, ClosedListeners, ListenersFollowFds,
           ListenersShrink, SameNumbers, UNCHANGED <<pollfds, strayed>>
    PROVE  OneListenerPerFd' /\ ClosedListeners' /\ ListenersFollowFds'
  <1>1. OneListenerPerFd'
    BY DEF OneListenerPerFd, ListenersShrink
  <1>2. ClosedListeners'
    BY DEF ClosedListeners, ListenersShrink
  <1>3. ListenersFollowFds'
    <2> SUFFICES ASSUME ~strayed, NEW e \in PollSlots, NEW k \in Listeners,
                        lfds'[e][k].active
                 PROVE  /\ fds'[lfds'[e][k].fd].active
                        /\ fds'[lfds'[e][k].fd].num = lfds'[e][k].data
      BY DEF ListenersFollowFds
    <2>1. lfds[e][k].active /\ lfds'[e][k] = lfds[e][k]
      BY DEF ListenersShrink
    <2>2. lfds[e][k].fd \in FdSlots
      BY DEF Types
    <2>3. QED
      BY <2>1, <2>2 DEF ListenersFollowFds, SameNumbers
  <1>4. QED
    BY <1>1, <1>2, <1>3

\* Nor is the account of poll, while poll does not move on.
LEMMA AccountStays ==
    ASSUME Types, PollAccount, ListenersShrink, SameNumbers,
           UNCHANGED <<pollfds, epollfd, leaked, poll>>
    PROVE  PollAccount'
  <1> SUFFICES ASSUME ~leaked, NEW e \in Epfd(epollfd), NEW k \in Listeners,
                      lfds'[e][k].active
               PROVE  /\ poll.at # "idle"
                      /\ fds'[lfds'[e][k].fd].active
                      /\ \E j \in Nat : ToDelete(j)
                                        /\ poll.fds[j] = fds'[lfds'[e][k].fd].num
    BY DEF PollAccount, ToDelete, Epfd
  <1>1. lfds[e][k].active /\ lfds'[e][k] = lfds[e][k]
    BY DEF ListenersShrink, Epfd
  <1>2. lfds[e][k].fd \in FdSlots
    BY DEF Types, Epfd
  <1>3. QED
    BY <1>1, <1>2 DEF PollAccount, SameNumbers

\* Between two calls of poll, its instance has no listener.
LEMMA IdleAccount ==
    ASSUME PollAccount, poll.at = "idle", ~leaked, NEW e \in Epfd(epollfd),
           NEW k \in Listeners
    PROVE  ~lfds[e][k].active
  BY DEF PollAccount

\* A new listener is for a socket that had none in this instance.
LEMMA AddKeeps ==
    ASSUME Types, OneListenerPerFd, ClosedListeners, ListenersFollowFds,
           NEW e \in PollSlots, NEW n \in Nat, pollfds[e].active,
           CanAdd(e, n), Add(e, n), UNCHANGED <<fds, pollfds, strayed>>
    PROVE  OneListenerPerFd' /\ ClosedListeners' /\ ListenersFollowFds'
  <1>1. PICK i \in FdSlots, k \in Listeners :
           /\ fds[i].active /\ fds[i].num = n
           /\ ~lfds[e][k].active
           /\ \A l \in Listeners : lfds[e][l].active => lfds[e][l].fd # i
           /\ lfds'[e][k].active /\ lfds'[e][k].fd = i /\ lfds'[e][k].data = n
           /\ \A d \in PollSlots, l \in Listeners :
                d # e \/ l # k => lfds'[d][l] = lfds[d][l]
    BY AddEffect
  <1>2. OneListenerPerFd'
    BY <1>1 DEF OneListenerPerFd
  <1>3. ClosedListeners'
    BY <1>1 DEF ClosedListeners
  <1>4. ListenersFollowFds'
    BY <1>1 DEF ListenersFollowFds
  <1>5. QED
    BY <1>2, <1>3, <1>4

---------------------------------------------------------------------------
\* The tables are empty at the start.
LEMMA InitIInv == Init => IInv
  <1> SUFFICES ASSUME Init
               PROVE  IInv
    OBVIOUS
  <1>1. Types
    <2>1. fds \in [FdSlots -> [active : BOOLEAN, num : Nat, state : FdStates]]
      BY UnusedEntries DEF Init
    <2>2. lfds \in [PollSlots -> [Listeners -> [active : BOOLEAN, fd : FdSlots, data : Nat]]]
      BY UnusedEntries DEF Init
    <2>3. pollfds \in [PollSlots -> [active : BOOLEAN, num : Nat]]
      BY UnusedEntries DEF Init
    <2>4. poll \in [at : {"idle", "add", "wait", "del"}, fds : Seq(Nat), i : Nat \ {0}]
      BY DEF Init, NoPoll
    <2>5. strayed \in BOOLEAN /\ leaked \in BOOLEAN /\ ub \in BOOLEAN
      BY DEF Init
    <2>6. currentMaxFd \in Nat /\ randomPollFd \in Nat /\ epollfd \in Nat \union {-1}
      BY RangeAssumption DEF Init
    <2>7. QED
      BY <2>1, <2>2, <2>3, <2>4, <2>5, <2>6 DEF Types
  <1>2. /\ \A i \in FdSlots : ~fds[i].active
        /\ \A e \in PollSlots : ~pollfds[e].active
        /\ \A e \in PollSlots, k \in Listeners : ~lfds[e][k].active
        /\ epollfd < randomPollFd /\ currentMaxFd >= FD_START
    BY RangeAssumption, UnusedEntries DEF Init
  <1>3. QED
    BY <1>1, <1>2 DEF IInv, NumbersAreUnique, FreshNumbers, OneListenerPerFd,
       ClosedListeners, ListenersFollowFds, PollAccount, Epfd

\* A new socket in a free slot: no number of the table reaches currentMaxFd, and
\* no listener, unless one strayed, points to the slot.
LEMMA NewFdStep ==
    ASSUME IInv, poll.at = "idle", NEW i \in FdSlots, NEW st \in FdStates, NewFd(i, st),
           UNCHANGED <<lfds, strayed, pollfds, randomPollFd, epollfd, poll, leaked>>,
           ub' \in BOOLEAN
    PROVE  IInv'
  <1>1. /\ fds' \in FdTable /\ currentMaxFd' = currentMaxFd + 1
        /\ ~fds[i].active
        /\ fds'[i] = [active |-> TRUE, num |-> currentMaxFd, state |-> st]
        /\ \A j \in FdSlots \ {i} : fds'[j] = fds[j]
    BY NewFdEffect DEF IInv
  <1>2. Types'
    BY <1>1 DEF IInv, Types, FdTable
  <1>3. fds'[i].active /\ fds'[i].num = currentMaxFd
    BY <1>1
  <1>4. NumbersAreUnique' /\ FreshNumbers'
    <2>1. currentMaxFd \in Nat /\ \A j \in FdSlots : fds[j].num \in Nat
      BY DEF IInv, Types
    <2>2. \A j \in FdSlots \ {i} : fds'[j].active => fds'[j].num < currentMaxFd
      BY <1>1 DEF IInv, NumbersAreUnique
    <2>3. \A j \in FdSlots : fds'[j].active => fds'[j].num < currentMaxFd'
      BY <1>1, <1>3, <2>1, <2>2
    <2>4. NumbersAreUnique'
      BY <1>1, <1>3, <2>1, <2>2, <2>3 DEF IInv, NumbersAreUnique
    <2>5. currentMaxFd' >= FD_START
      BY <1>1, <2>1, RangeAssumption DEF IInv, FreshNumbers
    <2>6. \A j \in FdSlots : fds'[j].active => fds'[j].num >= FD_START
      BY <1>1, <1>3, <2>1, RangeAssumption DEF IInv, FreshNumbers
    <2>7. QED
      BY <2>4, <2>5, <2>6 DEF IInv, FreshNumbers
  <1>5. OneListenerPerFd' /\ ClosedListeners'
    BY DEF IInv, OneListenerPerFd, ClosedListeners
  <1>6. ListenersFollowFds'
    BY <1>1 DEF IInv, Types, ListenersFollowFds
  <1>7. PollAccount'
    BY DEF IInv, PollAccount, Epfd
  <1>8. QED
    BY <1>2, <1>4, <1>5, <1>6, <1>7 DEF IInv

\* socket() makes a new socket.
LEMMA SocketStep == IInv /\ Socket => IInv'
  <1> SUFFICES ASSUME IInv, Socket
               PROVE  IInv'
    OBVIOUS
  <1>1. PICK i \in FdSlots : NewFd(i, "created")
    BY DEF Socket
  <1>2. "created" \in FdStates /\ ub' \in BOOLEAN
    BY DEF FdStates, Socket, IInv, Types
  <1>3. QED
    BY <1>1, <1>2, NewFdStep DEF Socket, Ready, epollVars, listenVars, pollVars

\* accept4 makes one too, or the process crashes.
LEMMA AcceptStep == IInv /\ Accept => IInv'
  <1> SUFFICES ASSUME IInv, Accept
               PROVE  IInv'
    OBVIOUS
  <1>1. CASE FreeFds = {}
    BY <1>1 DEF Accept, IInv, Types, NumbersAreUnique, FreshNumbers,
       OneListenerPerFd,
       ClosedListeners, ListenersFollowFds, PollAccount, Epfd, ToDelete,
       socketVars, epollVars, listenVars, pollVars
  <1>2. CASE FreeFds # {}
    <2>1. PICK i \in FdSlots : NewFd(i, "open")
      BY <1>2 DEF Accept
    <2>2. "open" \in FdStates /\ ub' \in BOOLEAN
      BY <1>2 DEF FdStates, Accept, IInv, Types
    <2>3. QED
      BY <2>1, <2>2, NewFdStep DEF Accept, Ready, epollVars, listenVars, pollVars
  <1>3. QED
    BY <1>1, <1>2

\* The states of sockets do not matter to the tables.
LEMMA PrepareStep == IInv /\ Prepare => IInv'
  <1> SUFFICES ASSUME IInv, Prepare
               PROVE  IInv'
    OBVIOUS
  <1>1. PICK i \in FdSlots, st \in FdStates : fds' = [fds EXCEPT ![i].state = st]
    BY DEF Prepare, Becomes, FdStates
  <1>2. fds' \in FdTable /\ SameNumbers
    BY <1>1 DEF IInv, Types, FdTable, SameNumbers
  <1>3. ListenersShrink
    BY DEF Prepare, ListenersShrink, listenVars
  <1>4. Types'
    BY <1>2 DEF Prepare, IInv, Types, FdTable, epollVars, listenVars, pollVars
  <1>5. NumbersAreUnique' /\ FreshNumbers'
    BY <1>2, NumbersStay DEF Prepare, IInv, epollVars, listenVars, pollVars
  <1>6. OneListenerPerFd' /\ ClosedListeners' /\ ListenersFollowFds'
    BY <1>2, <1>3, ListenersStay DEF Prepare, IInv, epollVars
  <1>7. PollAccount'
    BY <1>2, <1>3, AccountStays DEF Prepare, IInv, epollVars, listenVars, pollVars
  <1>8. QED
    BY <1>4, <1>5, <1>6, <1>7 DEF IInv

\* A closed socket leaves its listeners astray, which strayed remembers.
LEMMA CloseSocketStep == IInv /\ CloseSocket => IInv'
  <1> SUFFICES ASSUME IInv, CloseSocket
               PROVE  IInv'
    OBVIOUS
  <1>1. PICK i \in FdSlots : /\ fds' = [fds EXCEPT ![i] = NoFd]
                             /\ strayed' = (strayed \/ Watches(i))
    BY DEF CloseSocket
  <1>2. /\ fds' \in FdTable /\ ~fds'[i].active
        /\ \A j \in FdSlots \ {i} : fds'[j] = fds[j]
    BY <1>1, UnusedEntries DEF IInv, Types, FdTable
  <1>3. strayed' \in BOOLEAN /\ (~strayed' => ~strayed /\ ~Watches(i))
    BY <1>1 DEF IInv, Types
  <1>4. Types'
    BY <1>2, <1>3 DEF CloseSocket, IInv, Types, FdTable, epollVars, listenVars, pollVars
  <1>5. NumbersAreUnique' /\ FreshNumbers'
    BY <1>2 DEF CloseSocket, IInv, NumbersAreUnique, FreshNumbers, epollVars, listenVars, pollVars
  <1>6. OneListenerPerFd' /\ ClosedListeners'
    BY DEF CloseSocket, IInv, OneListenerPerFd, ClosedListeners, epollVars, listenVars
  <1>7. ListenersFollowFds'
    BY <1>2, <1>3 DEF CloseSocket, IInv, Types, ListenersFollowFds, Watches, listenVars
  <1>8. PollAccount'
    BY DEF CloseSocket, Ready, IInv, PollAccount, Epfd, epollVars, listenVars, pollVars
  <1>9. QED
    BY <1>4, <1>5, <1>6, <1>7, <1>8 DEF IInv

\* A new epoll instance, in a slot without listeners, has a new number.
LEMMA CreateStep ==
    ASSUME IInv, NEW e \in PollSlots, Create(e), poll.at = "idle",
           UNCHANGED <<fds, currentMaxFd, lfds, strayed, ub, poll, leaked>>,
           epollfd' \in {epollfd, randomPollFd}
    PROVE  IInv'
  <1>1. /\ pollfds' \in [PollSlots -> [active : BOOLEAN, num : Nat]]
        /\ randomPollFd' = randomPollFd + 1
        /\ ~pollfds[e].active
        /\ pollfds'[e] = [active |-> TRUE, num |-> randomPollFd]
        /\ \A d \in PollSlots \ {e} : pollfds'[d] = pollfds[d]
    BY CreateEffect DEF IInv
  <1>2. pollfds'[e].active /\ pollfds'[e].num = randomPollFd
    BY <1>1
  <1>3. Types'
    BY <1>1 DEF IInv, Types
  <1>4. NumbersAreUnique' /\ FreshNumbers'
    <2>1. /\ randomPollFd \in Nat /\ epollfd \in Int /\ epollfd < randomPollFd
          /\ \A d \in PollSlots : pollfds[d].num \in Nat
          /\ \A d \in PollSlots : pollfds[d].active => pollfds[d].num < randomPollFd
      BY DEF IInv, Types, FreshNumbers
    <2>2. \A d \in PollSlots \ {e} : pollfds'[d].active => pollfds'[d].num < randomPollFd
      BY <1>1, <2>1
    <2>3. epollfd' < randomPollFd'
      BY <1>1, <2>1
    <2>4. FreshNumbers'
      BY <1>1, <1>2, <2>1, <2>2, <2>3 DEF IInv, FreshNumbers
    <2>5. NumbersAreUnique'
      BY <1>1, <1>2, <2>1, <2>2 DEF IInv, NumbersAreUnique
    <2>6. QED
      BY <2>4, <2>5
  <1>5. OneListenerPerFd' /\ ListenersFollowFds'
    BY DEF IInv, OneListenerPerFd, ListenersFollowFds
  <1>6. ClosedListeners'
    BY <1>1, <1>2 DEF IInv, ClosedListeners
  <1>7. PollAccount'
    <2> SUFFICES ASSUME ~leaked, NEW d \in Epfd(epollfd)', NEW k \in Listeners
                 PROVE  ~lfds[d][k].active
      BY DEF PollAccount
    <2>1. CASE d = e
      BY <1>1, <2>1 DEF IInv, ClosedListeners
    <2>2. CASE d # e
      <3>1. d \in PollSlots /\ pollfds[d].active /\ pollfds[d].num = epollfd'
        BY <1>1, <2>2 DEF Epfd
      <3>2. epollfd' = epollfd
        BY <3>1 DEF IInv, Types, FreshNumbers
      <3>3. d \in Epfd(epollfd)
        BY <3>1, <3>2 DEF Epfd
      <3>4. QED
        BY <3>3, IdleAccount DEF IInv
    <2>3. QED
      BY <2>1, <2>2
  <1>8. QED
    BY <1>3, <1>4, <1>5, <1>6, <1>7 DEF IInv

\* epoll_create1 makes an instance for the application ...
LEMMA EpollCreateStep == IInv /\ EpollCreate => IInv'
  BY CreateStep DEF EpollCreate, Ready, socketVars, listenVars, pollVars

\* ... and poll makes its own, the one numbered epollfd from then on.
LEMMA PollCreateStep == IInv /\ PollCreate => IInv'
  BY CreateStep DEF PollCreate, Ready, socketVars, listenVars

\* A closed epoll instance takes its listeners with it.
LEMMA CloseEpollStep == IInv /\ CloseEpoll => IInv'
  <1> SUFFICES ASSUME IInv, CloseEpoll
               PROVE  IInv'
    OBVIOUS
  <1>1. PICK e \in PollSlots :
          /\ pollfds' = [pollfds EXCEPT ![e] = NoEpfd]
          /\ lfds' = [lfds EXCEPT ![e] = [k \in Listeners |-> NoListener]]
    BY DEF CloseEpoll
  <1>2. /\ pollfds' \in [PollSlots -> [active : BOOLEAN, num : Nat]]
        /\ ~pollfds'[e].active
        /\ \A d \in PollSlots \ {e} : pollfds'[d] = pollfds[d]
    BY <1>1, UnusedEntries DEF IInv, Types
  <1>3. lfds \in ListenerTable
    BY DEF IInv, Types, ListenerTable
  <1>4. /\ \A d \in PollSlots \ {e} : lfds'[d] = lfds[d]
        /\ lfds'[e] = [k \in Listeners |-> NoListener]
    BY <1>1, <1>3 DEF ListenerTable
  <1>5. \A k \in Listeners : /\ lfds'[e][k] \in [active : BOOLEAN, fd : FdSlots, data : Nat]
                             /\ ~lfds'[e][k].active
    <2> SUFFICES ASSUME NEW k \in Listeners
                 PROVE  /\ lfds'[e][k] \in [active : BOOLEAN, fd : FdSlots, data : Nat]
                        /\ ~lfds'[e][k].active
      OBVIOUS
    <2>1. lfds'[e][k] = NoListener
      BY <1>4
    <2>2. QED
      BY <2>1, UnusedEntries
  <1>6. lfds' \in ListenerTable
    BY <1>1, <1>3, <1>4, <1>5 DEF ListenerTable
  <1>7. Types'
    BY <1>2, <1>6 DEF CloseEpoll, IInv, Types, ListenerTable, socketVars, pollVars
  <1>8. NumbersAreUnique' /\ FreshNumbers'
    BY <1>2 DEF CloseEpoll, IInv, NumbersAreUnique, FreshNumbers, socketVars, pollVars
  <1>9. OneListenerPerFd' /\ ClosedListeners' /\ ListenersFollowFds'
    BY <1>2, <1>4, <1>5 DEF CloseEpoll, IInv, OneListenerPerFd, ClosedListeners,
       ListenersFollowFds, socketVars
  <1>10. PollAccount'
    BY <1>2, <1>4, <1>5 DEF CloseEpoll, Ready, IInv, PollAccount, Epfd, pollVars
  <1>11. QED
    BY <1>7, <1>8, <1>9, <1>10 DEF IInv

\* What epoll_ctl does to the listeners: nothing if it fails, or is about a file.
LEMMA EpollCtlEffect ==
    ASSUME NEW e, NEW n
    PROVE  /\ AddSucceeds(e, n) => UNCHANGED lfds \/ (CanAdd(e, n) /\ Add(e, n))
           /\ DeleteSucceeds(e, n) => UNCHANGED lfds \/ (CanDelete(e, n) /\ Delete(e, n))
           /\ AddFails(e, n) \/ DeleteFails(e, n) => UNCHANGED lfds
  BY DEF AddSucceeds, DeleteSucceeds, AddFails, DeleteFails

\* epoll_ctl of the application never touches the instance of poll.
LEMMA EpollCtlStep == IInv /\ EpollCtl => IInv'
  <1> SUFFICES ASSUME IInv, EpollCtl
               PROVE  IInv'
    OBVIOUS
  <1>1. PICK e \in PollSlots, n \in Nat :
          /\ pollfds[e].active /\ pollfds[e].num # epollfd
          /\ \/ UNCHANGED lfds
             \/ CanAdd(e, n) /\ Add(e, n)
             \/ CanDelete(e, n) /\ Delete(e, n)
             \/ \E k \in Listeners :
                  /\ First(k, ListenersFor(e, n))
                  /\ lfds' = [lfds EXCEPT ![e][k].data = n]
    <2>1. PICK e \in PollSlots, n \in Files \union {fds[i].num : i \in {j \in FdSlots : fds[j].active}} :
            /\ pollfds[e].active /\ pollfds[e].num # epollfd
            /\ \/ AddSucceeds(e, n) \/ DeleteSucceeds(e, n)
               \/ n \in Files /\ (AddFails(e, n) \/ DeleteFails(e, n))
               \/ \E k \in Listeners :
                    /\ First(k, ListenersFor(e, n))
                    /\ lfds' = [lfds EXCEPT ![e][k].data = n]
                    /\ UNCHANGED <<kernel, early>>
      BY DEF EpollCtl
    <2>2. n \in Nat
      BY FilesAssumption DEF IInv, Types
    <2>3. \/ UNCHANGED lfds
          \/ CanAdd(e, n) /\ Add(e, n)
          \/ CanDelete(e, n) /\ Delete(e, n)
          \/ \E k \in Listeners :
               /\ First(k, ListenersFor(e, n))
               /\ lfds' = [lfds EXCEPT ![e][k].data = n]
      <3>1. /\ AddSucceeds(e, n) => UNCHANGED lfds \/ (CanAdd(e, n) /\ Add(e, n))
            /\ DeleteSucceeds(e, n) => UNCHANGED lfds \/ (CanDelete(e, n) /\ Delete(e, n))
            /\ AddFails(e, n) \/ DeleteFails(e, n) => UNCHANGED lfds
        BY EpollCtlEffect
      <3>2. QED
        BY <2>1, <3>1
    <2>4. QED
      BY <2>1, <2>2, <2>3
  <1>2. /\ poll.at = "idle"
        /\ UNCHANGED <<fds, currentMaxFd, pollfds, randomPollFd, epollfd, poll, leaked,
                       strayed, ub>>
    BY DEF EpollCtl, Ready, socketVars, epollVars, listenVars, pollVars
  <1>3. e \notin Epfd(epollfd)
    BY <1>1 DEF Epfd
  <1> SUFFICES /\ lfds' \in ListenerTable
               /\ \A d \in PollSlots \ {e}, l \in Listeners : lfds'[d][l] = lfds[d][l]
               /\ OneListenerPerFd' /\ ClosedListeners' /\ ListenersFollowFds'
    <2>1. SameNumbers
      BY <1>2 DEF SameNumbers
    <2>2. NumbersAreUnique' /\ FreshNumbers'
      BY <1>2, <2>1, NumbersStay DEF IInv
    <2>3. ASSUME lfds' \in ListenerTable
          PROVE  Types'
      BY <1>2, <2>3 DEF IInv, Types, ListenerTable
    <2>4. ASSUME \A d \in PollSlots \ {e}, l \in Listeners : lfds'[d][l] = lfds[d][l]
          PROVE  PollAccount'
      BY <1>2, <1>3, <2>4 DEF IInv, PollAccount, Epfd
    <2>5. QED
      BY <2>2, <2>3, <2>4 DEF IInv
  <1>8. CASE UNCHANGED lfds
    <2>1. OneListenerPerFd' /\ ClosedListeners' /\ ListenersFollowFds'
      BY <1>2, <1>8 DEF IInv, OneListenerPerFd, ClosedListeners, ListenersFollowFds
    <2>2. QED
      BY <1>8, <2>1 DEF IInv, Types, ListenerTable
  <1>4. CASE CanAdd(e, n) /\ Add(e, n)
    <2>1. OneListenerPerFd' /\ ClosedListeners' /\ ListenersFollowFds'
      BY <1>1, <1>2, <1>4, AddKeeps DEF IInv
    <2>2. lfds' \in ListenerTable
      BY <1>4, AddEffect DEF IInv
    <2>3. \A d \in PollSlots \ {e}, l \in Listeners : lfds'[d][l] = lfds[d][l]
      BY <1>4 DEF Add, IInv, Types
    <2>4. QED
      BY <2>1, <2>2, <2>3
  <1>5. CASE CanDelete(e, n) /\ Delete(e, n)
    <2>1. lfds' \in ListenerTable /\ ListenersShrink
      BY <1>5, DeleteEffect DEF IInv
    <2>2. SameNumbers
      BY <1>2 DEF SameNumbers
    <2>3. OneListenerPerFd' /\ ClosedListeners' /\ ListenersFollowFds'
      BY <1>2, <2>1, <2>2, ListenersStay DEF IInv
    <2>4. \A d \in PollSlots \ {e}, l \in Listeners : lfds'[d][l] = lfds[d][l]
      BY <1>5 DEF Delete, IInv, Types
    <2>5. QED
      BY <2>1, <2>3, <2>4
  <1>6. ASSUME NEW k \in Listeners, First(k, ListenersFor(e, n)),
               lfds' = [lfds EXCEPT ![e][k].data = n]
        PROVE  /\ lfds' \in ListenerTable
               /\ \A d \in PollSlots \ {e}, l \in Listeners : lfds'[d][l] = lfds[d][l]
               /\ OneListenerPerFd' /\ ClosedListeners' /\ ListenersFollowFds'
    <2>1. lfds \in ListenerTable
      BY DEF IInv, Types, ListenerTable
    <2>2. lfds[e][k].active /\ fds[lfds[e][k].fd].num = n
      BY <1>6 DEF First, ListenersFor
    <2>3. lfds' = [lfds EXCEPT ![e] = [lfds[e] EXCEPT ![k] = [lfds[e][k] EXCEPT !.data = n]]]
      BY <1>6, <2>1 DEF ListenerTable
    <2>4. /\ [lfds[e][k] EXCEPT !.data = n] \in [active : BOOLEAN, fd : FdSlots, data : Nat]
          /\ [lfds[e][k] EXCEPT !.data = n].active = lfds[e][k].active
          /\ [lfds[e][k] EXCEPT !.data = n].fd = lfds[e][k].fd
          /\ [lfds[e][k] EXCEPT !.data = n].data = n
      BY <2>1 DEF ListenerTable
    <2>5. lfds' \in ListenerTable
      BY <2>1, <2>3, <2>4 DEF ListenerTable
    <2>6. /\ lfds'[e][k].active = lfds[e][k].active /\ lfds'[e][k].fd = lfds[e][k].fd
          /\ lfds'[e][k].data = n
          /\ \A d \in PollSlots, l \in Listeners : d # e \/ l # k => lfds'[d][l] = lfds[d][l]
      BY <2>1, <2>3, <2>4 DEF ListenerTable
    <2>7. OneListenerPerFd'
      BY <2>6 DEF IInv, OneListenerPerFd
    <2>8. ClosedListeners'
      BY <1>2, <2>6 DEF IInv, ClosedListeners
    <2>9. ListenersFollowFds'
      BY <1>2, <2>2, <2>6 DEF IInv, ListenersFollowFds
    <2>10. QED
      BY <2>5, <2>6, <2>7, <2>8, <2>9
  <1>7. QED
    BY <1>1, <1>4, <1>5, <1>6, <1>8

\* A scan deletes the listeners of closed sockets.
LEMMA EpollWaitStep == IInv /\ EpollWait => IInv'
  <1> SUFFICES ASSUME IInv, EpollWait
               PROVE  IInv'
    OBVIOUS
  <1>1. /\ fds' \in FdTable /\ SameNumbers
        /\ lfds' \in ListenerTable /\ ListenersShrink
        /\ ub' \in BOOLEAN
    BY ScanEffect DEF EpollWait, IInv
  <1>2. UNCHANGED <<currentMaxFd, pollfds, randomPollFd, epollfd, poll, leaked, strayed>>
    BY DEF EpollWait, epollVars, listenVars, pollVars
  <1>3. Types'
    BY <1>1, <1>2 DEF IInv, Types, FdTable, ListenerTable
  <1>4. NumbersAreUnique' /\ FreshNumbers'
    BY <1>1, <1>2, NumbersStay DEF IInv
  <1>5. OneListenerPerFd' /\ ClosedListeners' /\ ListenersFollowFds'
    BY <1>1, <1>2, ListenersStay DEF IInv
  <1>6. PollAccount'
    BY <1>1, <1>2, AccountStays DEF IInv
  <1>7. QED
    BY <1>3, <1>4, <1>5, <1>6 DEF IInv

\* poll starts with no listener in its instance.
LEMMA PollStartStep == IInv /\ PollStart => IInv'
  <1> SUFFICES ASSUME IInv, PollStart
               PROVE  IInv'
    OBVIOUS
  <1>1. PICK list \in PollLists : poll' = [at |-> "add", fds |-> list, i |-> 1]
    BY DEF PollStart
  <1>2. poll' \in [at : {"idle", "add", "wait", "del"}, fds : Seq(Nat), i : Nat \ {0}]
    BY <1>1, PollListsAssumption
  <1>3. /\ poll.at = "idle"
        /\ UNCHANGED <<fds, currentMaxFd, pollfds, randomPollFd, lfds, epollfd, leaked,
                       strayed, ub>>
    BY DEF PollStart, Ready, socketVars, epollVars, listenVars
  <1>4. Types'
    BY <1>2, <1>3 DEF IInv, Types
  <1>5. /\ NumbersAreUnique' /\ FreshNumbers' /\ OneListenerPerFd'
        /\ ClosedListeners' /\ ListenersFollowFds'
    BY <1>3 DEF IInv, NumbersAreUnique, FreshNumbers, OneListenerPerFd,
       ClosedListeners, ListenersFollowFds
  <1>6. PollAccount'
    BY <1>3 DEF IInv, PollAccount, Epfd
  <1>7. QED
    BY <1>4, <1>5, <1>6 DEF IInv

\* poll moves on without a change of the tables other than of its listeners:
\* what is left to show is the account.
LEMMA PollMoves ==
    ASSUME IInv, SameNumbers, fds' \in FdTable, lfds' \in ListenerTable,
           poll' \in [at : {"idle", "add", "wait", "del"}, fds : Seq(Nat), i : Nat \ {0}],
           leaked' \in BOOLEAN, ub' \in BOOLEAN,
           UNCHANGED <<currentMaxFd, pollfds, randomPollFd, epollfd, strayed>>,
           OneListenerPerFd' /\ ClosedListeners' /\ ListenersFollowFds',
           PollAccount'
    PROVE  IInv'
  <1>1. Types'
    BY DEF IInv, Types, FdTable, ListenerTable
  <1>2. NumbersAreUnique' /\ FreshNumbers'
    BY NumbersStay DEF IInv
  <1>3. QED
    BY <1>1, <1>2 DEF IInv

\* poll has one instance.
LEMMA PollInstance ==
    ASSUME NumbersAreUnique, NEW d \in Epfd(epollfd), NEW e \in Epfd(epollfd)
    PROVE  d = e
  BY DEF NumbersAreUnique, Epfd

\* When poll fails at its first entry, it has registered none.
LEMMA FailStep ==
    ASSUME IInv, Fail, poll.at \in {"add", "del"},
           UNCHANGED <<fds, lfds, currentMaxFd, pollfds, randomPollFd, epollfd, strayed, ub>>
    PROVE  IInv'
  <1>1. /\ poll' = NoPoll /\ UNCHANGED lfds
        /\ leaked' = (leaked \/ poll.at = "del" \/ poll.i > 1)
    BY DEF Fail
  <1>2. poll' \in [at : {"idle", "add", "wait", "del"}, fds : Seq(Nat), i : Nat \ {0}]
    BY <1>1 DEF NoPoll
  <1>3. leaked' \in BOOLEAN
    BY <1>1 DEF IInv, Types
  <1>4. ub' \in BOOLEAN
    BY DEF IInv, Types
  <1>5. SameNumbers /\ fds' \in FdTable /\ lfds' \in ListenerTable
    BY <1>1 DEF IInv, Types, SameNumbers, FdTable, ListenerTable
  <1>6. OneListenerPerFd' /\ ClosedListeners' /\ ListenersFollowFds'
    BY <1>1 DEF IInv, OneListenerPerFd, ClosedListeners, ListenersFollowFds
  <1>7. PollAccount'
    <2> SUFFICES ASSUME ~leaked', NEW e \in Epfd(epollfd), NEW k \in Listeners
                 PROVE  ~lfds[e][k].active
      BY <1>1 DEF PollAccount, Epfd
    <2>1. ~leaked /\ poll.at = "add" /\ ~(poll.i > 1) /\ poll.i \in Nat
      BY <1>1 DEF IInv, Types
    <2>2. \A j \in Nat : ~ToDelete(j)
      BY <2>1 DEF ToDelete
    <2>3. QED
      BY <2>1, <2>2 DEF IInv, PollAccount
  <1>8. QED
    BY <1>2, <1>3, <1>4, <1>5, <1>6, <1>7, PollMoves

\* Whatever epoll_ctl does for a file, the listeners stay: what poll has
\* registered for sockets is as it was.
LEMMA FileStep ==
    ASSUME IInv, poll.at \in {"add", "del"}, More, Step, poll.fds[poll.i] \in Files,
           UNCHANGED <<fds, lfds, currentMaxFd, pollfds, randomPollFd, epollfd, strayed, ub>>
    PROVE  IInv'
  <1>1. /\ poll \in [at : {"idle", "add", "wait", "del"}, fds : Seq(Nat), i : Nat \ {0}]
        /\ leaked \in BOOLEAN /\ ub' \in BOOLEAN
    BY DEF IInv, Types
  <1>2. /\ poll' \in [at : {"idle", "add", "wait", "del"}, fds : Seq(Nat), i : Nat \ {0}]
        /\ poll'.at = poll.at /\ poll'.fds = poll.fds /\ poll'.i = poll.i + 1
        /\ UNCHANGED leaked
    BY <1>1 DEF Step
  <1>3. SameNumbers /\ fds' \in FdTable /\ lfds' \in ListenerTable
    BY DEF IInv, Types, SameNumbers, FdTable, ListenerTable
  <1>4. OneListenerPerFd' /\ ClosedListeners' /\ ListenersFollowFds'
    BY DEF IInv, OneListenerPerFd, ClosedListeners, ListenersFollowFds
  <1>5. PollAccount'
    <2> SUFFICES ASSUME ~leaked, NEW e \in Epfd(epollfd), NEW k \in Listeners,
                        lfds[e][k].active
                 PROVE  /\ fds[lfds[e][k].fd].active
                        /\ \E j \in Nat : ToDelete(j)'
                                          /\ poll.fds[j] = fds[lfds[e][k].fd].num
      BY <1>2 DEF PollAccount, Epfd
    <2>1. fds[lfds[e][k].fd].active
      BY DEF IInv, PollAccount
    <2>2. PICK j \in Nat : ToDelete(j) /\ poll.fds[j] = fds[lfds[e][k].fd].num
      BY DEF IInv, PollAccount
    <2>3. lfds[e][k].fd \in FdSlots
      BY DEF IInv, Types, Epfd
    <2>4. fds[lfds[e][k].fd].num >= FD_START
      BY <2>1, <2>3 DEF IInv, FreshNumbers
    <2>5. j # poll.i
      <3>1. fds[lfds[e][k].fd].num \in Nat
        BY <2>3 DEF IInv, Types
      <3>2. poll.fds[poll.i] < FD_START /\ poll.fds[poll.i] \in Nat
        BY FilesAssumption
      <3>3. QED
        BY <2>2, <2>4, <3>1, <3>2, RangeAssumption
    <2>6. ToDelete(j)'
      BY <1>1, <1>2, <2>2, <2>5 DEF ToDelete
    <2>7. QED
      BY <2>1, <2>2, <2>6
  <1>6. QED
    BY <1>1, <1>2, <1>3, <1>4, <1>5, PollMoves

\* What poll registers is in the part of its list it has gone through.
LEMMA PollAddStep == IInv /\ PollAdd => IInv'
  <1> SUFFICES ASSUME IInv, PollAdd
               PROVE  IInv'
    OBVIOUS
  <1>1. /\ poll.at = "add"
        /\ UNCHANGED <<fds, currentMaxFd, pollfds, randomPollFd, epollfd, strayed, ub>>
    BY DEF PollAdd, socketVars, epollVars
  <1>2. /\ poll \in [at : {"idle", "add", "wait", "del"}, fds : Seq(Nat), i : Nat \ {0}]
        /\ leaked \in BOOLEAN /\ ub' \in BOOLEAN
    BY <1>1 DEF IInv, Types
  <1>3. SameNumbers /\ fds' \in FdTable
    BY <1>1 DEF IInv, Types, SameNumbers, FdTable
  <1>4. CASE Fail /\ UNCHANGED lfds
    BY <1>1, <1>4, FailStep
  <1>5. ASSUME More, NEW e \in Epfd(epollfd), CanAdd(e, poll.fds[poll.i]),
               Add(e, poll.fds[poll.i]), Step
        PROVE  IInv'
    <2>1. poll.i \in 1..Len(poll.fds) /\ poll.fds[poll.i] \in Nat
      BY <1>2, <1>5 DEF More
    <2>2. /\ poll' \in [at : {"idle", "add", "wait", "del"}, fds : Seq(Nat), i : Nat \ {0}]
          /\ poll'.at = "add" /\ poll'.fds = poll.fds /\ poll'.i = poll.i + 1
          /\ UNCHANGED leaked
      BY <1>1, <1>2, <1>5 DEF Step
    <2>3. e \in PollSlots /\ pollfds[e].active
      BY DEF Epfd
    <2>4. OneListenerPerFd' /\ ClosedListeners' /\ ListenersFollowFds'
      BY <1>1, <1>5, <2>1, <2>3, AddKeeps DEF IInv
    <2>5. PICK i \in FdSlots, k \in Listeners :
             /\ fds[i].active /\ fds[i].num = poll.fds[poll.i]
             /\ ~lfds[e][k].active
             /\ \A l \in Listeners : lfds[e][l].active => lfds[e][l].fd # i
             /\ lfds'[e][k].active /\ lfds'[e][k].fd = i
             /\ lfds'[e][k].data = poll.fds[poll.i]
             /\ \A d \in PollSlots, l \in Listeners :
                  d # e \/ l # k => lfds'[d][l] = lfds[d][l]
      BY <1>5, <2>1, <2>3, AddEffect DEF IInv
    <2>6. lfds' \in ListenerTable
      BY <1>5, <2>1, <2>3, AddEffect DEF IInv
    <2>7. PollAccount'
      <3> SUFFICES ASSUME ~leaked, NEW l \in Listeners, lfds'[e][l].active
                   PROVE  /\ fds[lfds'[e][l].fd].active
                          /\ \E j \in Nat : ToDelete(j)'
                                            /\ poll.fds[j] = fds[lfds'[e][l].fd].num
        BY <1>1, <1>5, <2>2, PollInstance DEF IInv, PollAccount, Epfd
      <3>1. CASE l = k
        <4>1. lfds'[e][l].fd = i
          BY <2>5, <3>1
        <4>2. \A j \in Nat : j = poll.i => ToDelete(j)'
          BY <2>1, <2>2 DEF ToDelete
        <4>3. QED
          BY <2>1, <2>5, <4>1, <4>2
      <3>2. CASE l # k
        <4>1. lfds'[e][l] = lfds[e][l]
          BY <2>3, <2>5, <3>2
        <4>2. \A j \in Nat : ToDelete(j) => ToDelete(j)'
          BY <1>1, <1>2, <2>2 DEF ToDelete
        <4>3. QED
          BY <4>1, <4>2 DEF IInv, PollAccount
      <3>3. QED
        BY <3>1, <3>2
    <2>8. QED
      BY <1>1, <1>2, <1>3, <1>5, <2>2, <2>4, <2>6, <2>7, PollMoves
  <1>6. CASE ~More /\ poll' = [poll EXCEPT !.at = "wait"] /\ UNCHANGED <<lfds, leaked>>
    <2>1. /\ poll' \in [at : {"idle", "add", "wait", "del"}, fds : Seq(Nat), i : Nat \ {0}]
          /\ poll'.at = "wait" /\ poll'.fds = poll.fds
      BY <1>2, <1>6
    <2>2. lfds' \in ListenerTable
      BY <1>6 DEF IInv, Types, ListenerTable
    <2>3. OneListenerPerFd' /\ ClosedListeners' /\ ListenersFollowFds'
      BY <1>1, <1>6 DEF IInv, OneListenerPerFd, ClosedListeners, ListenersFollowFds
    <2>4. \A j \in Nat : ToDelete(j) => ToDelete(j)'
      BY <2>1 DEF ToDelete
    <2>5. PollAccount'
      BY <1>1, <1>6, <2>1, <2>4 DEF IInv, PollAccount, Epfd
    <2>6. QED
      BY <1>1, <1>2, <1>3, <1>6, <2>1, <2>2, <2>3, <2>5, PollMoves
  <1>7. ASSUME More, NEW e \in Epfd(epollfd), AddSucceeds(e, poll.fds[poll.i]), Step
        PROVE  IInv'
    <2>1. CASE poll.fds[poll.i] \in Files /\ UNCHANGED lfds
      BY <1>1, <1>7, <2>1, FileStep
    <2>2. CASE CanAdd(e, poll.fds[poll.i]) /\ Add(e, poll.fds[poll.i])
      BY <1>5, <1>7, <2>2
    <2>3. QED
      BY <1>7, <2>1, <2>2 DEF AddSucceeds
  <1>8. ASSUME NEW e \in Epfd(epollfd), AddFails(e, poll.fds[poll.i]), Fail
        PROVE  IInv'
    BY <1>4, <1>8 DEF AddFails
  <1>9. QED
    BY <1>4, <1>6, <1>7, <1>8 DEF PollAdd, NoInstance, listenVars

\* Before the first DEL, every entry of the list is still to be deleted.
LEMMA PollWaitStep == IInv /\ PollWait => IInv'
  <1> SUFFICES ASSUME IInv, PollWait
               PROVE  IInv'
    OBVIOUS
  <1>1. /\ poll.at = "wait"
        /\ UNCHANGED <<currentMaxFd, pollfds, randomPollFd, epollfd, strayed, leaked>>
    BY DEF PollWait, epollVars
  <1>2. /\ fds' \in FdTable /\ SameNumbers
        /\ lfds' \in ListenerTable /\ ListenersShrink
        /\ ub' \in BOOLEAN
    <2>1. CASE UNCHANGED <<fds, lfds, ub>>
      BY <2>1 DEF IInv, Types, FdTable, SameNumbers, ListenerTable, ListenersShrink
    <2>2. ASSUME NEW e \in Epfd(epollfd), Scan(e)
          PROVE  /\ fds' \in FdTable /\ SameNumbers
                 /\ lfds' \in ListenerTable /\ ListenersShrink
                 /\ ub' \in BOOLEAN
      BY <2>2, ScanEffect DEF IInv, Epfd
    <2>3. QED
      BY <2>1, <2>2 DEF PollWait
  <1>3. /\ poll' \in [at : {"idle", "add", "wait", "del"}, fds : Seq(Nat), i : Nat \ {0}]
        /\ poll'.at = "del" /\ poll'.fds = poll.fds /\ poll'.i = 1
    <2>1. poll' = [poll EXCEPT !.at = "del", !.i = 1]
      BY DEF PollWait
    <2>2. poll \in [at : {"idle", "add", "wait", "del"}, fds : Seq(Nat), i : Nat \ {0}]
      BY DEF IInv, Types
    <2>3. poll'.at = "del" /\ poll'.fds = poll.fds /\ poll'.i = 1
      BY <2>1, <2>2
    <2>4. /\ poll' = [at |-> poll'.at, fds |-> poll'.fds, i |-> poll'.i]
          /\ poll.fds \in Seq(Nat)
      BY <2>1, <2>2
    <2>5. QED
      BY <2>3, <2>4
  <1>4. OneListenerPerFd' /\ ClosedListeners' /\ ListenersFollowFds'
    BY <1>1, <1>2, ListenersStay DEF IInv
  <1>5. PollAccount'
    <2> SUFFICES ASSUME ~leaked, NEW e \in Epfd(epollfd), NEW k \in Listeners,
                        lfds'[e][k].active
                 PROVE  /\ fds'[lfds'[e][k].fd].active
                        /\ \E j \in Nat : ToDelete(j)'
                                          /\ poll.fds[j] = fds'[lfds'[e][k].fd].num
      BY <1>1, <1>3 DEF PollAccount, Epfd
    <2>1. lfds[e][k].active /\ lfds'[e][k] = lfds[e][k]
      BY <1>2 DEF ListenersShrink, Epfd
    <2>2. lfds[e][k].fd \in FdSlots
      BY DEF IInv, Types, Epfd
    <2>3. \A j \in Nat : ToDelete(j) => ToDelete(j)'
      BY <1>3 DEF ToDelete
    <2>4. QED
      BY <1>2, <2>1, <2>2, <2>3 DEF IInv, PollAccount, SameNumbers
  <1>6. leaked' \in BOOLEAN
    BY <1>1 DEF IInv, Types
  <1>7. QED
    BY <1>1, <1>2, <1>3, <1>4, <1>5, <1>6, PollMoves

\* DEL takes the only listener for its entry.
LEMMA PollDeleteStep == IInv /\ PollDelete => IInv'
  <1> SUFFICES ASSUME IInv, PollDelete
               PROVE  IInv'
    OBVIOUS
  <1>1. /\ poll.at = "del"
        /\ UNCHANGED <<fds, currentMaxFd, pollfds, randomPollFd, epollfd, strayed, ub>>
    BY DEF PollDelete, socketVars, epollVars
  <1>2. /\ poll \in [at : {"idle", "add", "wait", "del"}, fds : Seq(Nat), i : Nat \ {0}]
        /\ leaked \in BOOLEAN /\ ub' \in BOOLEAN
    BY <1>1 DEF IInv, Types
  <1>3. SameNumbers /\ fds' \in FdTable
    BY <1>1 DEF IInv, Types, SameNumbers, FdTable
  <1>4. CASE Fail /\ UNCHANGED lfds
    BY <1>1, <1>4, FailStep
  <1>5. ASSUME More, NEW e \in Epfd(epollfd), Delete(e, poll.fds[poll.i]),
               Step
        PROVE  IInv'
    <2>1. poll.i \in 1..Len(poll.fds) /\ poll.fds[poll.i] \in Nat
      BY <1>2, <1>5 DEF More
    <2>2. /\ poll' \in [at : {"idle", "add", "wait", "del"}, fds : Seq(Nat), i : Nat \ {0}]
          /\ poll'.at = "del" /\ poll'.fds = poll.fds /\ poll'.i = poll.i + 1
          /\ UNCHANGED leaked
      BY <1>1, <1>2, <1>5 DEF Step
    <2>3. e \in PollSlots
      BY DEF Epfd
    <2>4. lfds' \in ListenerTable /\ ListenersShrink
      BY <1>5, <2>1, <2>3, DeleteEffect DEF IInv
    <2>5. PICK k \in Listeners : /\ lfds[e][k].active /\ ~lfds'[e][k].active
                                 /\ fds[lfds[e][k].fd].num = poll.fds[poll.i]
      BY <1>5, <2>1, <2>3, DeleteEffect DEF IInv
    <2>6. OneListenerPerFd' /\ ClosedListeners' /\ ListenersFollowFds'
      BY <1>1, <1>3, <2>4, ListenersStay DEF IInv
    <2>7. PollAccount'
      <3> SUFFICES ASSUME ~leaked, NEW l \in Listeners, lfds'[e][l].active
                   PROVE  /\ fds[lfds'[e][l].fd].active
                          /\ \E j \in Nat : ToDelete(j)'
                                            /\ poll.fds[j] = fds[lfds'[e][l].fd].num
        BY <1>1, <1>5, <2>2, PollInstance DEF IInv, PollAccount, Epfd
      <3>1. l # k /\ lfds[e][l].active /\ lfds'[e][l] = lfds[e][l]
        BY <2>3, <2>4, <2>5 DEF ListenersShrink
      <3>2. /\ fds[lfds[e][k].fd].active /\ fds[lfds[e][l].fd].active
            /\ lfds[e][k].fd \in FdSlots /\ lfds[e][l].fd \in FdSlots
        BY <2>3, <2>5, <3>1 DEF IInv, Types, PollAccount
      <3>3. fds[lfds[e][l].fd].num # poll.fds[poll.i]
        BY <2>3, <2>5, <3>1, <3>2 DEF IInv, NumbersAreUnique, OneListenerPerFd
      <3>4. PICK j \in Nat : ToDelete(j) /\ poll.fds[j] = fds[lfds[e][l].fd].num
        BY <3>1 DEF IInv, PollAccount
      <3>5. ToDelete(j)'
        BY <1>1, <1>2, <2>2, <3>3, <3>4 DEF ToDelete
      <3>6. QED
        BY <3>1, <3>2, <3>4, <3>5
    <2>8. QED
      BY <1>1, <1>2, <1>3, <1>5, <2>2, <2>4, <2>6, <2>7, PollMoves
  <1>6. CASE ~More /\ poll' = NoPoll /\ UNCHANGED <<lfds, leaked>>
    <2>1. poll' \in [at : {"idle", "add", "wait", "del"}, fds : Seq(Nat), i : Nat \ {0}]
      BY <1>6 DEF NoPoll
    <2>2. lfds' \in ListenerTable
      BY <1>6 DEF IInv, Types, ListenerTable
    <2>3. OneListenerPerFd' /\ ClosedListeners' /\ ListenersFollowFds'
      BY <1>1, <1>6 DEF IInv, OneListenerPerFd, ClosedListeners, ListenersFollowFds
    <2>4. \A j \in Nat : ~ToDelete(j)
      BY <1>1, <1>2, <1>6 DEF ToDelete, More
    <2>5. PollAccount'
      BY <1>1, <1>6, <2>4 DEF IInv, PollAccount, Epfd
    <2>6. QED
      BY <1>1, <1>2, <1>3, <1>6, <2>1, <2>2, <2>3, <2>5, PollMoves
  <1>7. ASSUME More, NEW e \in Epfd(epollfd), DeleteSucceeds(e, poll.fds[poll.i]), Step
        PROVE  IInv'
    <2>1. CASE poll.fds[poll.i] \in Files /\ UNCHANGED lfds
      BY <1>1, <1>7, <2>1, FileStep
    <2>2. CASE Delete(e, poll.fds[poll.i])
      BY <1>5, <1>7, <2>2
    <2>3. QED
      BY <1>7, <2>1, <2>2 DEF DeleteSucceeds
  <1>8. ASSUME NEW e \in Epfd(epollfd), DeleteFails(e, poll.fds[poll.i]), Fail
        PROVE  IInv'
    BY <1>4, <1>8 DEF DeleteFails
  <1>9. QED
    BY <1>4, <1>6, <1>7, <1>8 DEF PollDelete, NoInstance, listenVars

\* Every step keeps the invariant.
LEMMA Inductive == IInv /\ [Next]_vars => IInv'
  <1> SUFFICES ASSUME IInv, [Next]_vars
               PROVE  IInv'
    OBVIOUS
  <1>1. CASE Socket \/ Prepare \/ Accept \/ CloseSocket
    BY <1>1, SocketStep, PrepareStep, AcceptStep, CloseSocketStep
  <1>2. CASE CloseFile
    BY <1>2 DEF CloseFile, socketVars, epollVars, pollVars, IInv, Types, NumbersAreUnique,
       FreshNumbers, OneListenerPerFd, ClosedListeners, ListenersFollowFds, PollAccount,
       ToDelete, Epfd
  <1>3. CASE EpollCreate \/ CloseEpoll \/ EpollCtl \/ EpollWait
    BY <1>3, EpollCreateStep, CloseEpollStep, EpollCtlStep, EpollWaitStep
  <1>4. CASE PollCreate \/ PollStart \/ PollAdd \/ PollWait \/ PollDelete
    BY <1>4, PollCreateStep, PollStartStep, PollAddStep, PollWaitStep, PollDeleteStep
  <1>5. CASE UNCHANGED vars
    BY <1>5 DEF vars, socketVars, epollVars, listenVars, pollVars, IInv, Types,
       NumbersAreUnique, FreshNumbers, OneListenerPerFd, ClosedListeners,
       ListenersFollowFds, PollAccount, ToDelete, Epfd
  <1>6. QED
    BY <1>1, <1>2, <1>3, <1>4, <1>5 DEF Next, Crashed

\* The invariant holds in every reachable state.
LEMMA Invariance == Spec => []IInv
  BY InitIInv, Inductive, PTL DEF Spec

---------------------------------------------------------------------------
\* No number has two sockets, or two epoll instances (socket.c:62-70,
\* event.c:49-57).
THEOREM NumbersStayUnique == Spec => []NumbersAreUnique
  <1>1. IInv => NumbersAreUnique
    BY DEF IInv
  <1>2. QED
    BY <1>1, Invariance, PTL

\* epoll_ctl never registers a socket twice in an instance, also when slots are
\* used again under its listeners (event.c:258-275).
THEOREM ListenersAreUnique == Spec => []OneListenerPerFd
  <1>1. IInv => OneListenerPerFd
    BY DEF IInv
  <1>2. QED
    BY <1>1, Invariance, PTL

\* Closing a socket that a listener has is the only way to events of another
\* socket (event.c:82-100).
THEOREM ListenersAreRight == Spec => []ListenersFollowFds
  <1>1. IInv => ListenersFollowFds
    BY DEF IInv
  <1>2. QED
    BY <1>1, Invariance, PTL
\* What bind, listen, connect, accept and epoll_pwait make of a socket.
Forward == {<<"created", "bound">>, <<"bound", "listen">>,
            <<"created", "connecting">>, <<"connecting", "open">>}

\* A slot whose socket, if it has one after the step, is the one it had, or one
\* that gets the next number.
SlotGoesOn(j) ==
    fds'[j].active =>
        \/ /\ fds[j].active /\ fds'[j].num = fds[j].num
           /\ \/ fds'[j].state = fds[j].state
              \/ <<fds[j].state, fds'[j].state>> \in Forward
        \/ fds'[j].num = currentMaxFd

\* A number that was given out, to a socket or to an epoll instance, names what
\* it named before the step, in the same slot, or nothing; and a socket never
\* goes back to an earlier state.
NumbersAreSpent ==
    /\ currentMaxFd <= currentMaxFd' /\ randomPollFd <= randomPollFd'
    /\ \A j \in FdSlots : fds'[j].active /\ fds'[j].num < currentMaxFd =>
         /\ fds[j].active /\ fds[j].num = fds'[j].num
         /\ \/ fds'[j].state = fds[j].state
            \/ <<fds[j].state, fds'[j].state>> \in Forward
    /\ \A e \in PollSlots : pollfds'[e].active /\ pollfds'[e].num < randomPollFd =>
         pollfds'[e] = pollfds[e]

\* epoll_pwait only opens sockets that were connecting.
LEMMA ScanGoesOn ==
    ASSUME Types, NEW e \in PollSlots, Scan(e), NEW j \in FdSlots
    PROVE  SlotGoesOn(j)
  <1>1. CASE fds' = fds
    BY <1>1 DEF SlotGoesOn
  <1>2. CASE fds' # fds
    <2>1. PICK opened : /\ \A i \in opened : fds[i].state = "connecting"
                        /\ fds' = [i \in FdSlots |->
                                     IF i \in opened THEN [fds[i] EXCEPT !.state = "open"]
                                                     ELSE fds[i]]
      <3>1. \E valid : \E opened \in SUBSET {i \in valid : fds[i].state = "connecting"} :
              fds' = [i \in FdSlots |-> IF i \in opened THEN [fds[i] EXCEPT !.state = "open"]
                                                        ELSE fds[i]]
        BY <1>2, Zenon DEF Scan
      <3>2. QED
        BY <3>1
    <2>2. fds[j] \in [active : BOOLEAN, num : Nat, state : FdStates]
      BY DEF Types
    <2>3. CASE j \in opened
      <3>1. fds'[j] = [fds[j] EXCEPT !.state = "open"] /\ fds[j].state = "connecting"
        BY <2>1, <2>3
      <3>2. /\ fds'[j].active = fds[j].active /\ fds'[j].num = fds[j].num
            /\ fds'[j].state = "open"
        BY <2>2, <3>1
      <3>3. QED
        BY <3>1, <3>2 DEF SlotGoesOn, Forward
    <2>4. CASE j \notin opened
      BY <2>1, <2>4 DEF SlotGoesOn
    <2>5. QED
      BY <2>3, <2>4
  <1>3. QED
    BY <1>1, <1>2

\* What every step does to a slot of the table of sockets.
LEMMA SlotsGoOn ==
    ASSUME Types, [Next]_vars, NEW j \in FdSlots
    PROVE  SlotGoesOn(j) /\ currentMaxFd' \in {currentMaxFd, currentMaxFd + 1}
  <1>1. CASE UNCHANGED socketVars
    BY <1>1 DEF socketVars, SlotGoesOn
  <1>2. CASE \E i \in FdSlots, st \in FdStates : NewFd(i, st)
    <2>1. PICK i \in FdSlots, st \in FdStates : NewFd(i, st)
      BY <1>2
    <2>2. /\ currentMaxFd' = currentMaxFd + 1
          /\ fds'[i] = [active |-> TRUE, num |-> currentMaxFd, state |-> st]
          /\ \A k \in FdSlots \ {i} : fds'[k] = fds[k]
      BY <2>1, NewFdEffect
    <2>3. CASE j = i
      BY <2>2, <2>3 DEF SlotGoesOn
    <2>4. CASE j # i
      BY <2>2, <2>4 DEF SlotGoesOn
    <2>5. QED
      BY <2>3, <2>4
  <1>3. CASE Socket \/ Accept
    <2>1. "created" \in FdStates /\ "open" \in FdStates
      BY DEF FdStates
    <2>2. UNCHANGED socketVars \/ \E i \in FdSlots, st \in FdStates : NewFd(i, st)
      BY <1>3, <2>1 DEF Socket, Accept
    <2>3. QED
      BY <1>1, <1>2, <2>2
  <1>4. CASE Prepare
    <2>1. PICK i \in FdSlots, from \in FdStates, to \in FdStates :
            Becomes(i, from, to) /\ <<from, to>> \in Forward
      BY <1>4 DEF Prepare, FdStates, Forward
    <2>2. /\ fds[i].state = from /\ fds'[i] = [fds[i] EXCEPT !.state = to]
          /\ \A k \in FdSlots \ {i} : fds'[k] = fds[k]
      BY <2>1 DEF Becomes, Types
    <2>3. fds'[i].active = fds[i].active /\ fds'[i].num = fds[i].num /\ fds'[i].state = to
      BY <2>2 DEF Types
    <2>4. currentMaxFd' = currentMaxFd
      BY <1>4 DEF Prepare
    <2>5. QED
      BY <2>1, <2>2, <2>3, <2>4 DEF SlotGoesOn
  <1>5. CASE CloseSocket
    <2>1. PICK i \in FdSlots : fds' = [fds EXCEPT ![i] = NoFd]
      BY <1>5 DEF CloseSocket
    <2>2. j # i => fds'[j] = fds[j]
      BY <2>1 DEF Types
    <2>3. j = i => ~fds'[j].active
      BY <2>1, UnusedEntries DEF Types
    <2>4. QED
      BY <1>5, <2>2, <2>3 DEF CloseSocket, SlotGoesOn
  <1>6. CASE EpollWait \/ PollWait
    <2>1. currentMaxFd' = currentMaxFd
      BY <1>6 DEF EpollWait, PollWait
    <2>2. fds' = fds \/ \E e \in PollSlots : Scan(e)
      BY <1>6 DEF EpollWait, PollWait, Epfd
    <2>3. QED
      BY <2>1, <2>2, ScanGoesOn DEF SlotGoesOn
  <1>7. CASE \/ CloseFile \/ EpollCreate \/ CloseEpoll \/ EpollCtl
             \/ PollCreate \/ PollStart \/ PollAdd \/ PollDelete
             \/ UNCHANGED vars
    BY <1>1, <1>7 DEF CloseFile, EpollCreate, CloseEpoll, EpollCtl, PollCreate, PollStart,
       PollAdd, PollDelete, vars
  <1>8. QED
    BY <1>3, <1>4, <1>5, <1>6, <1>7 DEF Next, Crashed

\* What every step does to a slot of the table of epoll instances.
LEMMA InstancesGoOn ==
    ASSUME Types, [Next]_vars, NEW d \in PollSlots
    PROVE  /\ pollfds'[d].active => pollfds'[d] = pollfds[d] \/ pollfds'[d].num = randomPollFd
           /\ randomPollFd' \in {randomPollFd, randomPollFd + 1}
  <1>1. CASE UNCHANGED <<pollfds, randomPollFd>>
    BY <1>1
  <1>2. CASE EpollCreate \/ PollCreate
    BY <1>2, CreateEffect DEF EpollCreate, PollCreate
  <1>3. CASE CloseEpoll
    <2>1. PICK e \in PollSlots : pollfds' = [pollfds EXCEPT ![e] = NoEpfd]
      BY <1>3 DEF CloseEpoll
    <2>2. d # e => pollfds'[d] = pollfds[d]
      BY <2>1 DEF Types
    <2>3. d = e => ~pollfds'[d].active
      BY <2>1, UnusedEntries DEF Types
    <2>4. QED
      BY <1>3, <2>2, <2>3 DEF CloseEpoll
  <1>4. CASE \/ Socket \/ Prepare \/ Accept \/ CloseSocket \/ CloseFile \/ EpollCtl \/ EpollWait
             \/ PollStart \/ PollAdd \/ PollWait \/ PollDelete \/ UNCHANGED vars
    BY <1>1, <1>4 DEF Socket, Prepare, Accept, CloseSocket, CloseFile, EpollCtl, EpollWait,
       PollStart, PollAdd, PollWait, PollDelete, vars, epollVars
  <1>5. QED
    BY <1>2, <1>3, <1>4 DEF Next, Crashed

\* A number that the application still holds after close is not given to another
\* socket, nor that of an epoll instance to another instance: what is done with
\* it is refused, not done to another one (socket.c:62-70, 153-165,
\* event.c:49-57, 200-221).  Only between the two tables is there no such
\* promise: see RangesAreKept.
THEOREM NumbersStaySpent == Spec => [][NumbersAreSpent]_vars
  <1>1. IInv /\ [Next]_vars => NumbersAreSpent
    <2> SUFFICES ASSUME Types, [Next]_vars
                 PROVE  NumbersAreSpent
      BY DEF IInv
    <2>1. currentMaxFd \in Nat /\ randomPollFd \in Nat
      BY DEF Types
    <2>2. 0 \in FdSlots /\ 0 \in PollSlots
      BY SizeAssumption DEF FdSlots, PollSlots
    <2>3. currentMaxFd <= currentMaxFd' /\ randomPollFd <= randomPollFd'
      <3>1. PICK j \in FdSlots, e \in PollSlots : TRUE
        BY <2>2
      <3>2. /\ currentMaxFd' \in {currentMaxFd, currentMaxFd + 1}
            /\ randomPollFd' \in {randomPollFd, randomPollFd + 1}
        BY <3>1, SlotsGoOn, InstancesGoOn
      <3>3. QED
        BY <2>1, <3>2
    <2>4. ASSUME NEW j \in FdSlots, fds'[j].active, fds'[j].num < currentMaxFd
          PROVE  /\ fds[j].active /\ fds[j].num = fds'[j].num
                 /\ \/ fds'[j].state = fds[j].state
                    \/ <<fds[j].state, fds'[j].state>> \in Forward
      BY <2>1, <2>4, SlotsGoOn DEF SlotGoesOn
    <2>5. ASSUME NEW e \in PollSlots, pollfds'[e].active, pollfds'[e].num < randomPollFd
          PROVE  pollfds'[e] = pollfds[e]
      BY <2>1, <2>5, InstancesGoOn
    <2>6. QED
      BY <2>3, <2>4, <2>5 DEF NumbersAreSpent
  <1>2. QED
    BY <1>1, Invariance, PTL DEF Spec

\* socket has given out all its numbers.
Exhausted == currentMaxFd >= POLLFD_START

\* Numbers are not given back: a process that has used them up never gets
\* another socket from socket(), whatever it closes (socket.c:153-165).
THEOREM NumbersRunOut == Spec => [](Exhausted => [][~Socket]_vars)
  <1>1. IInv /\ Exhausted /\ [Next]_vars => Exhausted'
    <2> SUFFICES ASSUME Types, Exhausted, [Next]_vars
                 PROVE  Exhausted'
      BY DEF IInv
    <2>1. PICK j \in FdSlots : TRUE
      <3>1. 0 \in FdSlots
        BY SizeAssumption DEF FdSlots
      <3>2. QED
        BY <3>1
    <2>2. currentMaxFd' \in {currentMaxFd, currentMaxFd + 1} /\ currentMaxFd \in Nat
      BY <2>1, SlotsGoOn DEF Types
    <2>3. QED
      BY <2>2, RangeAssumption DEF Exhausted
  <1>2. IInv /\ Exhausted => [~Socket]_vars
    BY RangeAssumption DEF IInv, Types, Exhausted, Socket
  <1>3. QED
    BY <1>1, <1>2, Invariance, PTL DEF Spec
=============================================================================
