----------------------------- MODULE PollProofs -----------------------------
(***************************************************************************)
(* What poll and epoll leave behind, for all sizes, files and lists: the   *)
(* files in the instances of the kernel, the slots of closed instances,    *)
(* and when a NULL pointer is used.                                        *)
(*                                                                         *)
(* The account of DescriptorsProofs is extended to files; that an instance *)
(* has room for the whole list of poll is a pigeonhole argument on it.     *)
(***************************************************************************)
EXTENDS DescriptorsProofs, FiniteSets, FiniteSetTheorems

KernelTable == [PollSlots -> [fd : {"none", "failed", "open"}, files : SUBSET Files]]

KernelTypes == kernel \in KernelTable /\ inherited \in BOOLEAN /\ early \in BOOLEAN

\* A slot that is free has no file, unless it was closed with some.
ClosedFiles ==
    \A e \in PollSlots : ~pollfds[e].active => inherited \/ kernel[e].files = {}

\* The files in the instance of poll are those of its list.
FileAccount ==
    ~leaked /\ ~inherited =>
        \A e \in Epfd(epollfd) : \A f \in kernel[e].files :
            /\ poll.at # "idle"
            /\ \E j \in Nat : ToDelete(j) /\ poll.fds[j] = f

KInv == KernelTypes /\ ClosedFiles /\ FileAccount

---------------------------------------------------------------------------
\* What a file is forwarded to has no other files than the slot had.
LEMMA ForwardedEffect ==
    ASSUME KernelTypes, NEW e \in PollSlots, NEW k \in Forwarded(e)
    PROVE  /\ k \in [fd : {"none", "failed", "open"}, files : SUBSET Files]
           /\ k.files \subseteq kernel[e].files
  <1>1. kernel[e] \in [fd : {"none", "failed", "open"}, files : SUBSET Files]
    BY DEF KernelTypes, KernelTable
  <1>2. CASE k \in [fd : {"open", "failed"}, files : {{}}]
    BY <1>2
  <1>3. CASE k = kernel[e]
    BY <1>1, <1>3
  <1>4. QED
    BY <1>2, <1>3 DEF Forwarded

\* epoll_ctl changes the files of its instance by the one it is about.
LEMMA AddForwards ==
    ASSUME KernelTypes, NEW e \in PollSlots, NEW n, AddSucceeds(e, n)
    PROVE  /\ kernel' \in KernelTable /\ early' \in BOOLEAN
           /\ \A d \in PollSlots \ {e} : kernel'[d] = kernel[d]
           /\ kernel'[e].files \subseteq kernel[e].files \union {n}
  <1>1. CASE /\ n \in Files
             /\ \E k \in Forwarded(e) :
                  kernel' = [kernel EXCEPT ![e] = [k EXCEPT !.files = @ \union {n}]]
             /\ UNCHANGED early
    <2>1. PICK k \in Forwarded(e) :
            kernel' = [kernel EXCEPT ![e] = [k EXCEPT !.files = @ \union {n}]]
      BY <1>1
    <2>2. /\ k \in [fd : {"none", "failed", "open"}, files : SUBSET Files]
          /\ k.files \subseteq kernel[e].files
      BY ForwardedEffect
    <2>3. PICK x : x = [k EXCEPT !.files = @ \union {n}]
      OBVIOUS
    <2>4. /\ x \in [fd : {"none", "failed", "open"}, files : SUBSET Files]
          /\ x.files = k.files \union {n}
      BY <1>1, <2>2, <2>3
    <2>5. kernel' = [kernel EXCEPT ![e] = x]
      BY <2>1, <2>3
    <2>6. kernel' \in KernelTable
      BY <2>4, <2>5 DEF KernelTypes, KernelTable
    <2>7. kernel'[e] = x /\ \A d \in PollSlots \ {e} : kernel'[d] = kernel[d]
      BY <2>5 DEF KernelTypes, KernelTable
    <2>8. QED
      BY <1>1, <2>2, <2>4, <2>6, <2>7 DEF KernelTypes
  <1>2. CASE UNCHANGED kernel /\ early' \in BOOLEAN
    BY <1>2 DEF KernelTypes
  <1>3. (early \/ \E i \in Numbered(n) : fds[i].state \in {"created", "bound"}) \in BOOLEAN
    OBVIOUS
  <1>4. QED
    BY <1>1, <1>2, <1>3 DEF AddSucceeds

\* DEL takes the file out of its instance.
LEMMA DeleteForwards ==
    ASSUME KernelTypes, NEW e \in PollSlots, NEW n, DeleteSucceeds(e, n)
    PROVE  /\ kernel' \in KernelTable /\ early' \in BOOLEAN
           /\ \A d \in PollSlots \ {e} : kernel'[d] = kernel[d]
           /\ kernel'[e].files \subseteq kernel[e].files \ {n}
  <1>1. early' \in BOOLEAN
    BY DEF DeleteSucceeds, KernelTypes
  <1>2. CASE n \in Files /\ \E k \in Forwarded(e) :
                  kernel' = [kernel EXCEPT ![e] = [k EXCEPT !.files = @ \ {n}]]
    <2>1. PICK k \in Forwarded(e) :
            kernel' = [kernel EXCEPT ![e] = [k EXCEPT !.files = @ \ {n}]]
      BY <1>2
    <2>2. /\ k \in [fd : {"none", "failed", "open"}, files : SUBSET Files]
          /\ k.files \subseteq kernel[e].files
      BY ForwardedEffect
    <2>3. PICK x : x = [k EXCEPT !.files = @ \ {n}]
      OBVIOUS
    <2>4. /\ x \in [fd : {"none", "failed", "open"}, files : SUBSET Files]
          /\ x.files = k.files \ {n}
      BY <2>2, <2>3
    <2>5. kernel' = [kernel EXCEPT ![e] = x]
      BY <2>1, <2>3
    <2>6. kernel' \in KernelTable
      BY <2>4, <2>5 DEF KernelTypes, KernelTable
    <2>7. kernel'[e] = x /\ \A d \in PollSlots \ {e} : kernel'[d] = kernel[d]
      BY <2>5 DEF KernelTypes, KernelTable
    <2>8. QED
      BY <1>1, <2>2, <2>4, <2>6, <2>7
  <1>3. CASE n \notin Files /\ UNCHANGED kernel
    BY <1>1, <1>3 DEF KernelTypes, KernelTable
  <1>4. QED
    BY <1>2, <1>3 DEF DeleteSucceeds

\* An epoll_ctl that fails adds no file.
LEMMA FailureForwards ==
    ASSUME KernelTypes, NEW e \in PollSlots, NEW n, AddFails(e, n) \/ DeleteFails(e, n)
    PROVE  /\ kernel' \in KernelTable /\ early' \in BOOLEAN
           /\ \A d \in PollSlots \ {e} : kernel'[d] = kernel[d]
           /\ kernel'[e].files \subseteq kernel[e].files
  <1>1. early' \in BOOLEAN
    BY DEF AddFails, DeleteFails, KernelTypes
  <1>2. CASE \E k \in Forwarded(e) : kernel' = [kernel EXCEPT ![e] = k]
    <2>1. PICK k \in Forwarded(e) : kernel' = [kernel EXCEPT ![e] = k]
      BY <1>2
    <2>2. /\ k \in [fd : {"none", "failed", "open"}, files : SUBSET Files]
          /\ k.files \subseteq kernel[e].files
      BY ForwardedEffect
    <2>3. QED
      BY <1>1, <2>1, <2>2 DEF KernelTypes, KernelTable
  <1>3. CASE UNCHANGED kernel
    BY <1>1, <1>3 DEF KernelTypes
  <1>4. QED
    BY <1>2, <1>3 DEF AddFails, DeleteFails

---------------------------------------------------------------------------
\* Nothing of the kernel and of poll changes.
LEMMA FilesStay ==
    ASSUME KInv, UNCHANGED <<kernel, inherited, early, pollfds, epollfd, poll, leaked>>
    PROVE  KInv'
  BY DEF KInv, KernelTypes, ClosedFiles, FileAccount, ToDelete, Epfd

\* Files only go, and poll does not move.
LEMMA FilesShrink ==
    ASSUME KInv, kernel' \in KernelTable, early' \in BOOLEAN,
           \A e \in PollSlots : kernel'[e].files \subseteq kernel[e].files,
           UNCHANGED <<inherited, pollfds, epollfd, poll, leaked>>
    PROVE  KInv'
  <1>1. KernelTypes'
    BY DEF KInv, KernelTypes
  <1>2. ClosedFiles'
    BY DEF KInv, ClosedFiles
  <1>3. FileAccount'
    BY DEF KInv, FileAccount, ToDelete, Epfd
  <1>4. QED
    BY <1>1, <1>2, <1>3 DEF KInv

\* What is left of an instance that is closed is known as inherited.
LEMMA CloseEpollFiles == IInv /\ KInv /\ CloseEpoll => KInv'
  <1> SUFFICES ASSUME IInv, KInv, CloseEpoll
               PROVE  KInv'
    OBVIOUS
  <1>1. PICK e \in PollSlots : /\ pollfds' = [pollfds EXCEPT ![e] = NoEpfd]
                               /\ inherited' = (inherited \/ kernel[e].files # {})
    BY DEF CloseEpoll
  <1>2. UNCHANGED <<kernel, early, epollfd, poll, leaked>> /\ poll.at = "idle"
    BY DEF CloseEpoll, Ready, pollVars
  <1>3. /\ ~pollfds'[e].active
        /\ \A d \in PollSlots \ {e} : pollfds'[d] = pollfds[d]
    BY <1>1, UnusedEntries DEF IInv, Types
  <1>4. KernelTypes'
    BY <1>1, <1>2 DEF KInv, KernelTypes
  <1>5. ClosedFiles'
    BY <1>1, <1>2, <1>3 DEF KInv, KernelTypes, ClosedFiles
  <1>6. FileAccount'
    BY <1>1, <1>2, <1>3 DEF KInv, KernelTypes, FileAccount, ToDelete, Epfd
  <1>7. QED
    BY <1>4, <1>5, <1>6 DEF KInv

\* A new instance is in a slot that was free.
LEMMA CreateFiles ==
    ASSUME IInv, KInv, NEW e \in PollSlots, Create(e), poll.at = "idle",
           UNCHANGED <<kernel, inherited, early, poll, leaked>>,
           epollfd' \in {epollfd, randomPollFd}
    PROVE  KInv'
  <1>1. /\ ~pollfds[e].active
        /\ pollfds'[e] = [active |-> TRUE, num |-> randomPollFd]
        /\ \A d \in PollSlots \ {e} : pollfds'[d] = pollfds[d]
    BY CreateEffect DEF IInv
  <1>2. KernelTypes'
    BY DEF KInv, KernelTypes
  <1>3. ClosedFiles'
    BY <1>1 DEF KInv, ClosedFiles
  <1>4. FileAccount'
    <2> SUFFICES ASSUME ~leaked, ~inherited, NEW d \in PollSlots,
                        pollfds'[d].active, pollfds'[d].num = epollfd'
                 PROVE  kernel[d].files = {}
      BY DEF FileAccount, Epfd
    <2>1. CASE d = e
      BY <1>1, <2>1 DEF KInv, ClosedFiles
    <2>2. CASE d # e
      <3>1. pollfds[d].active /\ pollfds[d].num = epollfd'
        BY <1>1, <2>2
      <3>2. pollfds[d].num \in Nat /\ randomPollFd \in Nat
        BY DEF IInv, Types
      <3>3. epollfd' = epollfd
        BY <3>1, <3>2 DEF IInv, FreshNumbers
      <3>4. QED
        BY <3>1, <3>3 DEF KInv, FileAccount, Epfd
    <2>3. QED
      BY <2>1, <2>2
  <1>5. QED
    BY <1>2, <1>3, <1>4 DEF KInv

\* epoll_ctl of the application never touches the instance of poll.
LEMMA EpollCtlFiles == IInv /\ KInv /\ EpollCtl => KInv'
  <1> SUFFICES ASSUME IInv, KInv, EpollCtl
               PROVE  KInv'
    OBVIOUS
  <1>1. PICK e \in PollSlots, n \in Files \union {fds[i].num : i \in {j \in FdSlots : fds[j].active}} :
          /\ pollfds[e].active /\ pollfds[e].num # epollfd
          /\ \/ AddSucceeds(e, n) \/ DeleteSucceeds(e, n)
             \/ n \in Files /\ (AddFails(e, n) \/ DeleteFails(e, n))
             \/ \E k \in Listeners :
                  /\ First(k, ListenersFor(e, n))
                  /\ lfds' = [lfds EXCEPT ![e][k].data = n]
                  /\ UNCHANGED <<kernel, early>>
    BY DEF EpollCtl
  <1>2. UNCHANGED <<inherited, pollfds, epollfd, poll, leaked>>
    BY DEF EpollCtl, epollVars, pollVars
  <1>3. /\ kernel' \in KernelTable /\ early' \in BOOLEAN
        /\ \A d \in PollSlots \ {e} : kernel'[d] = kernel[d]
    <2>1. CASE AddSucceeds(e, n)
      BY <2>1, AddForwards DEF KInv
    <2>2. CASE DeleteSucceeds(e, n)
      BY <2>2, DeleteForwards DEF KInv
    <2>3. CASE AddFails(e, n) \/ DeleteFails(e, n)
      BY <2>3, FailureForwards DEF KInv
    <2>4. CASE UNCHANGED <<kernel, early>>
      BY <2>4 DEF KInv, KernelTypes
    <2>5. QED
      BY <1>1, <2>1, <2>2, <2>3, <2>4
  <1>4. KernelTypes'
    BY <1>2, <1>3 DEF KInv, KernelTypes
  <1>5. ClosedFiles'
    BY <1>1, <1>2, <1>3 DEF KInv, ClosedFiles
  <1>6. FileAccount'
    BY <1>1, <1>2, <1>3 DEF KInv, FileAccount, ToDelete, Epfd
  <1>7. QED
    BY <1>4, <1>5, <1>6 DEF KInv

---------------------------------------------------------------------------
\* poll changes files of its instance e only, and accounts for those.
LEMMA PollFilesMove ==
    ASSUME KInv, IInv, kernel' \in KernelTable, early' \in BOOLEAN,
           NEW e \in Epfd(epollfd),
           \A d \in PollSlots \ {e} : kernel'[d] = kernel[d],
           UNCHANGED <<inherited, pollfds, epollfd>>,
           ~leaked' /\ ~inherited =>
             \A f \in kernel'[e].files : /\ poll'.at # "idle"
                                         /\ \E j \in Nat : ToDelete(j)' /\ poll'.fds[j] = f
    PROVE  KInv'
  <1>1. KernelTypes'
    BY DEF KInv, KernelTypes
  <1>2. ClosedFiles'
    BY DEF KInv, ClosedFiles, Epfd
  <1>3. FileAccount'
    BY PollInstance DEF IInv, FileAccount, Epfd
  <1>4. QED
    BY <1>1, <1>2, <1>3 DEF KInv

\* poll moves on without a change of the files.
LEMMA PollFilesStay ==
    ASSUME KInv, UNCHANGED <<kernel, early, inherited, pollfds, epollfd>>, leaked => leaked',
           \/ poll'.at # "idle" /\ \A j \in Nat : ToDelete(j) => ToDelete(j)' /\ poll'.fds[j] = poll.fds[j]
           \/ leaked' \/ \A j \in Nat : ~ToDelete(j)
    PROVE  KInv'
  <1>1. KernelTypes' /\ ClosedFiles'
    BY DEF KInv, KernelTypes, ClosedFiles
  <1>2. FileAccount'
    <2> SUFFICES ASSUME ~leaked', ~inherited, NEW e \in Epfd(epollfd),
                        NEW f \in kernel[e].files
                 PROVE  /\ poll'.at # "idle"
                        /\ \E j \in Nat : ToDelete(j)' /\ poll'.fds[j] = f
      BY DEF FileAccount, Epfd
    <2>1. PICK j \in Nat : ToDelete(j) /\ poll.fds[j] = f
      BY DEF KInv, FileAccount
    <2>2. QED
      BY <2>1
  <1>3. QED
    BY <1>1, <1>2 DEF KInv

\* poll has registered nothing when its first epoll_ctl fails.
LEMMA FailFiles ==
    ASSUME IInv, KInv, Fail, poll.at \in {"add", "del"}, kernel' \in KernelTable,
           early' \in BOOLEAN, NEW e \in Epfd(epollfd),
           \A d \in PollSlots \ {e} : kernel'[d] = kernel[d],
           kernel'[e].files \subseteq kernel[e].files,
           UNCHANGED <<inherited, pollfds, epollfd>>
    PROVE  KInv'
  <1>1. leaked' = (leaked \/ poll.at = "del" \/ poll.i > 1)
    BY DEF Fail
  <1>2. ASSUME ~leaked', ~inherited
        PROVE  kernel[e].files = {}
    <2>1. ~leaked /\ poll.at = "add" /\ ~(poll.i > 1) /\ poll.i \in Nat
      BY <1>1, <1>2 DEF IInv, Types
    <2>2. \A j \in Nat : ~ToDelete(j)
      BY <2>1 DEF ToDelete
    <2>3. QED
      BY <1>2, <2>1, <2>2 DEF KInv, FileAccount
  <1>3. ~leaked' /\ ~inherited =>
          \A f \in kernel'[e].files : /\ poll'.at # "idle"
                                      /\ \E j \in Nat : ToDelete(j)' /\ poll'.fds[j] = f
    BY <1>2
  <1>4. QED
    BY <1>3, PollFilesMove

\* Without an instance, poll fails for good.
LEMMA NoInstanceFiles ==
    ASSUME KInv, NoInstance, UNCHANGED <<inherited, pollfds, epollfd>>
    PROVE  KInv'
  <1>1. Epfd(epollfd)' = {} /\ UNCHANGED <<kernel, early>>
    BY DEF NoInstance, listenVars, Epfd
  <1>2. KernelTypes' /\ ClosedFiles'
    BY <1>1 DEF KInv, KernelTypes, ClosedFiles
  <1>3. FileAccount'
    BY <1>1 DEF FileAccount
  <1>4. QED
    BY <1>2, <1>3 DEF KInv

\* What poll adds is in the part of its list it has gone through.
LEMMA PollAddFiles == IInv /\ KInv /\ PollAdd => KInv'
  <1> SUFFICES ASSUME IInv, KInv, PollAdd
               PROVE  KInv'
    OBVIOUS
  <1>1. poll.at = "add" /\ UNCHANGED <<inherited, pollfds, epollfd>>
    BY DEF PollAdd, epollVars
  <1>2. poll \in [at : {"idle", "add", "wait", "del"}, fds : Seq(Nat), i : Nat \ {0}]
    BY DEF IInv, Types
  <1>3. CASE NoInstance
    BY <1>1, <1>3, NoInstanceFiles
  <1>4. ASSUME NEW e \in Epfd(epollfd), AddFails(e, poll.fds[poll.i]), Fail
        PROVE  KInv'
    <2>1. e \in PollSlots
      BY DEF Epfd
    <2>2. /\ kernel' \in KernelTable /\ early' \in BOOLEAN
          /\ \A d \in PollSlots \ {e} : kernel'[d] = kernel[d]
          /\ kernel'[e].files \subseteq kernel[e].files
      BY <1>4, <2>1, FailureForwards DEF KInv
    <2>3. QED
      BY <1>1, <1>4, <2>2, FailFiles
  <1>5. ASSUME More, NEW e \in Epfd(epollfd), AddSucceeds(e, poll.fds[poll.i]), Step
        PROVE  KInv'
    <2>1. e \in PollSlots
      BY DEF Epfd
    <2>2. /\ kernel' \in KernelTable /\ early' \in BOOLEAN
          /\ \A d \in PollSlots \ {e} : kernel'[d] = kernel[d]
          /\ kernel'[e].files \subseteq kernel[e].files \union {poll.fds[poll.i]}
      BY <1>5, <2>1, AddForwards DEF KInv
    <2>3. /\ poll'.at = "add" /\ poll'.fds = poll.fds /\ poll'.i = poll.i + 1
          /\ UNCHANGED leaked
      BY <1>1, <1>2, <1>5 DEF Step
    <2>4. poll.i \in 1..Len(poll.fds)
      BY <1>2, <1>5 DEF More
    <2>5. ASSUME ~leaked, ~inherited, NEW f \in kernel'[e].files
          PROVE  \E j \in Nat : ToDelete(j)' /\ poll'.fds[j] = f
      <3>1. CASE f \in kernel[e].files
        <4>1. PICK j \in Nat : ToDelete(j) /\ poll.fds[j] = f
          BY <2>5, <3>1 DEF KInv, FileAccount
        <4>2. ToDelete(j)'
          BY <1>1, <1>2, <2>3, <4>1 DEF ToDelete
        <4>3. QED
          BY <2>3, <4>1, <4>2
      <3>2. CASE f = poll.fds[poll.i]
        <4>1. \A j \in Nat : j = poll.i => ToDelete(j)'
          BY <1>2, <2>3, <2>4 DEF ToDelete
        <4>2. PICK j \in Nat : j = poll.i
          BY <1>2
        <4>3. poll'.fds[j] = f
          BY <2>3, <3>2, <4>2
        <4>4. QED
          BY <4>1, <4>2, <4>3
      <3>3. QED
        BY <2>2, <3>1, <3>2
    <2>6. QED
      BY <1>1, <2>2, <2>3, <2>5, PollFilesMove
  <1>6. CASE ~More /\ poll' = [poll EXCEPT !.at = "wait"] /\ UNCHANGED <<kernel, early, leaked>>
    <2>1. poll'.at = "wait" /\ poll'.fds = poll.fds
      BY <1>2, <1>6
    <2>2. \A j \in Nat : ToDelete(j) => ToDelete(j)' /\ poll'.fds[j] = poll.fds[j]
      BY <2>1 DEF ToDelete
    <2>3. QED
      BY <1>1, <1>6, <2>1, <2>2, PollFilesStay
  <1>7. QED
    BY <1>3, <1>4, <1>5, <1>6 DEF PollAdd, listenVars

\* Before the first DEL, every entry of the list is still to be deleted.
LEMMA PollWaitFiles == IInv /\ KInv /\ PollWait => KInv'
  <1> SUFFICES ASSUME IInv, KInv, PollWait
               PROVE  KInv'
    OBVIOUS
  <1>1. /\ poll.at = "wait" /\ poll' = [poll EXCEPT !.at = "del", !.i = 1]
        /\ UNCHANGED <<kernel, early, inherited, pollfds, epollfd, leaked>>
    BY DEF PollWait, epollVars
  <1>2. poll \in [at : {"idle", "add", "wait", "del"}, fds : Seq(Nat), i : Nat \ {0}]
    BY DEF IInv, Types
  <1>3. poll'.at = "del" /\ poll'.fds = poll.fds /\ poll'.i = 1
    BY <1>1, <1>2
  <1>4. \A j \in Nat : ToDelete(j) => ToDelete(j)' /\ poll'.fds[j] = poll.fds[j]
    BY <1>3 DEF ToDelete
  <1>5. QED
    BY <1>1, <1>3, <1>4, PollFilesStay

\* DEL takes its entry out of the instance.
LEMMA PollDeleteFiles == IInv /\ KInv /\ PollDelete => KInv'
  <1> SUFFICES ASSUME IInv, KInv, PollDelete
               PROVE  KInv'
    OBVIOUS
  <1>1. poll.at = "del" /\ UNCHANGED <<inherited, pollfds, epollfd>>
    BY DEF PollDelete, epollVars
  <1>2. poll \in [at : {"idle", "add", "wait", "del"}, fds : Seq(Nat), i : Nat \ {0}]
    BY DEF IInv, Types
  <1>3. CASE NoInstance
    BY <1>1, <1>3, NoInstanceFiles
  <1>4. ASSUME NEW e \in Epfd(epollfd), DeleteFails(e, poll.fds[poll.i]), Fail
        PROVE  KInv'
    <2>1. e \in PollSlots
      BY DEF Epfd
    <2>2. /\ kernel' \in KernelTable /\ early' \in BOOLEAN
          /\ \A d \in PollSlots \ {e} : kernel'[d] = kernel[d]
          /\ kernel'[e].files \subseteq kernel[e].files
      BY <1>4, <2>1, FailureForwards DEF KInv
    <2>3. QED
      BY <1>1, <1>4, <2>2, FailFiles
  <1>5. ASSUME More, NEW e \in Epfd(epollfd), DeleteSucceeds(e, poll.fds[poll.i]), Step
        PROVE  KInv'
    <2>1. e \in PollSlots
      BY DEF Epfd
    <2>2. /\ kernel' \in KernelTable /\ early' \in BOOLEAN
          /\ \A d \in PollSlots \ {e} : kernel'[d] = kernel[d]
          /\ kernel'[e].files \subseteq kernel[e].files \ {poll.fds[poll.i]}
      BY <1>5, <2>1, DeleteForwards DEF KInv
    <2>3. /\ poll'.at = "del" /\ poll'.fds = poll.fds /\ poll'.i = poll.i + 1
          /\ UNCHANGED leaked
      BY <1>1, <1>2, <1>5 DEF Step
    <2>4. ASSUME ~leaked, ~inherited, NEW f \in kernel'[e].files
          PROVE  \E j \in Nat : ToDelete(j)' /\ poll'.fds[j] = f
      <3>1. PICK j \in Nat : ToDelete(j) /\ poll.fds[j] = f
        BY <2>2, <2>4 DEF KInv, FileAccount
      <3>2. j # poll.i
        BY <2>2, <2>4, <3>1
      <3>3. ToDelete(j)'
        BY <1>1, <1>2, <2>3, <3>1, <3>2 DEF ToDelete
      <3>4. QED
        BY <2>3, <3>1, <3>3
    <2>5. QED
      BY <1>1, <2>2, <2>3, <2>4, PollFilesMove
  <1>6. CASE ~More /\ UNCHANGED <<kernel, early, leaked>>
    <2>1. \A j \in Nat : ~ToDelete(j)
      BY <1>1, <1>2, <1>6 DEF ToDelete, More
    <2>2. QED
      BY <1>1, <1>6, <2>1, PollFilesStay
  <1>7. QED
    BY <1>3, <1>4, <1>5, <1>6 DEF PollDelete, listenVars

\* A new call of poll starts in an instance without files.
LEMMA PollStartFiles == IInv /\ KInv /\ PollStart => KInv'
  <1> SUFFICES ASSUME IInv, KInv, PollStart
               PROVE  KInv'
    OBVIOUS
  <1>1. /\ poll.at = "idle" /\ poll'.at # "idle"
        /\ UNCHANGED <<kernel, early, inherited, pollfds, epollfd, leaked>>
    BY DEF PollStart, Ready, epollVars, listenVars
  <1>2. KernelTypes' /\ ClosedFiles'
    BY <1>1 DEF KInv, KernelTypes, ClosedFiles
  <1>3. FileAccount'
    BY <1>1 DEF KInv, FileAccount, Epfd
  <1>4. QED
    BY <1>2, <1>3 DEF KInv

\* Every step keeps the account of the files.
LEMMA FilesInductive == IInv /\ KInv /\ [Next]_vars => KInv'
  <1> SUFFICES ASSUME IInv, KInv, [Next]_vars
               PROVE  KInv'
    OBVIOUS
  <1>1. CASE Socket \/ Prepare \/ Accept \/ CloseSocket \/ EpollWait
    <2>1. UNCHANGED <<kernel, inherited, early, pollfds, epollfd, poll, leaked>>
      BY <1>1 DEF Socket, Prepare, Accept, CloseSocket, EpollWait, epollVars, listenVars, pollVars
    <2>2. QED
      BY <2>1, FilesStay
  <1>2. CASE CloseFile
    <2>1. PICK f \in Files :
            kernel' = [e \in PollSlots |-> [kernel[e] EXCEPT !.files = @ \ {f}]]
      BY <1>2 DEF CloseFile
    <2>2. \A e \in PollSlots :
            /\ kernel'[e] \in [fd : {"none", "failed", "open"}, files : SUBSET Files]
            /\ kernel'[e].files \subseteq kernel[e].files
      BY <2>1 DEF KInv, KernelTypes, KernelTable
    <2>3. kernel' \in KernelTable
      BY <2>1, <2>2 DEF KernelTable
    <2>4. UNCHANGED <<early, inherited, pollfds, epollfd, poll, leaked>>
      BY <1>2 DEF CloseFile, epollVars, pollVars
    <2>5. QED
      BY <2>2, <2>3, <2>4, FilesShrink DEF KInv, KernelTypes
  <1>3. CASE EpollCreate
    BY <1>3, CreateFiles DEF EpollCreate, Ready, listenVars, pollVars
  <1>4. CASE PollCreate
    BY <1>4, CreateFiles DEF PollCreate, Ready, listenVars
  <1>5. CASE CloseEpoll \/ EpollCtl \/ PollStart \/ PollAdd \/ PollWait \/ PollDelete
    BY <1>5, CloseEpollFiles, EpollCtlFiles, PollStartFiles, PollAddFiles, PollWaitFiles,
       PollDeleteFiles
  <1>6. CASE UNCHANGED vars
    BY <1>6, FilesStay DEF vars, epollVars, listenVars, pollVars
  <1>7. QED
    BY <1>1, <1>2, <1>3, <1>4, <1>5, <1>6 DEF Next, Crashed

\* The kernel has no file at the start.
LEMMA InitFiles == Init => KInv
  <1> SUFFICES ASSUME Init
               PROVE  KInv
    OBVIOUS
  <1>1. KernelTypes
    BY DEF Init, KernelTypes, KernelTable
  <1>2. \A e \in PollSlots : kernel[e].files = {}
    BY DEF Init
  <1>3. QED
    BY <1>1, <1>2 DEF KInv, ClosedFiles, FileAccount, Epfd

---------------------------------------------------------------------------
\* NULL pointers: while no socket was added too early and none was closed with
\* a listener, every socket with a listener has a connection.
Connected ==
    ~early /\ ~strayed =>
        \A e \in PollSlots, k \in Listeners :
            lfds[e][k].active => fds[lfds[e][k].fd].state \notin {"created", "bound"}

NInv == Connected /\ NullForCause

\* Nothing that matters for the sockets with listeners changes.
LEMMA ConnectedStays ==
    ASSUME IInv, NInv, fds' = fds, ListenersShrink, UNCHANGED strayed, early => early',
           ub' = ub \/ ~ub'
    PROVE  NInv'
  <1>1. Connected'
    BY DEF NInv, Connected, ListenersShrink
  <1>2. NullForCause'
    BY DEF NInv, NullForCause, FreeFds
  <1>3. QED
    BY <1>1, <1>2 DEF NInv

\* A new socket has no listener.
LEMMA NewFdConnected ==
    ASSUME IInv, NInv, NEW i \in FdSlots, NEW st \in FdStates, NewFd(i, st), ~ub, ~ub',
           UNCHANGED <<lfds, strayed, early>>
    PROVE  NInv'
  <1>1. ~fds[i].active /\ \A j \in FdSlots \ {i} : fds'[j] = fds[j]
    BY NewFdEffect DEF IInv
  <1>2. Connected'
    <2> SUFFICES ASSUME ~early, ~strayed, NEW e \in PollSlots, NEW k \in Listeners,
                        lfds[e][k].active
                 PROVE  fds'[lfds[e][k].fd].state \notin {"created", "bound"}
      BY DEF Connected
    <2>1. lfds[e][k].fd \in FdSlots
      BY DEF IInv, Types
    <2>2. fds[lfds[e][k].fd].active
      BY DEF IInv, ListenersFollowFds
    <2>3. QED
      BY <1>1, <2>1, <2>2 DEF NInv, Connected
  <1>3. QED
    BY <1>2 DEF NInv, NullForCause

\* bind is for sockets without a connection, which have no listener.
LEMMA PrepareConnected == IInv /\ NInv /\ Prepare => NInv'
  <1> SUFFICES ASSUME IInv, NInv, Prepare
               PROVE  NInv'
    OBVIOUS
  <1>1. ~ub /\ UNCHANGED <<lfds, strayed, early, ub>>
    BY DEF Prepare, Ready, listenVars
  <1>2. PICK i \in FdSlots, s \in FdStates :
          /\ fds' = [fds EXCEPT ![i].state = s]
          /\ s = "bound" => fds[i].state = "created"
          /\ s # "created"
    BY DEF Prepare, Becomes, FdStates
  <1>3. /\ \A j \in FdSlots \ {i} : fds'[j] = fds[j]
        /\ fds'[i].state = s
    BY <1>2 DEF IInv, Types
  <1>4. Connected'
    BY <1>1, <1>2, <1>3 DEF IInv, Types, NInv, Connected
  <1>5. QED
    BY <1>1, <1>4 DEF NInv, NullForCause

\* A scan uses the connection of sockets with listeners, and opens some.
LEMMA ScanConnected ==
    ASSUME IInv, NInv, ~ub, NEW e \in PollSlots, Scan(e), UNCHANGED <<strayed, early>>
    PROVE  NInv'
  <1>1. PICK last \in Listeners :
          LET seen   == {k \in 0..last : lfds[e][k].active}
              stale  == {k \in seen : ~fds[lfds[e][k].fd].active}
              valid  == {lfds[e][k].fd : k \in seen \ stale}
          IN  IF \E i \in valid : fds[i].state \in {"created", "bound"}
                THEN ub' = TRUE /\ UNCHANGED <<fds, lfds>>
                ELSE /\ \E opened :
                          fds' = [i \in FdSlots |->
                                    IF i \in opened THEN [fds[i] EXCEPT !.state = "open"]
                                                    ELSE fds[i]]
                     /\ UNCHANGED ub
    BY Zenon DEF Scan
  <1>2. ListenersShrink
    BY ScanEffect DEF IInv
  <1>3. CASE ub' = TRUE /\ UNCHANGED <<fds, lfds>>
             /\ \E k \in 0..last : lfds[e][k].active /\ fds[lfds[e][k].fd].state \in {"created", "bound"}
    <2>1. \A k \in 0..last : k \in Listeners
      BY SizeAssumption DEF Listeners
    <2>2. early \/ strayed
      BY <1>3, <2>1 DEF NInv, Connected
    <2>3. QED
      BY <1>3, <2>2 DEF NInv, Connected, NullForCause
  <1>4. CASE /\ \E opened :
                  fds' = [i \in FdSlots |->
                            IF i \in opened THEN [fds[i] EXCEPT !.state = "open"]
                                            ELSE fds[i]]
             /\ UNCHANGED ub
    <2>1. \A i \in FdSlots : fds'[i].state \in {fds[i].state, "open"}
      BY <1>4 DEF IInv, Types
    <2>2. Connected'
      BY <1>2, <2>1 DEF IInv, Types, NInv, Connected, ListenersShrink
    <2>3. QED
      BY <1>4, <2>2 DEF NInv, NullForCause
  <1>5. QED
    BY <1>1, <1>3, <1>4

\* A new listener is for a socket with a connection, or the history says so.
LEMMA AddConnected ==
    ASSUME IInv, NInv, ~ub, NEW e \in PollSlots, NEW n \in Nat, AddSucceeds(e, n),
           UNCHANGED <<fds, strayed, ub>>
    PROVE  NInv'
  <1>1. CASE UNCHANGED <<lfds, early>>
    BY <1>1, ConnectedStays DEF ListenersShrink
  <1>2. CASE /\ CanAdd(e, n) /\ Add(e, n)
             /\ early' = (early \/ \E i \in Numbered(n) : fds[i].state \in {"created", "bound"})
    <2>1. PICK i \in FdSlots, k \in Listeners :
           /\ fds[i].active /\ fds[i].num = n
           /\ ~lfds[e][k].active
           /\ \A l \in Listeners : lfds[e][l].active => lfds[e][l].fd # i
           /\ lfds'[e][k].active /\ lfds'[e][k].fd = i /\ lfds'[e][k].data = n
           /\ \A d \in PollSlots, l \in Listeners :
                d # e \/ l # k => lfds'[d][l] = lfds[d][l]
      BY <1>2, AddEffect DEF IInv
    <2>2. i \in Numbered(n)
      BY <2>1 DEF Numbered
    <2>3. Connected'
      <3> SUFFICES ASSUME ~early', ~strayed, NEW d \in PollSlots, NEW l \in Listeners,
                          lfds'[d][l].active
                   PROVE  fds[lfds'[d][l].fd].state \notin {"created", "bound"}
        BY DEF Connected
      <3>1. ~early /\ fds[i].state \notin {"created", "bound"}
        BY <1>2, <2>2
      <3>2. CASE d = e /\ l = k
        BY <2>1, <3>1, <3>2
      <3>3. CASE d # e \/ l # k
        BY <2>1, <3>1, <3>3 DEF NInv, Connected
      <3>4. QED
        BY <3>2, <3>3
    <2>4. QED
      BY <2>3 DEF NInv, NullForCause
  <1>3. QED
    BY <1>1, <1>2 DEF AddSucceeds

\* Deleting a listener, or failing, gives no socket a listener.
LEMMA OthersConnected ==
    ASSUME IInv, NInv, NEW e \in PollSlots, NEW n \in Nat,
           AddFails(e, n) \/ DeleteFails(e, n) \/ DeleteSucceeds(e, n),
           UNCHANGED <<fds, strayed, ub>>
    PROVE  NInv'
  <1>1. CASE UNCHANGED <<lfds, early>>
    BY <1>1, ConnectedStays DEF ListenersShrink
  <1>2. CASE Delete(e, n) /\ UNCHANGED early
    BY <1>2, DeleteEffect, ConnectedStays DEF IInv
  <1>3. QED
    BY <1>1, <1>2 DEF AddFails, DeleteFails, DeleteSucceeds

\* epoll_ctl of the application: MOD changes the data of a listener.
LEMMA EpollCtlConnected == IInv /\ NInv /\ EpollCtl => NInv'
  <1> SUFFICES ASSUME IInv, NInv, EpollCtl
               PROVE  NInv'
    OBVIOUS
  <1>1. PICK e \in PollSlots, n \in Files \union {fds[i].num : i \in {j \in FdSlots : fds[j].active}} :
          \/ AddSucceeds(e, n) \/ DeleteSucceeds(e, n)
          \/ n \in Files /\ (AddFails(e, n) \/ DeleteFails(e, n))
          \/ \E k \in Listeners :
               /\ First(k, ListenersFor(e, n))
               /\ lfds' = [lfds EXCEPT ![e][k].data = n]
               /\ UNCHANGED <<kernel, early>>
    BY DEF EpollCtl
  <1>2. n \in Nat
    BY FilesAssumption DEF IInv, Types
  <1>3. ~ub /\ UNCHANGED <<fds, strayed, ub>>
    BY DEF EpollCtl, Ready, socketVars
  <1>4. CASE AddSucceeds(e, n)
    BY <1>2, <1>3, <1>4, AddConnected
  <1>5. CASE AddFails(e, n) \/ DeleteFails(e, n) \/ DeleteSucceeds(e, n)
    BY <1>2, <1>3, <1>5, OthersConnected
  <1>6. ASSUME NEW k \in Listeners, lfds' = [lfds EXCEPT ![e][k].data = n], UNCHANGED early
        PROVE  NInv'
    <2>1. \A d \in PollSlots, l \in Listeners :
            lfds'[d][l].active = lfds[d][l].active /\ lfds'[d][l].fd = lfds[d][l].fd
      BY <1>6 DEF IInv, Types
    <2>2. Connected'
      BY <1>3, <1>6, <2>1 DEF NInv, Connected
    <2>3. QED
      BY <1>3, <2>2 DEF NInv, NullForCause
  <1>7. QED
    BY <1>1, <1>4, <1>5, <1>6

\* Closing a socket that has a listener is noted.
LEMMA CloseSocketConnected == IInv /\ NInv /\ CloseSocket => NInv'
  <1> SUFFICES ASSUME IInv, NInv, CloseSocket
               PROVE  NInv'
    OBVIOUS
  <1>1. PICK i \in FdSlots : fds' = [fds EXCEPT ![i] = NoFd]
                             /\ strayed' = (strayed \/ Watches(i))
    BY DEF CloseSocket
  <1>2. ~ub /\ UNCHANGED <<lfds, early, ub>>
    BY DEF CloseSocket, Ready, listenVars
  <1>3. Connected'
    <2> SUFFICES ASSUME ~early, ~strayed', NEW e \in PollSlots, NEW k \in Listeners,
                        lfds[e][k].active
                 PROVE  fds'[lfds[e][k].fd].state \notin {"created", "bound"}
      BY <1>2 DEF Connected
    <2>1. ~strayed /\ ~Watches(i)
      BY <1>1
    <2>2. lfds[e][k].fd # i /\ lfds[e][k].fd \in FdSlots
      BY <2>1 DEF Watches, IInv, Types
    <2>3. fds'[lfds[e][k].fd] = fds[lfds[e][k].fd]
      BY <1>1, <2>2 DEF IInv, Types
    <2>4. QED
      BY <2>1, <2>3 DEF NInv, Connected
  <1>4. QED
    BY <1>2, <1>3 DEF NInv, NullForCause

\* Every step keeps the reasons for a NULL pointer.
LEMMA NullInductive == IInv /\ NInv /\ [Next]_vars => NInv'
  <1> SUFFICES ASSUME IInv, NInv, [Next]_vars
               PROVE  NInv'
    OBVIOUS
  <1>1. CASE Socket
    <2>1. PICK i \in FdSlots : NewFd(i, "created")
      BY <1>1 DEF Socket
    <2>2. QED
      BY <1>1, <2>1, NewFdConnected DEF Socket, Ready, listenVars, FdStates
  <1>2. CASE Accept
    <2>1. ~ub /\ UNCHANGED <<lfds, early, strayed>>
      BY <1>2 DEF Accept, Ready, listenVars
    <2>2. CASE FreeFds = {} /\ UNCHANGED fds
      <3>1. FreeFds' = {}
        BY <2>2 DEF FreeFds
      <3>2. QED
        BY <2>1, <2>2, <3>1 DEF NInv, Connected, NullForCause
    <2>3. CASE (\E i \in FdSlots : NewFd(i, "open")) /\ UNCHANGED ub
      BY <2>1, <2>3, NewFdConnected DEF FdStates
    <2>4. QED
      BY <1>2, <2>2, <2>3 DEF Accept, socketVars
  <1>3. CASE CloseFile \/ EpollCreate \/ PollCreate \/ PollStart
    <2>1. UNCHANGED <<fds, lfds, early, strayed, ub>>
      BY <1>3 DEF CloseFile, EpollCreate, PollCreate, PollStart, socketVars, listenVars
    <2>2. QED
      BY <2>1, ConnectedStays DEF ListenersShrink
  <1>4. CASE CloseEpoll
    <2>1. PICK e \in PollSlots :
            lfds' = [lfds EXCEPT ![e] = [k \in Listeners |-> NoListener]]
      BY <1>4 DEF CloseEpoll
    <2>2. \A k \in Listeners : ~lfds'[e][k].active
      BY <2>1, UnusedEntries DEF IInv, Types
    <2>3. ListenersShrink
      BY <2>1, <2>2 DEF IInv, Types, ListenersShrink
    <2>4. QED
      BY <1>4, <2>3, ConnectedStays DEF CloseEpoll, socketVars
  <1>5. CASE EpollWait
    BY <1>5, ScanConnected DEF EpollWait, Ready
  <1>6. CASE PollWait
    <2>1. ~ub /\ UNCHANGED <<strayed, early>>
      BY <1>6 DEF PollWait
    <2>2. CASE UNCHANGED <<fds, lfds, ub>>
      BY <2>1, <2>2, ConnectedStays DEF ListenersShrink
    <2>3. ASSUME NEW e \in Epfd(epollfd), Scan(e)
          PROVE  NInv'
      BY <2>1, <2>3, ScanConnected DEF Epfd
    <2>4. QED
      BY <1>6, <2>2, <2>3 DEF PollWait
  <1>7. CASE PollAdd \/ PollDelete
    <2>1. ~ub /\ UNCHANGED <<fds, strayed, ub>>
      BY <1>7 DEF PollAdd, PollDelete, socketVars
    <2>2. CASE UNCHANGED <<lfds, early>>
      BY <2>1, <2>2, ConnectedStays DEF ListenersShrink
    <2>3. ASSUME More, NEW e \in Epfd(epollfd),
                 \/ AddSucceeds(e, poll.fds[poll.i]) \/ AddFails(e, poll.fds[poll.i])
                 \/ DeleteSucceeds(e, poll.fds[poll.i]) \/ DeleteFails(e, poll.fds[poll.i])
          PROVE  NInv'
      <3>1. e \in PollSlots /\ poll.fds[poll.i] \in Nat
        BY <2>3 DEF IInv, Types, More, Epfd
      <3>2. QED
        BY <2>1, <2>3, <3>1, AddConnected, OthersConnected
    <2>4. QED
      BY <1>7, <2>2, <2>3 DEF PollAdd, PollDelete, NoInstance, listenVars
  <1>8. CASE UNCHANGED vars
    <2>1. UNCHANGED <<fds, lfds, early, strayed, ub>>
      BY <1>8 DEF vars, socketVars, listenVars
    <2>2. QED
      BY <2>1, ConnectedStays DEF ListenersShrink
  <1>9. QED
    BY <1>1, <1>2, <1>3, <1>4, <1>5, <1>6, <1>7, <1>8, PrepareConnected, EpollCtlConnected,
       CloseSocketConnected DEF Next, Crashed

---------------------------------------------------------------------------
\* The listeners of poll's instance are for different entries of the part of
\* its list it has gone through: there is a free one for the next.
LEMMA RoomForNext ==
    ASSUME IInv, poll.at = "add", ~leaked, More, Len(poll.fds) <= MAX_FDS_LISTEN,
           NEW e \in Epfd(epollfd)
    PROVE  FreeListeners(e) # {}
  <1> SUFFICES ASSUME FreeListeners(e) = {}
               PROVE  FALSE
    OBVIOUS
  <1>1. e \in PollSlots /\ \A k \in Listeners : lfds[e][k].active
    BY DEF FreeListeners, Epfd
  <1>2. /\ poll.i \in Nat \ {0} /\ Len(poll.fds) \in Nat
        /\ poll.i <= Len(poll.fds)
    BY DEF IInv, Types, More
  <1>3. \A k \in Listeners : \E j \in 1..(poll.i - 1) : poll.fds[j] = fds[lfds[e][k].fd].num
    <2> SUFFICES ASSUME NEW k \in Listeners
                 PROVE  \E j \in 1..(poll.i - 1) : poll.fds[j] = fds[lfds[e][k].fd].num
      OBVIOUS
    <2>1. PICK j \in Nat : ToDelete(j) /\ poll.fds[j] = fds[lfds[e][k].fd].num
      BY <1>1 DEF IInv, PollAccount
    <2>2. j \in 1..(poll.i - 1)
      BY <1>2, <2>1 DEF ToDelete
    <2>3. QED
      BY <2>1, <2>2
  <1>4. PICK f : f = [k \in Listeners |->
                        CHOOSE j \in 1..(poll.i - 1) : poll.fds[j] = fds[lfds[e][k].fd].num]
    OBVIOUS
  <1>5. \A k \in Listeners : /\ f[k] \in 1..(poll.i - 1)
                             /\ poll.fds[f[k]] = fds[lfds[e][k].fd].num
    BY <1>3, <1>4
  <1>6. f \in [Listeners -> 1..(poll.i - 1)]
    BY <1>4, <1>5
  <1>7. \A k, l \in Listeners : f[k] = f[l] => k = l
    <2> SUFFICES ASSUME NEW k \in Listeners, NEW l \in Listeners, f[k] = f[l]
                 PROVE  k = l
      OBVIOUS
    <2>1. fds[lfds[e][k].fd].num = fds[lfds[e][l].fd].num
      BY <1>5
    <2>2. /\ fds[lfds[e][k].fd].active /\ fds[lfds[e][l].fd].active
          /\ lfds[e][k].fd \in FdSlots /\ lfds[e][l].fd \in FdSlots
      BY <1>1 DEF IInv, Types, PollAccount
    <2>3. lfds[e][k].fd = lfds[e][l].fd
      BY <2>1, <2>2 DEF IInv, NumbersAreUnique
    <2>4. QED
      BY <1>1, <2>3 DEF IInv, OneListenerPerFd
  <1>8. /\ IsFiniteSet(Listeners) /\ Cardinality(Listeners) = MAX_FDS_LISTEN
        /\ IsFiniteSet(1..(poll.i - 1)) /\ Cardinality(1..(poll.i - 1)) = poll.i - 1
    <2>1. MAX_FDS_LISTEN - 1 \in Int /\ poll.i - 1 \in Int /\ 0 \in Int /\ 1 \in Int
      BY <1>2, SizeAssumption
    <2>2. /\ IsFiniteSet(0..(MAX_FDS_LISTEN - 1))
          /\ Cardinality(0..(MAX_FDS_LISTEN - 1)) =
               IF 0 > MAX_FDS_LISTEN - 1 THEN 0 ELSE (MAX_FDS_LISTEN - 1) - 0 + 1
      BY <2>1, FS_Interval
    <2>3. /\ IsFiniteSet(1..(poll.i - 1))
          /\ Cardinality(1..(poll.i - 1)) =
               IF 1 > poll.i - 1 THEN 0 ELSE (poll.i - 1) - 1 + 1
      BY <2>1, FS_Interval
    <2>4. QED
      BY <1>2, <2>2, <2>3, SizeAssumption DEF Listeners
  <1>9. Cardinality(1..(poll.i - 1)) < Cardinality(Listeners)
    BY <1>2, <1>8, SizeAssumption
  <1>10. \E k, l \in Listeners : k # l /\ f[k] = f[l]
    <2>1. PICK T : T = 1..(poll.i - 1)
      OBVIOUS
    <2>2. /\ IsFiniteSet(Listeners) /\ IsFiniteSet(T) /\ f \in [Listeners -> T]
          /\ Cardinality(T) < Cardinality(Listeners)
      BY <1>6, <1>8, <1>9, <2>1
    <2>3. QED
      BY <2>2, FS_PigeonHole
  <1>11. QED
    BY <1>7, <1>10

\* What an entry of poll's list needs is there when it is reached.
LEMMA RegistersNext == IInv /\ KInv => PollFailsForCause
  <1> SUFFICES ASSUME IInv, KInv, NEW e \in Epfd(epollfd),
                      poll.at = "add", More, Len(poll.fds) <= MAX_FDS_LISTEN,
                      ~leaked, ~inherited,
                      \A j \in 1..(poll.i - 1) : poll.fds[j] # poll.fds[poll.i]
               PROVE  IF poll.fds[poll.i] \in Files
                        THEN poll.fds[poll.i] \notin kernel[e].files
                        ELSE Numbered(poll.fds[poll.i]) = {} \/ CanAdd(e, poll.fds[poll.i])
    BY DEF PollFailsForCause
  <1>1. poll.i \in Nat \ {0} /\ Len(poll.fds) \in Nat
    BY DEF IInv, Types
  <1>2. \A j \in Nat : ToDelete(j) => poll.fds[j] # poll.fds[poll.i]
    BY <1>1 DEF ToDelete
  <1>3. poll.fds[poll.i] \notin kernel[e].files
    BY <1>2 DEF KInv, FileAccount
  <1>4. ListenersFor(e, poll.fds[poll.i]) = {}
    BY <1>2 DEF IInv, PollAccount, ListenersFor
  <1>5. FreeListeners(e) # {}
    BY RoomForNext
  <1>6. QED
    BY <1>3, <1>4, <1>5 DEF CanAdd

---------------------------------------------------------------------------
\* The three invariants hold in every reachable state.
LEMMA AllInvariance == Spec => [](IInv /\ KInv /\ NInv)
  <1>1. Init => NInv
    BY UnusedEntries DEF Init, NInv, Connected, NullForCause
  <1>2. IInv /\ KInv /\ NInv /\ [Next]_vars => (IInv /\ KInv /\ NInv)'
    BY Inductive, FilesInductive, NullInductive
  <1>3. QED
    BY <1>1, <1>2, InitIInv, InitFiles, PTL DEF Spec

\* Every variable has its type, whatever the ranges (socket.h:58-64, event.h).
THEOREM TypeCorrect == Spec => []TypeOK
  <1>1. IInv /\ KInv => TypeOK
    BY DEF IInv, Types, KInv, KernelTypes, KernelTable, TypeOK
  <1>2. QED
    BY <1>1, AllInvariance, PTL

\* A new epoll instance starts without listeners, and without files unless its
\* slot was closed with some (event.c:122-139).
THEOREM NewEpollIsEmpty == Spec => []ClosedEpollForgets
  <1>1. IInv /\ KInv => ClosedEpollForgets
    BY DEF IInv, ClosedListeners, KInv, ClosedFiles, ClosedEpollForgets
  <1>2. QED
    BY <1>1, AllInvariance, PTL

\* poll deletes all it registered, for every list of sockets and files, unless
\* an epoll_ctl failed (event.c:512-570).
THEOREM PollCleansUp == Spec => []PollRestores
  <1>1. IInv /\ KInv => PollRestores
    BY IdleAccount DEF IInv, KInv, FileAccount, PollRestores
  <1>2. QED
    BY <1>1, AllInvariance, PTL

\* poll is refused for no entry of a list that fits the table, whatever calls
\* went before, unless one of them failed (event.c:539-545).
THEOREM PollRegistersAll == Spec => []PollFailsForCause
  <1>1. IInv /\ KInv => PollFailsForCause
    BY RegistersNext
  <1>2. QED
    BY <1>1, AllInvariance, PTL

\* A NULL pointer is used only for a socket added too early or closed with a
\* listener, or with a full table (event.c:340, 372, socket.c:252-258).
THEOREM NullHasCause == Spec => []NullForCause
  <1>1. NInv => NullForCause
    BY DEF NInv
  <1>2. QED
    BY <1>1, AllInvariance, PTL
=============================================================================
