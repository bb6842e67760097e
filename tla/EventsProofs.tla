---------------------------- MODULE EventsProofs ----------------------------
(***************************************************************************)
(* No wake-up or hang-up is lost to the races on the event mask, events    *)
(* that are level triggered are true, and timeouts are kept, for every     *)
(* interest, any number of packets, and any timeouts.                      *)
(*                                                                         *)
(* NoLostWakeup is not inductive.  A peer about to write the hang-up event *)
(* into the mask must not wipe out EPOLLIN: it writes back what it read    *)
(* (MaskIsFresh).  And a connecting socket that gets no event although it  *)
(* was accepted, because the peer's write came in between, is not opened   *)
(* either: only a hang-up can do that (LostOnlyToClose).                   *)
(*                                                                         *)
(* That a wait with a timeout returns is liveness, which TLC checks; what  *)
(* is proved of it is that every step of epoll_pwait brings it nearer.     *)
(***************************************************************************)
EXTENDS Events, TLAPS

\* Where a step can be, given the socket and the trigger.
Places ==
    /\ poll.at \in {"conSet", "conWrite", "conOpen"} => fdState = "connecting"
    /\ poll.at = "ltClose" => level /\ fdState = "open"
    /\ poll.at \in {"etTest", "etReport", "etClear", "etWrite"} =>
         ~level /\ fdState \in {"connecting", "open"}
    /\ poll.at = "recvTest" => fdState = "open"

\* What the peer signals, and what an open socket knows.
Signals ==
    /\ peer.at # "idle" => /\ connState \in {"open", "close"}
                           /\ peer.ev = "HUP" <=> connState = "close"
    /\ fdState = "open" => connState \in {"open", "close"}

\* As Resting, and after recv found nothing.
Quiet ==
    ~level /\ fdState = "open"
      /\ poll.at \in {"idle", "scan", "etTest", "sleep", "recvTest"}

WakeupIsKept ==
    Quiet /\ "IN" \in interest /\ packets > 0 => "IN" \in own \/ PeerSetting("IN")

MaskIsFresh ==
    Quiet /\ "IN" \in interest /\ packets > 0 /\ peer.at = "setWrite" /\ peer.ev = "HUP"
      => "IN" \in peer.mask

LostOnlyToClose ==
    ~level /\ fdState = "connecting" =>
      /\ poll.at \in {"etTest", "etReport"} => "IN" \in own \/ connState = "close"
      /\ poll.at \in {"etClear", "etWrite", "conOpen"} =>
           poll.got # {} \/ connState = "close"

LevelMask == poll.at = "ltClose" /\ "IN" \in lt => packets > 0

\* The sleeps of the wait are counted, and none is one too many.
Clock ==
    /\ timeout \in Timeouts \union {-1}
    /\ InEpoll => ~expired
    /\ expired => timeout # -1
    /\ InEpoll /\ timeout # -1 =>
         /\ elapsed = slept
         /\ timeout * 1000 <= IntMax => (slept - 1) * SLEEP_DURATION <= timeout * 1000

IInv ==
    /\ TypeOK /\ Places /\ Signals
    /\ WakeupIsKept /\ MaskIsFresh /\ LostOnlyToClose /\ NoLostHangup
    /\ LevelMask /\ LevelInIsTrue
    /\ Clock /\ TimeoutIsKept

---------------------------------------------------------------------------
\* A number below its modulus is its own remainder.
LEMMA SmallMod == ASSUME NEW m \in Nat, NEW b \in Nat, m < b PROVE m % b = m
  OBVIOUS

\* Wrapping changes no number that fits.
LEMMA WrapIsExact == ASSUME NEW n \in 0..IntMax PROVE Wrap(n) = n
  <1> DEFINE M == IntMax + 1
  <1>1. n + IntMax + 1 \in Nat /\ 2 * M \in Nat /\ n + IntMax + 1 < 2 * M
    BY IntMaxAssumption
  <1>2. (n + IntMax + 1) % (2 * M) = n + IntMax + 1
    BY ONLY <1>1, SmallMod
  <1>3. QED
    BY <1>2, IntMaxAssumption DEF Wrap

\* The initial states satisfy the invariant.
LEMMA InitIInv == Init => IInv
  <1> SUFFICES ASSUME Init
               PROVE  IInv
    OBVIOUS
  <1>1. /\ peer.at = "idle" /\ poll.at = "idle" /\ poll.got = {}
        /\ peer \in [at : {"idle", "setRead", "setWrite"}, ev : {"IN", "HUP"},
                     mask : SUBSET EventSet]
        /\ poll \in [at : AppPCs \union EpollPCs, mask : SUBSET EventSet,
                     got : SUBSET EventSet]
    BY DEF Init, AppPCs
  <1>2. /\ fdState \in {"listen", "connecting", "open"}
        /\ connState \in {"listen", "create", "open"}
        /\ interest \subseteq EventSet /\ level \in BOOLEAN
    BY DEF Init
  <1>3. TypeOK
    <2>1. fdState \in FdStates /\ connState \in ConnStates
      BY <1>2 DEF FdStates, ConnStates
    <2>2. fdState # "close" /\ poll.at # "done"
      BY <1>1, <1>2
    <2>3. /\ packets \in Nat /\ pending \in Nat /\ own \subseteq EventSet
          /\ lt \subseteq EventSet /\ timeout \in Int /\ elapsed \in Nat /\ slept \in Nat
      BY DEF Init
    <2>4. expired \in BOOLEAN
      BY DEF Init
    <2>5. QED
      BY <1>1, <1>2, <2>1, <2>2, <2>3, <2>4 DEF TypeOK
  <1>4. Places /\ Signals /\ LevelMask /\ LevelInIsTrue
    BY <1>1 DEF Init, Places, Signals, LevelMask, LevelInIsTrue
  <1>5. WakeupIsKept /\ MaskIsFresh /\ LostOnlyToClose /\ NoLostHangup
    BY <1>1 DEF Init, WakeupIsKept, MaskIsFresh, LostOnlyToClose, NoLostHangup,
       Resting
  <1>6. Clock /\ TimeoutIsKept
    BY <1>1 DEF Init, Clock, TimeoutIsKept
  <1>7. QED
    BY <1>3, <1>4, <1>5, <1>6 DEF IInv

\* Connections to accept do not touch the masks.
LEMMA PeerConnectStep == IInv /\ PeerConnect => IInv'
  <1> SUFFICES ASSUME IInv, PeerConnect
               PROVE  IInv'
    OBVIOUS
  <1>1. TypeOK'
    BY DEF PeerConnect, IInv, TypeOK, EpollPCs, AppPCs, FdStates, ConnStates,
       EventSet, connVars, timeVars, fixedVars
  <1>2. Places' /\ Signals'
    BY DEF PeerConnect, IInv, Places, Signals, TypeOK, connVars, timeVars, fixedVars
  <1>3. WakeupIsKept' /\ MaskIsFresh' /\ NoLostHangup'
    BY DEF PeerConnect, IInv, Places, Signals, LostOnlyToClose, WakeupIsKept,
       MaskIsFresh, NoLostHangup, Quiet, Resting, PeerSetting, TypeOK, connVars,
       timeVars, fixedVars
  <1>4. LostOnlyToClose'
    BY DEF PeerConnect, IInv, Places, Signals, LostOnlyToClose, TypeOK,
       connVars, timeVars, fixedVars
  <1>5. LevelMask' /\ LevelInIsTrue'
    BY DEF PeerConnect, IInv, Places, LevelMask, LevelInIsTrue, TypeOK,
       connVars, timeVars, fixedVars
  <1>6. Clock' /\ TimeoutIsKept'
    BY DEF PeerConnect, IInv, Clock, TimeoutIsKept, InEpoll, EpollPCs, TypeOK,
       connVars, timeVars, fixedVars
  <1>7. QED
    BY <1>1, <1>2, <1>3, <1>4, <1>5, <1>6 DEF IInv

\* The connection of a connecting socket opens; nothing was signalled on it.
LEMMA PeerAcceptStep == IInv /\ PeerAccept => IInv'
  <1> SUFFICES ASSUME IInv, PeerAccept
               PROVE  IInv'
    OBVIOUS
  <1>1. TypeOK'
    BY DEF PeerAccept, IInv, TypeOK, EpollPCs, AppPCs, FdStates, ConnStates,
       EventSet, connVars, timeVars, fixedVars
  <1>2. Places' /\ Signals'
    BY DEF PeerAccept, IInv, Places, Signals, TypeOK, connVars, timeVars, fixedVars
  <1>3. WakeupIsKept' /\ MaskIsFresh' /\ NoLostHangup'
    BY DEF PeerAccept, IInv, Places, Signals, LostOnlyToClose, WakeupIsKept,
       MaskIsFresh, NoLostHangup, Quiet, Resting, PeerSetting, TypeOK, connVars,
       timeVars, fixedVars
  <1>4. LostOnlyToClose'
    BY DEF PeerAccept, IInv, Places, Signals, LostOnlyToClose, TypeOK, connVars,
       timeVars, fixedVars
  <1>5. LevelMask' /\ LevelInIsTrue'
    BY DEF PeerAccept, IInv, Places, LevelMask, LevelInIsTrue, TypeOK, connVars,
       timeVars, fixedVars
  <1>6. Clock' /\ TimeoutIsKept'
    BY DEF PeerAccept, IInv, Clock, TimeoutIsKept, InEpoll, EpollPCs, TypeOK,
       connVars, timeVars, fixedVars
  <1>7. QED
    BY <1>1, <1>2, <1>3, <1>4, <1>5, <1>6 DEF IInv

\* A packet more: EPOLLIN is being set from now on.
LEMMA PeerSendStep == IInv /\ PeerSend => IInv'
  <1> SUFFICES ASSUME IInv, PeerSend
               PROVE  IInv'
    OBVIOUS
  <1>1. TypeOK'
    <2>1. peer' \in [at : {"idle", "setRead", "setWrite"}, ev : {"IN", "HUP"}, mask : SUBSET EventSet]
      BY DEF PeerSend, IInv, TypeOK
    <2>2. packets' \in Nat
      BY DEF PeerSend, IInv, TypeOK
    <2>3. QED
      BY <2>1, <2>2 DEF PeerSend, IInv, TypeOK, timeVars, fixedVars
  <1>2. Places' /\ Signals'
    BY DEF PeerSend, IInv, Places, Signals, TypeOK, connVars, timeVars, fixedVars
  <1>3. WakeupIsKept' /\ MaskIsFresh' /\ NoLostHangup'
    BY DEF PeerSend, IInv, Places, Signals, LostOnlyToClose, WakeupIsKept,
       MaskIsFresh, NoLostHangup, Quiet, Resting, PeerSetting, TypeOK, connVars,
       timeVars, fixedVars
  <1>4. LostOnlyToClose'
    BY DEF PeerSend, IInv, Places, Signals, LostOnlyToClose, TypeOK, connVars,
       timeVars, fixedVars
  <1>5. LevelMask' /\ LevelInIsTrue'
    BY DEF PeerSend, IInv, Places, LevelMask, LevelInIsTrue, TypeOK, connVars,
       timeVars, fixedVars
  <1>6. Clock' /\ TimeoutIsKept'
    BY DEF PeerSend, IInv, Clock, TimeoutIsKept, InEpoll, EpollPCs, TypeOK,
       connVars, timeVars, fixedVars
  <1>7. QED
    BY <1>1, <1>2, <1>3, <1>4, <1>5, <1>6 DEF IInv

\* The end of the stream: the hang-up is being set from now on.
LEMMA PeerCloseStep == IInv /\ PeerClose => IInv'
  <1> SUFFICES ASSUME IInv, PeerClose
               PROVE  IInv'
    OBVIOUS
  <1>1. TypeOK'
    BY DEF PeerClose, IInv, TypeOK, EpollPCs, AppPCs, FdStates, ConnStates,
       EventSet, connVars, timeVars, fixedVars
  <1>2. Places' /\ Signals'
    BY DEF PeerClose, IInv, Places, Signals, TypeOK, connVars, timeVars, fixedVars
  <1>3. WakeupIsKept' /\ MaskIsFresh' /\ NoLostHangup'
    BY DEF PeerClose, IInv, Places, Signals, LostOnlyToClose, WakeupIsKept,
       MaskIsFresh, NoLostHangup, Quiet, Resting, PeerSetting, TypeOK, connVars,
       timeVars, fixedVars
  <1>4. LostOnlyToClose'
    BY DEF PeerClose, IInv, Places, Signals, LostOnlyToClose, TypeOK, connVars,
       timeVars, fixedVars
  <1>5. LevelMask' /\ LevelInIsTrue'
    BY DEF PeerClose, IInv, Places, LevelMask, LevelInIsTrue, TypeOK, connVars,
       timeVars, fixedVars
  <1>6. Clock' /\ TimeoutIsKept'
    BY DEF PeerClose, IInv, Clock, TimeoutIsKept, InEpoll, EpollPCs, TypeOK,
       connVars, timeVars, fixedVars
  <1>7. QED
    BY <1>1, <1>2, <1>3, <1>4, <1>5, <1>6 DEF IInv

\* The mask that is read has EPOLLIN, if it is needed: nobody else sets it.
LEMMA PeerSetReadStep == IInv /\ PeerSetRead => IInv'
  <1> SUFFICES ASSUME IInv, PeerSetRead
               PROVE  IInv'
    OBVIOUS
  <1>1. TypeOK'
    BY DEF PeerSetRead, IInv, TypeOK, EpollPCs, AppPCs, FdStates, ConnStates,
       EventSet, connVars, timeVars, fixedVars
  <1>2. Places' /\ Signals'
    BY DEF PeerSetRead, IInv, Places, Signals, TypeOK, connVars, timeVars, fixedVars
  <1>3. WakeupIsKept' /\ MaskIsFresh' /\ NoLostHangup'
    BY DEF PeerSetRead, IInv, Places, Signals, LostOnlyToClose, WakeupIsKept,
       MaskIsFresh, NoLostHangup, Quiet, Resting, PeerSetting, TypeOK, connVars,
       timeVars, fixedVars
  <1>4. LostOnlyToClose'
    BY DEF PeerSetRead, IInv, Places, Signals, LostOnlyToClose, TypeOK,
       connVars, timeVars, fixedVars
  <1>5. LevelMask' /\ LevelInIsTrue'
    BY DEF PeerSetRead, IInv, Places, LevelMask, LevelInIsTrue, TypeOK,
       connVars, timeVars, fixedVars
  <1>6. Clock' /\ TimeoutIsKept'
    BY DEF PeerSetRead, IInv, Clock, TimeoutIsKept, InEpoll, EpollPCs, TypeOK,
       connVars, timeVars, fixedVars
  <1>7. QED
    BY <1>1, <1>2, <1>3, <1>4, <1>5, <1>6 DEF IInv

\* A hang-up is written with the EPOLLIN that was read, EPOLLIN with the hang-up
\* still to come.
LEMMA PeerSetWriteStep == IInv /\ PeerSetWrite => IInv'
  <1> SUFFICES ASSUME IInv, PeerSetWrite
               PROVE  IInv'
    OBVIOUS
  <1>1. TypeOK'
    BY DEF PeerSetWrite, IInv, TypeOK, EpollPCs, AppPCs, FdStates, ConnStates,
       EventSet, connVars, timeVars, fixedVars
  <1>2. Places' /\ Signals'
    BY DEF PeerSetWrite, IInv, Places, Signals, TypeOK, connVars, timeVars,
       fixedVars
  <1>3. WakeupIsKept' /\ MaskIsFresh' /\ NoLostHangup'
    BY DEF PeerSetWrite, IInv, Places, Signals, LostOnlyToClose, WakeupIsKept,
       MaskIsFresh, NoLostHangup, Quiet, Resting, PeerSetting, TypeOK, connVars,
       timeVars, fixedVars
  <1>4. LostOnlyToClose'
    BY DEF PeerSetWrite, IInv, Places, Signals, LostOnlyToClose, TypeOK,
       connVars, timeVars, fixedVars
  <1>5. LevelMask' /\ LevelInIsTrue'
    BY DEF PeerSetWrite, IInv, Places, LevelMask, LevelInIsTrue, TypeOK,
       connVars, timeVars, fixedVars
  <1>6. Clock' /\ TimeoutIsKept'
    BY DEF PeerSetWrite, IInv, Clock, TimeoutIsKept, InEpoll, EpollPCs, TypeOK,
       connVars, timeVars, fixedVars
  <1>7. QED
    BY <1>1, <1>2, <1>3, <1>4, <1>5, <1>6 DEF IInv

\* A wait begins with its own timeout and no sleep.
LEMMA EpollWaitStep == IInv /\ EpollWait => IInv'
  <1> SUFFICES ASSUME IInv, EpollWait
               PROVE  IInv'
    OBVIOUS
  <1>1. TypeOK'
    <2>1. poll' \in [at : AppPCs \union EpollPCs, mask : SUBSET EventSet, got : SUBSET EventSet]
      BY DEF EpollWait, IInv, TypeOK, EpollPCs, AppPCs, FdStates, ConnStates,
         EventSet, connVars, timeVars, fixedVars
    <2>2. poll'.at = "scan" /\ poll.at = "idle"
      BY DEF EpollWait, IInv, TypeOK
    <2>3. timeout' \in Timeouts /\ elapsed' = 0 /\ slept' = 0 /\ expired' = FALSE
      BY DEF EpollWait
    <2>4. timeout' \in Int
      BY <2>3, TimeoutsAssumption
    <2>5. elapsed' \in Nat /\ slept' \in Nat
      BY <2>3
    <2>6. expired' \in BOOLEAN
      BY <2>3
    <2>7. QED
      BY <2>1, <2>2, <2>4, <2>5, <2>6 DEF EpollWait, IInv, TypeOK, connVars,
         timeVars, fixedVars
  <1>2. Places' /\ Signals'
    BY DEF EpollWait, IInv, Places, Signals, TypeOK, connVars, timeVars, fixedVars
  <1>3. WakeupIsKept' /\ MaskIsFresh' /\ NoLostHangup'
    BY DEF EpollWait, IInv, Places, Signals, LostOnlyToClose, WakeupIsKept,
       MaskIsFresh, NoLostHangup, Quiet, Resting, PeerSetting, TypeOK, connVars,
       timeVars, fixedVars
  <1>4. LostOnlyToClose'
    BY DEF EpollWait, IInv, Places, Signals, LostOnlyToClose, TypeOK, connVars,
       timeVars, fixedVars
  <1>5. LevelMask' /\ LevelInIsTrue'
    BY DEF EpollWait, IInv, Places, LevelMask, LevelInIsTrue, TypeOK, connVars,
       timeVars, fixedVars
  <1>6. Clock' /\ TimeoutIsKept'
    <2>1. timeout' \in Timeouts /\ elapsed' = 0 /\ slept' = 0 /\ expired' = FALSE
      BY DEF EpollWait
    <2>2. timeout' \in Nat \/ timeout' = -1
      BY <2>1, TimeoutsAssumption
    <2>3. timeout' # -1 => (slept' - 1) * SLEEP_DURATION <= timeout' * 1000
      BY <2>1, <2>2 DEF SLEEP_DURATION
    <2>4. QED
      BY <2>1, <2>3 DEF Clock, TimeoutIsKept
  <1>7. QED
    BY <1>1, <1>2, <1>3, <1>4, <1>5, <1>6 DEF IInv

\* A listening socket has no peer: its masks concern nobody else.
LEMMA ScanListenStep == IInv /\ ScanListen => IInv'
  <1> SUFFICES ASSUME IInv, ScanListen
               PROVE  IInv'
    OBVIOUS
  <1>1. TypeOK'
    <2>1. poll' \in [at : AppPCs \union EpollPCs, mask : SUBSET EventSet, got : SUBSET EventSet]
          /\ poll'.at \in {"sleep", "handle"}
      <3>1. \E l \in {"sleep", "handle"}, g \in {{}, {"IN"}} :
              poll' = [poll EXCEPT !.at = l, !.got = g]
        BY DEF ScanListen, Finish
      <3>2. QED
        <4>1. PICK l \in {"sleep", "handle"}, g \in {{}, {"IN"}} :
                poll' = [poll EXCEPT !.at = l, !.got = g]
          BY <3>1
        <4>2. g \subseteq EventSet /\ l \in AppPCs \union EpollPCs
          BY DEF AppPCs, EpollPCs, EventSet
        <4>3. QED
          BY <4>1, <4>2 DEF IInv, TypeOK
    <2>2. own' \subseteq EventSet /\ lt' \subseteq EventSet
      BY DEF ScanListen, IInv, TypeOK, EpollPCs, AppPCs, FdStates, ConnStates,
         EventSet, connVars, timeVars, fixedVars
    <2>3. QED
      BY <2>1, <2>2 DEF ScanListen, IInv, TypeOK, connVars, timeVars, fixedVars
  <1>2. Places' /\ Signals'
    BY DEF ScanListen, Finish, IInv, Places, Signals, TypeOK, connVars,
       timeVars, fixedVars
  <1>3. WakeupIsKept' /\ MaskIsFresh' /\ NoLostHangup'
    BY DEF ScanListen, Finish, IInv, Places, Signals, LostOnlyToClose,
       WakeupIsKept, MaskIsFresh, NoLostHangup, Quiet, Resting, PeerSetting,
       TypeOK, connVars, timeVars, fixedVars
  <1>4. LostOnlyToClose'
    BY DEF ScanListen, Finish, IInv, Places, Signals, LostOnlyToClose, TypeOK,
       connVars, timeVars, fixedVars
  <1>5. LevelMask' /\ LevelInIsTrue'
    BY DEF ScanListen, Finish, IInv, Places, LevelMask, LevelInIsTrue, TypeOK,
       connVars, timeVars, fixedVars
  <1>6. Clock' /\ TimeoutIsKept'
    BY DEF ScanListen, Finish, IInv, Clock, TimeoutIsKept, InEpoll, EpollPCs,
       TypeOK, connVars, timeVars, fixedVars
  <1>7. QED
    BY <1>1, <1>2, <1>3, <1>4, <1>5, <1>6 DEF IInv

\* The mask is about to get EPOLLIN, once the connection is open.
LEMMA ScanConnectingStep == IInv /\ ScanConnecting => IInv'
  <1> SUFFICES ASSUME IInv, ScanConnecting
               PROVE  IInv'
    OBVIOUS
  <1>1. TypeOK'
    BY DEF ScanConnecting, Goto, Finish, IInv, TypeOK, EpollPCs, AppPCs,
       FdStates, ConnStates, EventSet, connVars, timeVars, fixedVars
  <1>2. Places' /\ Signals'
    BY DEF ScanConnecting, Goto, Finish, IInv, Places, Signals, TypeOK,
       connVars, timeVars, fixedVars
  <1>3. WakeupIsKept' /\ MaskIsFresh' /\ NoLostHangup'
    BY DEF ScanConnecting, Goto, Finish, IInv, Places, Signals, LostOnlyToClose,
       WakeupIsKept, MaskIsFresh, NoLostHangup, Quiet, Resting, PeerSetting,
       TypeOK, connVars, timeVars, fixedVars
  <1>4. LostOnlyToClose'
    BY DEF ScanConnecting, Goto, Finish, IInv, Places, Signals, LostOnlyToClose,
       TypeOK, connVars, timeVars, fixedVars
  <1>5. LevelMask' /\ LevelInIsTrue'
    BY DEF ScanConnecting, Goto, Finish, IInv, Places, LevelMask, LevelInIsTrue,
       TypeOK, connVars, timeVars, fixedVars
  <1>6. Clock' /\ TimeoutIsKept'
    BY DEF ScanConnecting, Goto, Finish, IInv, Clock, TimeoutIsKept, InEpoll,
       EpollPCs, TypeOK, connVars, timeVars, fixedVars
  <1>7. QED
    BY <1>1, <1>2, <1>3, <1>4, <1>5, <1>6 DEF IInv

\* Reading the mask of a connecting socket.
LEMMA ConnectingSetReadStep == IInv /\ ConnectingSetRead => IInv'
  <1> SUFFICES ASSUME IInv, ConnectingSetRead
               PROVE  IInv'
    OBVIOUS
  <1>1. TypeOK'
    BY DEF ConnectingSetRead, IInv, TypeOK, EpollPCs, AppPCs, FdStates,
       ConnStates, EventSet, connVars, timeVars, fixedVars
  <1>2. Places' /\ Signals'
    BY DEF ConnectingSetRead, IInv, Places, Signals, TypeOK, connVars, timeVars,
       fixedVars
  <1>3. WakeupIsKept' /\ MaskIsFresh' /\ NoLostHangup'
    BY DEF ConnectingSetRead, IInv, Places, Signals, LostOnlyToClose,
       WakeupIsKept, MaskIsFresh, NoLostHangup, Quiet, Resting, PeerSetting,
       TypeOK, connVars, timeVars, fixedVars
  <1>4. LostOnlyToClose'
    BY DEF ConnectingSetRead, IInv, Places, Signals, LostOnlyToClose, TypeOK,
       connVars, timeVars, fixedVars
  <1>5. LevelMask' /\ LevelInIsTrue'
    BY DEF ConnectingSetRead, IInv, Places, LevelMask, LevelInIsTrue, TypeOK,
       connVars, timeVars, fixedVars
  <1>6. Clock' /\ TimeoutIsKept'
    BY DEF ConnectingSetRead, IInv, Clock, TimeoutIsKept, InEpoll, EpollPCs,
       TypeOK, connVars, timeVars, fixedVars
  <1>7. QED
    BY <1>1, <1>2, <1>3, <1>4, <1>5, <1>6 DEF IInv

\* The mask of a connecting socket has EPOLLIN, unless it was closed.
LEMMA ConnectingSetWriteStep == IInv /\ ConnectingSetWrite => IInv'
  <1> SUFFICES ASSUME IInv, ConnectingSetWrite
               PROVE  IInv'
    OBVIOUS
  <1>1. TypeOK'
    BY DEF ConnectingSetWrite, IInv, TypeOK, EpollPCs, AppPCs, FdStates,
       ConnStates, EventSet, connVars, timeVars, fixedVars
  <1>2. Places' /\ Signals'
    BY DEF ConnectingSetWrite, IInv, Places, Signals, TypeOK, connVars,
       timeVars, fixedVars
  <1>3. WakeupIsKept' /\ MaskIsFresh' /\ NoLostHangup'
    BY DEF ConnectingSetWrite, IInv, Places, Signals, LostOnlyToClose,
       WakeupIsKept, MaskIsFresh, NoLostHangup, Quiet, Resting, PeerSetting,
       TypeOK, connVars, timeVars, fixedVars
  <1>4. LostOnlyToClose'
    BY DEF ConnectingSetWrite, IInv, Places, Signals, LostOnlyToClose, TypeOK,
       connVars, timeVars, fixedVars
  <1>5. LevelMask' /\ LevelInIsTrue'
    BY DEF ConnectingSetWrite, IInv, Places, LevelMask, LevelInIsTrue, TypeOK,
       connVars, timeVars, fixedVars
  <1>6. Clock' /\ TimeoutIsKept'
    BY DEF ConnectingSetWrite, IInv, Clock, TimeoutIsKept, InEpoll, EpollPCs,
       TypeOK, connVars, timeVars, fixedVars
  <1>7. QED
    BY <1>1, <1>2, <1>3, <1>4, <1>5, <1>6 DEF IInv

\* If the connection is open, the application gets the event, and will receive.
LEMMA ConnectingOpenStep == IInv /\ ConnectingOpen => IInv'
  <1> SUFFICES ASSUME IInv, ConnectingOpen
               PROVE  IInv'
    OBVIOUS
  <1>1. TypeOK'
    BY DEF ConnectingOpen, Finish, IInv, Places, TypeOK, EpollPCs, AppPCs,
       FdStates, ConnStates, EventSet, connVars, timeVars, fixedVars
  <1>2. Places' /\ Signals'
    BY DEF ConnectingOpen, Finish, IInv, Places, Signals, TypeOK, connVars,
       timeVars, fixedVars
  <1>3. WakeupIsKept' /\ MaskIsFresh' /\ NoLostHangup'
    BY DEF ConnectingOpen, Finish, IInv, Places, Signals, LostOnlyToClose,
       WakeupIsKept, MaskIsFresh, NoLostHangup, Quiet, Resting, PeerSetting,
       TypeOK, connVars, timeVars, fixedVars
  <1>4. LostOnlyToClose'
    BY DEF ConnectingOpen, Finish, IInv, Places, Signals, LostOnlyToClose,
       TypeOK, connVars, timeVars, fixedVars
  <1>5. LevelMask' /\ LevelInIsTrue'
    BY DEF ConnectingOpen, Finish, IInv, Places, LevelMask, LevelInIsTrue,
       TypeOK, connVars, timeVars, fixedVars
  <1>6. Clock' /\ TimeoutIsKept'
    BY DEF ConnectingOpen, Finish, IInv, Clock, TimeoutIsKept, InEpoll,
       EpollPCs, TypeOK, connVars, timeVars, fixedVars
  <1>7. QED
    BY <1>1, <1>2, <1>3, <1>4, <1>5, <1>6 DEF IInv

\* From one resting step to another.
LEMMA ScanEdgeStep == IInv /\ ScanEdge => IInv'
  <1> SUFFICES ASSUME IInv, ScanEdge
               PROVE  IInv'
    OBVIOUS
  <1>1. TypeOK'
    BY DEF ScanEdge, Goto, IInv, TypeOK, EpollPCs, AppPCs, FdStates, ConnStates,
       EventSet, connVars, timeVars, fixedVars
  <1>2. Places' /\ Signals'
    BY DEF ScanEdge, Goto, IInv, Places, Signals, TypeOK, connVars, timeVars,
       fixedVars
  <1>3. WakeupIsKept' /\ MaskIsFresh' /\ NoLostHangup'
    BY DEF ScanEdge, Goto, IInv, Places, Signals, LostOnlyToClose, WakeupIsKept,
       MaskIsFresh, NoLostHangup, Quiet, Resting, PeerSetting, TypeOK, connVars,
       timeVars, fixedVars
  <1>4. LostOnlyToClose'
    BY DEF ScanEdge, Goto, IInv, Places, Signals, LostOnlyToClose, TypeOK,
       connVars, timeVars, fixedVars
  <1>5. LevelMask' /\ LevelInIsTrue'
    BY DEF ScanEdge, Goto, IInv, Places, LevelMask, LevelInIsTrue, TypeOK,
       connVars, timeVars, fixedVars
  <1>6. Clock' /\ TimeoutIsKept'
    BY DEF ScanEdge, Goto, IInv, Clock, TimeoutIsKept, InEpoll, EpollPCs,
       TypeOK, connVars, timeVars, fixedVars
  <1>7. QED
    BY <1>1, <1>2, <1>3, <1>4, <1>5, <1>6 DEF IInv

\* A wait goes on resting only if the mask has none of its events.
LEMMA EdgeTestStep == IInv /\ EdgeTest => IInv'
  <1> SUFFICES ASSUME IInv, EdgeTest
               PROVE  IInv'
    OBVIOUS
  <1>1. TypeOK'
    BY DEF EdgeTest, Goto, Listening, IInv, TypeOK, EpollPCs, AppPCs, FdStates,
       ConnStates, EventSet, connVars, timeVars, fixedVars
  <1>2. Places' /\ Signals'
    BY DEF EdgeTest, Goto, Listening, IInv, Places, Signals, TypeOK, connVars,
       timeVars, fixedVars
  <1>3. WakeupIsKept' /\ MaskIsFresh' /\ NoLostHangup'
    BY DEF EdgeTest, Goto, Listening, IInv, Places, Signals, LostOnlyToClose,
       WakeupIsKept, MaskIsFresh, NoLostHangup, Quiet, Resting, PeerSetting,
       TypeOK, connVars, timeVars, fixedVars
  <1>4. LostOnlyToClose'
    BY DEF EdgeTest, Goto, Listening, IInv, Places, Signals, LostOnlyToClose,
       TypeOK, connVars, timeVars, fixedVars
  <1>5. LevelMask' /\ LevelInIsTrue'
    BY DEF EdgeTest, Goto, Listening, IInv, Places, LevelMask, LevelInIsTrue,
       TypeOK, connVars, timeVars, fixedVars
  <1>6. Clock' /\ TimeoutIsKept'
    BY DEF EdgeTest, Goto, Listening, IInv, Clock, TimeoutIsKept, InEpoll,
       EpollPCs, TypeOK, connVars, timeVars, fixedVars
  <1>7. QED
    BY <1>1, <1>2, <1>3, <1>4, <1>5, <1>6 DEF IInv

\* What is reported is the mask; EPOLLIN of a connecting socket may be lost only
\* to a hang-up.
LEMMA EdgeReportStep == IInv /\ EdgeReport => IInv'
  <1> SUFFICES ASSUME IInv, EdgeReport
               PROVE  IInv'
    OBVIOUS
  <1>1. TypeOK'
    BY DEF EdgeReport, IInv, TypeOK, EpollPCs, AppPCs, FdStates, ConnStates,
       EventSet, connVars, timeVars, fixedVars
  <1>2. Places' /\ Signals'
    BY DEF EdgeReport, IInv, Places, Signals, TypeOK, connVars, timeVars, fixedVars
  <1>3. WakeupIsKept' /\ MaskIsFresh' /\ NoLostHangup'
    BY DEF EdgeReport, IInv, Places, Signals, LostOnlyToClose, WakeupIsKept,
       MaskIsFresh, NoLostHangup, Quiet, Resting, PeerSetting, TypeOK, connVars,
       timeVars, fixedVars
  <1>4. LostOnlyToClose'
    <2>1. poll'.got = own \intersect Listening /\ poll'.at = "etClear"
      BY DEF EdgeReport, IInv, TypeOK
    <2>2. ~level /\ fdState = "connecting" => Listening = {"IN"} /\ ("IN" \in own \/ connState = "close")
      BY DEF EdgeReport, IInv, LostOnlyToClose, Listening
    <2>3. QED
      BY <2>1, <2>2 DEF EdgeReport, LostOnlyToClose, connVars, fixedVars
  <1>5. LevelMask' /\ LevelInIsTrue'
    BY DEF EdgeReport, IInv, Places, LevelMask, LevelInIsTrue, TypeOK, connVars,
       timeVars, fixedVars
  <1>6. Clock' /\ TimeoutIsKept'
    BY DEF EdgeReport, IInv, Clock, TimeoutIsKept, InEpoll, EpollPCs, TypeOK,
       connVars, timeVars, fixedVars
  <1>7. QED
    BY <1>1, <1>2, <1>3, <1>4, <1>5, <1>6 DEF IInv

\* The mask is read, to be cleared; the application will receive afterwards.
LEMMA EdgeClearReadStep == IInv /\ EdgeClearRead => IInv'
  <1> SUFFICES ASSUME IInv, EdgeClearRead
               PROVE  IInv'
    OBVIOUS
  <1>1. TypeOK'
    BY DEF EdgeClearRead, IInv, TypeOK, EpollPCs, AppPCs, FdStates, ConnStates,
       EventSet, connVars, timeVars, fixedVars
  <1>2. Places' /\ Signals'
    BY DEF EdgeClearRead, IInv, Places, Signals, TypeOK, connVars, timeVars,
       fixedVars
  <1>3. WakeupIsKept' /\ MaskIsFresh' /\ NoLostHangup'
    BY DEF EdgeClearRead, IInv, Places, Signals, LostOnlyToClose, WakeupIsKept,
       MaskIsFresh, NoLostHangup, Quiet, Resting, PeerSetting, TypeOK, connVars,
       timeVars, fixedVars
  <1>4. LostOnlyToClose'
    BY DEF EdgeClearRead, IInv, Places, Signals, LostOnlyToClose, TypeOK,
       connVars, timeVars, fixedVars
  <1>5. LevelMask' /\ LevelInIsTrue'
    BY DEF EdgeClearRead, IInv, Places, LevelMask, LevelInIsTrue, TypeOK,
       connVars, timeVars, fixedVars
  <1>6. Clock' /\ TimeoutIsKept'
    BY DEF EdgeClearRead, IInv, Clock, TimeoutIsKept, InEpoll, EpollPCs, TypeOK,
       connVars, timeVars, fixedVars
  <1>7. QED
    BY <1>1, <1>2, <1>3, <1>4, <1>5, <1>6 DEF IInv

\* What is overwritten here is not needed: the application will receive.
LEMMA EdgeClearWriteStep == IInv /\ EdgeClearWrite => IInv'
  <1> SUFFICES ASSUME IInv, EdgeClearWrite
               PROVE  IInv'
    OBVIOUS
  <1>1. TypeOK'
    BY DEF EdgeClearWrite, Goto, Listening, IInv, TypeOK, EpollPCs, AppPCs,
       FdStates, ConnStates, EventSet, connVars, timeVars, fixedVars
  <1>2. Places' /\ Signals'
    BY DEF EdgeClearWrite, Goto, Listening, IInv, Places, Signals, TypeOK,
       connVars, timeVars, fixedVars
  <1>3. WakeupIsKept' /\ MaskIsFresh' /\ NoLostHangup'
    BY DEF EdgeClearWrite, Goto, Listening, IInv, Places, Signals,
       LostOnlyToClose, WakeupIsKept, MaskIsFresh, NoLostHangup, Quiet, Resting,
       PeerSetting, TypeOK, connVars, timeVars, fixedVars
  <1>4. LostOnlyToClose'
    BY DEF EdgeClearWrite, Goto, Listening, IInv, Places, Signals,
       LostOnlyToClose, TypeOK, connVars, timeVars, fixedVars
  <1>5. LevelMask' /\ LevelInIsTrue'
    BY DEF EdgeClearWrite, Goto, Listening, IInv, Places, LevelMask,
       LevelInIsTrue, TypeOK, connVars, timeVars, fixedVars
  <1>6. Clock' /\ TimeoutIsKept'
    BY DEF EdgeClearWrite, Goto, Listening, IInv, Clock, TimeoutIsKept, InEpoll,
       EpollPCs, TypeOK, connVars, timeVars, fixedVars
  <1>7. QED
    BY <1>1, <1>2, <1>3, <1>4, <1>5, <1>6 DEF IInv

\* The mask is computed anew, from the packets.
LEMMA LevelDataStep == IInv /\ LevelData => IInv'
  <1> SUFFICES ASSUME IInv, LevelData
               PROVE  IInv'
    OBVIOUS
  <1>1. TypeOK'
    BY DEF LevelData, Goto, Readable, IInv, TypeOK, EpollPCs, AppPCs, FdStates,
       ConnStates, EventSet, connVars, timeVars, fixedVars
  <1>2. Places' /\ Signals'
    BY DEF LevelData, Goto, Readable, IInv, Places, Signals, TypeOK, connVars,
       timeVars, fixedVars
  <1>3. WakeupIsKept' /\ MaskIsFresh' /\ NoLostHangup'
    BY DEF LevelData, Goto, Readable, IInv, Places, Signals, LostOnlyToClose,
       WakeupIsKept, MaskIsFresh, NoLostHangup, Quiet, Resting, PeerSetting,
       TypeOK, connVars, timeVars, fixedVars
  <1>4. LostOnlyToClose'
    BY DEF LevelData, Goto, Readable, IInv, Places, Signals, LostOnlyToClose,
       TypeOK, connVars, timeVars, fixedVars
  <1>5. LevelMask' /\ LevelInIsTrue'
    BY DEF LevelData, Goto, Readable, IInv, Places, LevelMask, LevelInIsTrue,
       TypeOK, connVars, timeVars, fixedVars
  <1>6. Clock' /\ TimeoutIsKept'
    BY DEF LevelData, Goto, Readable, IInv, Clock, TimeoutIsKept, InEpoll,
       EpollPCs, TypeOK, connVars, timeVars, fixedVars
  <1>7. QED
    BY <1>1, <1>2, <1>3, <1>4, <1>5, <1>6 DEF IInv

\* What is returned was seen, and only the application takes packets.
LEMMA LevelCloseStep == IInv /\ LevelClose => IInv'
  <1> SUFFICES ASSUME IInv, LevelClose
               PROVE  IInv'
    OBVIOUS
  <1>1. TypeOK'
    BY DEF LevelClose, Finish, IInv, TypeOK, EpollPCs, AppPCs, FdStates,
       ConnStates, EventSet, connVars, timeVars, fixedVars
  <1>2. Places' /\ Signals'
    BY DEF LevelClose, Finish, IInv, Places, Signals, TypeOK, connVars,
       timeVars, fixedVars
  <1>3. WakeupIsKept' /\ MaskIsFresh' /\ NoLostHangup'
    BY DEF LevelClose, Finish, IInv, Places, Signals, LostOnlyToClose,
       WakeupIsKept, MaskIsFresh, NoLostHangup, Quiet, Resting, PeerSetting,
       TypeOK, connVars, timeVars, fixedVars
  <1>4. LostOnlyToClose'
    BY DEF LevelClose, Finish, IInv, Places, Signals, LostOnlyToClose, TypeOK,
       connVars, timeVars, fixedVars
  <1>5. LevelMask' /\ LevelInIsTrue'
    BY DEF LevelClose, Finish, IInv, Places, LevelMask, LevelInIsTrue, TypeOK,
       connVars, timeVars, fixedVars
  <1>6. Clock' /\ TimeoutIsKept'
    BY DEF LevelClose, Finish, IInv, Clock, TimeoutIsKept, InEpoll, EpollPCs,
       TypeOK, connVars, timeVars, fixedVars
  <1>7. QED
    BY <1>1, <1>2, <1>3, <1>4, <1>5, <1>6 DEF IInv

\* The sleeps are counted up to the timeout, and not past it.
LEMMA SleepStep == IInv /\ Sleep => IInv'
  <1> SUFFICES ASSUME IInv, Sleep
               PROVE  IInv'
    OBVIOUS
  <1>1. TypeOK'
    <2>1. poll' \in [at : AppPCs \union EpollPCs, mask : SUBSET EventSet, got : SUBSET EventSet]
          /\ poll.at = "sleep" /\ poll'.at \in {"idle", "scan"}
      BY DEF Sleep, Goto, IInv, TypeOK, EpollPCs, AppPCs, FdStates,
         ConnStates, EventSet, connVars, timeVars, fixedVars
    <2>2. elapsed' \in Nat /\ slept' \in Nat /\ expired' \in BOOLEAN
      <3>1. /\ elapsed' = elapsed \/ elapsed' = elapsed + 1
            /\ slept' = slept \/ slept' = slept + 1
        BY DEF Sleep
      <3>2. elapsed \in Nat /\ slept \in Nat
        BY DEF IInv, TypeOK
      <3>3. elapsed' \in Nat /\ slept' \in Nat
        BY <3>1, <3>2
      <3>4. expired' \in BOOLEAN
        BY DEF Sleep, IInv, TypeOK
      <3>5. QED
        BY <3>3, <3>4
    <2>3. QED
      BY <2>1, <2>2 DEF Sleep, IInv, TypeOK, connVars, timeVars, fixedVars
  <1>2. Places' /\ Signals'
    BY DEF Sleep, Goto, IInv, Places, Signals, TypeOK, connVars, timeVars, fixedVars
  <1>3. WakeupIsKept' /\ MaskIsFresh' /\ NoLostHangup'
    BY DEF Sleep, Goto, IInv, Places, Signals, LostOnlyToClose, WakeupIsKept,
       MaskIsFresh, NoLostHangup, Quiet, Resting, PeerSetting, TypeOK, connVars,
       timeVars, fixedVars
  <1>4. LostOnlyToClose'
    BY DEF Sleep, Goto, IInv, Places, Signals, LostOnlyToClose, TypeOK,
       connVars, timeVars, fixedVars
  <1>5. LevelMask' /\ LevelInIsTrue'
    BY DEF Sleep, Goto, IInv, Places, LevelMask, LevelInIsTrue, TypeOK,
       connVars, timeVars, fixedVars
  <1>6. Clock' /\ TimeoutIsKept'
    <2> DEFINE over == Wrap(elapsed * SLEEP_DURATION) > Wrap(timeout * 1000)
    <2>1. /\ poll.at = "sleep" /\ ~expired /\ timeout \in Timeouts \union {-1}
          /\ elapsed \in Nat /\ slept \in Nat /\ timeout' = timeout
          /\ timeout # -1 =>
               /\ elapsed = slept
               /\ timeout * 1000 <= IntMax => (slept - 1) * SLEEP_DURATION <= timeout * 1000
      BY DEF Sleep, IInv, TypeOK, Clock, InEpoll, EpollPCs
    <2>2. timeout # -1 /\ timeout * 1000 <= IntMax =>
            (over <=> slept * SLEEP_DURATION > timeout * 1000)
      <3> SUFFICES ASSUME timeout # -1, timeout * 1000 <= IntMax
                   PROVE  over <=> slept * SLEEP_DURATION > timeout * 1000
        OBVIOUS
      <3>1. timeout \in Nat /\ timeout * 1000 + 100 <= IntMax
        BY <2>1, TimeoutsAssumption, IntMaxAssumption
      <3>2. timeout * 1000 \in 0..IntMax /\ slept * SLEEP_DURATION \in 0..IntMax
        BY <2>1, <3>1, IntMaxAssumption DEF SLEEP_DURATION
      <3>3. QED
        BY <2>1, <3>2, WrapIsExact
    <2>3. CASE timeout = -1
      <3>1. ~expired' /\ timeout' = -1
        BY <2>1, <2>3 DEF Sleep
      <3>2. QED
        BY <3>1 DEF Clock, TimeoutIsKept
    <2>4. CASE timeout # -1 /\ over
      <3>1. expired' /\ poll'.at = "idle" /\ slept' = slept
        BY <2>4 DEF Sleep, Goto, IInv, TypeOK
      <3>2. QED
        BY <2>1, <2>2, <2>4, <3>1 DEF Clock, TimeoutIsKept, InEpoll, EpollPCs
    <2>5. CASE timeout # -1 /\ ~over
      <3>1. ~expired' /\ slept' = slept + 1 /\ elapsed' = elapsed + 1
        BY <2>1, <2>5 DEF Sleep
      <3>2. timeout * 1000 <= IntMax => slept * SLEEP_DURATION <= timeout * 1000
        BY <2>1, <2>2, <2>5, TimeoutsAssumption DEF SLEEP_DURATION
      <3>3. (slept' - 1) * SLEEP_DURATION = slept * SLEEP_DURATION
        BY <2>1, <3>1 DEF SLEEP_DURATION
      <3>4. QED
        BY <2>1, <2>5, <3>1, <3>2, <3>3 DEF Clock, TimeoutIsKept
    <2>6. QED
      BY <2>3, <2>4, <2>5
  <1>7. QED
    BY <1>1, <1>2, <1>3, <1>4, <1>5, <1>6 DEF IInv

\* An edge-triggered application rests only if its socket is not open.
LEMMA HandleConnectedStep == IInv /\ HandleConnected => IInv'
  <1> SUFFICES ASSUME IInv, HandleConnected
               PROVE  IInv'
    OBVIOUS
  <1>1. TypeOK'
    BY DEF HandleConnected, IInv, TypeOK, EpollPCs, AppPCs, FdStates,
       ConnStates, EventSet, connVars, timeVars, fixedVars
  <1>2. Places' /\ Signals'
    BY DEF HandleConnected, IInv, Places, Signals, TypeOK, connVars, timeVars,
       fixedVars
  <1>3. WakeupIsKept' /\ MaskIsFresh' /\ NoLostHangup'
    BY DEF HandleConnected, IInv, Places, Signals, LostOnlyToClose,
       WakeupIsKept, MaskIsFresh, NoLostHangup, Quiet, Resting, PeerSetting,
       TypeOK, connVars, timeVars, fixedVars
  <1>4. LostOnlyToClose'
    BY DEF HandleConnected, IInv, Places, Signals, LostOnlyToClose, TypeOK,
       connVars, timeVars, fixedVars
  <1>5. LevelMask' /\ LevelInIsTrue'
    BY DEF HandleConnected, IInv, Places, LevelMask, LevelInIsTrue, TypeOK,
       connVars, timeVars, fixedVars
  <1>6. Clock' /\ TimeoutIsKept'
    BY DEF HandleConnected, IInv, Clock, TimeoutIsKept, InEpoll, EpollPCs,
       TypeOK, connVars, timeVars, fixedVars
  <1>7. QED
    BY <1>1, <1>2, <1>3, <1>4, <1>5, <1>6 DEF IInv

\* A listening socket has no packets.
LEMMA HandleAcceptStep == IInv /\ HandleAccept => IInv'
  <1> SUFFICES ASSUME IInv, HandleAccept
               PROVE  IInv'
    OBVIOUS
  <1>1. TypeOK'
    BY DEF HandleAccept, Goto, IInv, TypeOK, EpollPCs, AppPCs, FdStates,
       ConnStates, EventSet, connVars, timeVars, fixedVars
  <1>2. Places' /\ Signals'
    BY DEF HandleAccept, Goto, IInv, Places, Signals, TypeOK, connVars,
       timeVars, fixedVars
  <1>3. WakeupIsKept' /\ MaskIsFresh' /\ NoLostHangup'
    BY DEF HandleAccept, Goto, IInv, Places, Signals, LostOnlyToClose,
       WakeupIsKept, MaskIsFresh, NoLostHangup, Quiet, Resting, PeerSetting,
       TypeOK, connVars, timeVars, fixedVars
  <1>4. LostOnlyToClose'
    BY DEF HandleAccept, Goto, IInv, Places, Signals, LostOnlyToClose, TypeOK,
       connVars, timeVars, fixedVars
  <1>5. LevelMask' /\ LevelInIsTrue'
    BY DEF HandleAccept, Goto, IInv, Places, LevelMask, LevelInIsTrue, TypeOK,
       connVars, timeVars, fixedVars
  <1>6. Clock' /\ TimeoutIsKept'
    BY DEF HandleAccept, Goto, IInv, Clock, TimeoutIsKept, InEpoll, EpollPCs,
       TypeOK, connVars, timeVars, fixedVars
  <1>7. QED
    BY <1>1, <1>2, <1>3, <1>4, <1>5, <1>6 DEF IInv

\* An edge-triggered application receives until there is nothing.
LEMMA HandleRecvStep == IInv /\ HandleRecv => IInv'
  <1> SUFFICES ASSUME IInv, HandleRecv
               PROVE  IInv'
    OBVIOUS
  <1>1. TypeOK'
    <2>1. poll' \in [at : AppPCs \union EpollPCs, mask : SUBSET EventSet, got : SUBSET EventSet]
          /\ poll'.at \in {"handle", "idle", "recvTest"}
      <3>1. \E l \in {"handle", "idle", "recvTest"} : poll' = [poll EXCEPT !.at = l, !.got = {}]
        BY DEF HandleRecv
      <3>2. QED
        BY <3>1 DEF IInv, TypeOK, AppPCs
    <2>2. packets' \in Nat
      <3>1. CASE packets > 0
        <4>1. packets' = packets - 1
          BY <3>1 DEF HandleRecv
        <4>2. QED
          BY <3>1, <4>1 DEF IInv, TypeOK
      <3>2. CASE ~(packets > 0)
        <4>1. packets' = packets
          BY <3>2 DEF HandleRecv
        <4>2. QED
          BY <4>1 DEF IInv, TypeOK
      <3>3. QED
        BY <3>1, <3>2
    <2>3. QED
      BY <2>1, <2>2 DEF HandleRecv, IInv, TypeOK, timeVars, fixedVars
  <1>2. Places' /\ Signals'
    BY DEF HandleRecv, IInv, Places, Signals, TypeOK, connVars, timeVars, fixedVars
  <1>3. WakeupIsKept' /\ MaskIsFresh' /\ NoLostHangup'
    BY DEF HandleRecv, IInv, Places, Signals, LostOnlyToClose, WakeupIsKept,
       MaskIsFresh, NoLostHangup, Quiet, Resting, PeerSetting, TypeOK, connVars,
       timeVars, fixedVars
  <1>4. LostOnlyToClose'
    BY DEF HandleRecv, IInv, Places, Signals, LostOnlyToClose, TypeOK, connVars,
       timeVars, fixedVars
  <1>5. LevelMask' /\ LevelInIsTrue'
    BY DEF HandleRecv, IInv, Places, LevelMask, LevelInIsTrue, TypeOK, connVars,
       timeVars, fixedVars
  <1>6. Clock' /\ TimeoutIsKept'
    <2>1. \E l \in {"handle", "idle", "recvTest"} : poll' = [poll EXCEPT !.at = l, !.got = {}]
      BY DEF HandleRecv
    <2>2. poll'.at \in {"handle", "idle", "recvTest"}
      BY <2>1 DEF IInv, TypeOK
    <2>3. UNCHANGED timeVars
      BY DEF HandleRecv
    <2>4. QED
      BY <2>2, <2>3 DEF IInv, Clock, TimeoutIsKept, InEpoll, EpollPCs, timeVars
  <1>7. QED
    BY <1>1, <1>2, <1>3, <1>4, <1>5, <1>6 DEF IInv

\* After EAGAIN the peer has not closed: what it does next, it will signal.
LEMMA HandleRecvTestStep == IInv /\ HandleRecvTest => IInv'
  <1> SUFFICES ASSUME IInv, HandleRecvTest
               PROVE  IInv'
    OBVIOUS
  <1>1. TypeOK'
    BY DEF HandleRecvTest, Goto, IInv, TypeOK, EpollPCs, AppPCs, FdStates,
       ConnStates, EventSet, connVars, timeVars, fixedVars
  <1>2. Places' /\ Signals'
    BY DEF HandleRecvTest, Goto, IInv, Places, Signals, TypeOK, connVars,
       timeVars, fixedVars
  <1>3. WakeupIsKept' /\ MaskIsFresh' /\ NoLostHangup'
    BY DEF HandleRecvTest, Goto, IInv, Places, Signals, LostOnlyToClose,
       WakeupIsKept, MaskIsFresh, NoLostHangup, Quiet, Resting, PeerSetting,
       TypeOK, connVars, timeVars, fixedVars
  <1>4. LostOnlyToClose'
    BY DEF HandleRecvTest, Goto, IInv, Places, Signals, LostOnlyToClose, TypeOK,
       connVars, timeVars, fixedVars
  <1>5. LevelMask' /\ LevelInIsTrue'
    BY DEF HandleRecvTest, Goto, IInv, Places, LevelMask, LevelInIsTrue, TypeOK,
       connVars, timeVars, fixedVars
  <1>6. Clock' /\ TimeoutIsKept'
    BY DEF HandleRecvTest, Goto, IInv, Clock, TimeoutIsKept, InEpoll, EpollPCs,
       TypeOK, connVars, timeVars, fixedVars
  <1>7. QED
    BY <1>1, <1>2, <1>3, <1>4, <1>5, <1>6 DEF IInv

\* Every step keeps the invariant.
LEMMA Inductive == IInv /\ [Next]_vars => IInv'
  <1> SUFFICES ASSUME IInv, [Next]_vars
               PROVE  IInv'
    OBVIOUS
  <1>1. CASE PeerConnect \/ PeerAccept \/ PeerSend \/ PeerClose \/ PeerSets
    BY <1>1, PeerConnectStep, PeerAcceptStep, PeerSendStep, PeerCloseStep,
       PeerSetReadStep, PeerSetWriteStep DEF PeerSets
  <1>2. CASE Epoll
    BY <1>2, ScanListenStep, ScanConnectingStep, ConnectingSetReadStep,
       ConnectingSetWriteStep, ConnectingOpenStep, ScanEdgeStep, EdgeTestStep,
       EdgeReportStep, EdgeClearReadStep, EdgeClearWriteStep, LevelDataStep,
       LevelCloseStep, SleepStep DEF Epoll
  <1>3. CASE Application
    BY <1>3, EpollWaitStep, HandleConnectedStep, HandleAcceptStep, HandleRecvStep,
       HandleRecvTestStep DEF Application
  <1>4. CASE UNCHANGED vars
    BY <1>4 DEF vars, IInv, TypeOK, Places, Signals, WakeupIsKept, MaskIsFresh,
       LostOnlyToClose, NoLostHangup, LevelMask, LevelInIsTrue, Clock, TimeoutIsKept,
       Quiet, Resting, PeerSetting, InEpoll
  <1>5. QED
    BY <1>1, <1>2, <1>3, <1>4 DEF Next, Done

\* The invariant holds in every reachable state.
LEMMA Invariance == Spec => []IInv
  BY InitIInv, Inductive, PTL DEF Spec

---------------------------------------------------------------------------
\* Every variable has its type (the states of event.c and util.c).
THEOREM TypeCorrect == Spec => []TypeOK
  <1>1. IInv => TypeOK
    BY DEF IInv
  <1>2. QED
    BY <1>1, Invariance, PTL

\* The races between SET_EVENT and CLEAR_EVENT lose no wake-up that an
\* edge-triggered application waits for (event.c:354-358, util.c:543).
THEOREM WakeupsAreKept == Spec => []NoLostWakeup
  <1>1. IInv => NoLostWakeup
    BY DEF IInv, WakeupIsKept, NoLostWakeup, Quiet, Resting
  <1>2. QED
    BY <1>1, Invariance, PTL

\* Nor do they lose a hang-up (util.c:519-520).
THEOREM HangupsAreKept == Spec => []NoLostHangup
  <1>1. IInv => NoLostHangup
    BY DEF IInv
  <1>2. QED
    BY <1>1, Invariance, PTL

\* A level-triggered EPOLLIN is never stale (event.c:162-169).
THEOREM LevelEventsAreTrue == Spec => []LevelInIsTrue
  <1>1. IInv => LevelInIsTrue
    BY DEF IInv
  <1>2. QED
    BY <1>1, Invariance, PTL

\* Every timeout whose product fits is kept to one sleep (event.c:483).
THEOREM TimeoutsAreKept == Spec => []TimeoutIsKept
  <1>1. IInv => TimeoutIsKept
    BY DEF IInv
  <1>2. QED
    BY <1>1, Invariance, PTL
---------------------------------------------------------------------------
(* How long a wait can last                                               *)

\* Where a wait is in its scan of the socket: every step of epoll_pwait but
\* the sleep goes down.
Heights ==
    [sleep |-> 0, ltClose |-> 1, conOpen |-> 2, etWrite |-> 3, etClear |-> 4,
     etReport |-> 5, etTest |-> 6, conWrite |-> 7, conSet |-> 8, scan |-> 9]

Height == Heights[poll.at]

\* A wait whose timeout, in microseconds, is an int.
Timed == InEpoll /\ timeout # -1 /\ timeout * 1000 <= IntMax

\* The steps of epoll_pwait that are left, at most: ten for every sleep.
Left == 10 * (timeout * 10 + 1 - slept) + Height

\* The height of a step.
LEMMA HeightIs ==
    /\ InEpoll => Height \in Nat
    /\ poll.at = "sleep" => Height = 0
    /\ poll.at = "ltClose" => Height = 1
    /\ poll.at = "conOpen" => Height = 2
    /\ poll.at = "etWrite" => Height = 3
    /\ poll.at = "etClear" => Height = 4
    /\ poll.at = "etReport" => Height = 5
    /\ poll.at = "etTest" => Height = 6
    /\ poll.at = "conWrite" => Height = 7
    /\ poll.at = "conSet" => Height = 8
    /\ poll.at = "scan" => Height = 9
  BY DEF Height, Heights, InEpoll, EpollPCs

\* A wait has a number of steps left.
LEMMA LeftIsNat == IInv /\ Timed => Left \in Nat
  <1> SUFFICES ASSUME IInv, Timed
               PROVE  Left \in Nat
    OBVIOUS
  <1>1. timeout \in Nat /\ slept \in Nat
    BY TimeoutsAssumption DEF IInv, TypeOK, Clock, Timed
  <1>2. (slept - 1) * 100 <= timeout * 1000
    BY DEF IInv, Clock, Timed, SLEEP_DURATION
  <1>3. timeout * 10 + 1 - slept \in Nat
    BY <1>1, <1>2
  <1>4. QED
    BY <1>3, HeightIs DEF Left, Timed

\* Within a scan the height goes down.
LEMMA ScanStep ==
    ASSUME IInv, Epoll, ~Sleep, InEpoll'
    PROVE  Height' < Height /\ UNCHANGED <<timeout, slept>>
  <1> DEFINE at  == poll.at
             at1 == poll'.at
  <1>1. UNCHANGED <<timeout, slept>>
    BY DEF Epoll, ScanListen, ScanConnecting, ConnectingSetRead, ConnectingSetWrite,
       ConnectingOpen, ScanEdge, EdgeTest, EdgeReport, EdgeClearRead, EdgeClearWrite,
       LevelData, LevelClose, timeVars
  <1>2. poll \in [at : AppPCs \union EpollPCs, mask : SUBSET EventSet,
                  got : SUBSET EventSet]
    BY DEF IInv, TypeOK
  <1>3. \/ at = "scan" /\ at1 \in {"sleep", "handle", "conSet", "etTest", "ltClose"}
        \/ at = "conSet" /\ at1 = "conWrite"
        \/ at = "conWrite" /\ at1 \in {"conOpen", "etTest"}
        \/ at = "conOpen" /\ at1 \in {"sleep", "connected"}
        \/ at = "etTest" /\ at1 \in {"etReport", "conOpen", "sleep"}
        \/ at = "etReport" /\ at1 = "etClear"
        \/ at = "etClear" /\ at1 = "etWrite"
        \/ at = "etWrite" /\ at1 \in {"conOpen", "handle"}
        \/ at = "ltClose" /\ at1 \in {"sleep", "handle"}
    <2>1. CASE ScanListen \/ ScanConnecting \/ ScanEdge \/ LevelData
      BY <1>2, <2>1 DEF ScanListen, ScanConnecting, ScanEdge, LevelData, Goto, Finish
    <2>2. CASE ConnectingSetRead \/ ConnectingSetWrite \/ ConnectingOpen
      BY <1>2, <2>2 DEF ConnectingSetRead, ConnectingSetWrite, ConnectingOpen, Finish
    <2>3. CASE EdgeTest \/ EdgeReport \/ EdgeClearRead \/ EdgeClearWrite
      BY <1>2, <2>3 DEF EdgeTest, EdgeReport, EdgeClearRead, EdgeClearWrite, Goto
    <2>4. CASE LevelClose
      BY <1>2, <2>4 DEF LevelClose, Finish
    <2>5. QED
      BY <2>1, <2>2, <2>3, <2>4 DEF Epoll
  <1>4. at1 \notin {"handle", "connected"}
    BY DEF InEpoll, EpollPCs
  <1>5. /\ at1 = "sleep" => Height' = 0
        /\ at1 = "ltClose" => Height' = 1
        /\ at1 = "conOpen" => Height' = 2
        /\ at1 = "etWrite" => Height' = 3
        /\ at1 = "etClear" => Height' = 4
        /\ at1 = "etReport" => Height' = 5
        /\ at1 = "etTest" => Height' = 6
        /\ at1 = "conWrite" => Height' = 7
        /\ at1 = "conSet" => Height' = 8
    BY DEF Height, Heights
  <1>6. QED
    BY <1>1, <1>3, <1>4, <1>5, HeightIs

\* A step of epoll_pwait that does not return uses up one of those left.
LEMMA EpollUsesUp ==
    ASSUME IInv, Timed, Epoll, InEpoll'
    PROVE  Timed' /\ Left' < Left
  <1>1. timeout \in Nat /\ slept \in Nat /\ timeout # -1 /\ timeout * 1000 <= IntMax
    BY TimeoutsAssumption DEF IInv, TypeOK, Clock, Timed
  <1>2. CASE Sleep
    <2>1. poll.at = "sleep" /\ poll'.at \in {"scan", "idle"} /\ timeout' = timeout
      BY <1>2 DEF Sleep, Goto, IInv, TypeOK
    <2>2. poll'.at = "scan" /\ poll'.at # "idle"
      BY <2>1 DEF InEpoll, EpollPCs
    <2>3. slept' = slept + 1
      <3>1. poll' # [poll EXCEPT !.at = "idle"]
        <4>1. poll \in [at : AppPCs \union EpollPCs, mask : SUBSET EventSet,
                        got : SUBSET EventSet]
          BY DEF IInv, TypeOK
        <4>2. [poll EXCEPT !.at = "idle"].at = "idle"
          BY <4>1
        <4>3. QED
          BY <2>2, <4>2
      <3>2. QED
        BY <1>1, <1>2, <3>1 DEF Sleep, Goto
    <2>4. Height = 0 /\ Height' = 9
      BY <2>1, <2>2, HeightIs DEF Height, Heights
    <2>5. QED
      BY <1>1, <2>1, <2>3, <2>4 DEF Left, Timed
  <1>3. CASE ~Sleep
    <2>1. Height' < Height /\ timeout' = timeout /\ slept' = slept
      BY <1>3, ScanStep
    <2>2. Height \in Nat /\ Height' \in Nat
      BY HeightIs DEF Height, Heights, Timed, InEpoll, EpollPCs
    <2>3. Timed'
      BY <1>1, <2>1 DEF Timed
    <2>4. 10 * (timeout * 10 + 1 - slept) \in Int
      BY <1>1
    <2>5. Left' = 10 * (timeout * 10 + 1 - slept) + Height'
      BY <2>1 DEF Left
    <2>6. QED
      BY <2>1, <2>2, <2>3, <2>4, <2>5 DEF Left
  <1>4. QED
    BY <1>2, <1>3

\* Nobody else makes a wait longer.
LEMMA OthersLeaveIt ==
    ASSUME IInv, Timed, [Next]_vars, ~Epoll
    PROVE  UNCHANGED <<poll, timeout, slept>>
  <1>1. poll.at \notin AppPCs
    BY DEF Timed, InEpoll, EpollPCs, AppPCs
  <1>2. ~Application /\ ~Done
    BY <1>1 DEF Application, EpollWait, HandleConnected, HandleAccept, HandleRecv,
       HandleRecvTest, Done, AppPCs
  <1>3. QED
    BY <1>2 DEF Next, PeerConnect, PeerAccept, PeerSend, PeerClose, PeerSets,
       PeerSetRead, PeerSetWrite, timeVars, vars

\* What every step does to a wait with a timeout: it returns, or has fewer of
\* its own steps left, or the step was not its own and leaves it alone.
WaitGetsShorter ==
    Timed =>
        /\ Left \in Nat
        /\ Epoll => (InEpoll' => Timed' /\ Left' < Left)
        /\ ~Epoll => Timed' /\ Left' = Left

\* A wait whose timeout fits takes a bounded number of steps of its own,
\* whatever the peer does meanwhile: at most ten for every sleep, and a sleep
\* for every 100 microseconds (event.c:470-499).
THEOREM WaitsAreBounded == Spec => [][WaitGetsShorter]_vars
  <1>1. IInv /\ [Next]_vars => [WaitGetsShorter]_vars
    <2> SUFFICES ASSUME IInv, [Next]_vars, Timed
                 PROVE  /\ Left \in Nat
                        /\ Epoll => (InEpoll' => Timed' /\ Left' < Left)
                        /\ ~Epoll => Timed' /\ Left' = Left
      BY DEF WaitGetsShorter
    <2>1. Left \in Nat
      BY LeftIsNat
    <2>2. Epoll => (InEpoll' => Timed' /\ Left' < Left)
      BY EpollUsesUp
    <2>3. ASSUME ~Epoll
          PROVE  Timed' /\ Left' = Left
      <3>1. UNCHANGED <<poll, timeout, slept>>
        BY <2>3, OthersLeaveIt
      <3>2. QED
        BY <3>1 DEF Timed, InEpoll, Left, Height
    <2>4. QED
      BY <2>1, <2>2, <2>3
  <1>2. QED
    BY <1>1, Invariance, PTL DEF Spec
=============================================================================
