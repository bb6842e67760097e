--------------------------- MODULE ChannelProofs ---------------------------
(***************************************************************************)
(* Proofs about Channel, for all messages, buffer lengths and bounds.      *)
(* Contiguous is not inductive alone: that the packets survive needs       *)
(* ClosedBy (the list goes only when both have closed), and that a stream  *)
(* seen to end has ended needs EndedForGood.                               *)
(***************************************************************************)
EXTENDS Channel, TLAPS, SequenceTheorems

ClosedBy == connState = "close" <=> (sfd = "gone" \/ rfd = "gone")

\* What a sending call has queued is what it will report.
SendAccount ==
    /\ s.at = "idle" => s.done = 0
    /\ ~failed => queued = reported + s.done

EndedForGood ==
    ended => /\ connState = "close" /\ sfd = "gone"
             /\ buffer = <<>> /\ Len(out) = queued

IInv == TypeOK /\ ClosedBy /\ Contiguous /\ SendAccount /\ EndedForGood

---------------------------------------------------------------------------
\* The end of a packet is its first byte and its size.
LEMMA PacketEnds ==
    ASSUME NEW packet \in Packet
    PROVE  First(packet) \in Nat /\ End(packet) \in Nat /\ First(packet) <= End(packet)
  BY DEF Packet, First, End

\* An open connection without packets satisfies the invariant.
LEMMA InitIInv == Init => IInv
  <1> SUFFICES ASSUME Init
               PROVE  IInv
    OBVIOUS
  <1>1. TypeOK
    <2>1. /\ s \in [at : {"idle", "test", "append"}, iov : Seq(Nat), done : Nat]
          /\ s.at = "idle"
      BY DEF Init, SIdle
    <2>2. /\ r \in [at : {"idle", "look", "take", "test"}, len : Nat, nonblock : BOOLEAN]
          /\ r.at = "idle"
      BY DEF Init, RIdle
    <2>3. buffer \in Seq(Packet) /\ out \in Seq(Nat)
      BY DEF Init
    <2>4. failed \in BOOLEAN /\ ended \in BOOLEAN /\ eof \in BOOLEAN
      BY DEF Init
    <2>5. QED
      BY <2>1, <2>2, <2>3, <2>4 DEF Init, TypeOK, FdStates
  <1>2. ClosedBy /\ SendAccount /\ EndedForGood
    BY DEF Init, ClosedBy, SendAccount, EndedForGood, SIdle
  <1>3. Contiguous
    <2>1. Len(out) = queued /\ Len(buffer) = 0 /\ buffer = <<>>
      BY DEF Init
    <2>2. QED
      BY <2>1 DEF Contiguous
  <1>4. QED
    BY <1>1, <1>2, <1>3 DEF IInv

\* Starting a send changes the sender's call only.
LEMMA SendStartStep == IInv /\ SendStart => IInv'
  BY MessagesAssumption DEF SendStart, IInv, TypeOK, ClosedBy, Contiguous,
      SendAccount, EndedForGood, Closed, receiverVars, First, End

\* A send that fails leaves the account of the bytes that it reported.
LEMMA SendTestStep == IInv /\ SendTest => IInv'
  <1> SUFFICES ASSUME IInv, SendTest
               PROVE  IInv'
    OBVIOUS
  <1>1. CASE connState = "close"
    <2>1. /\ sfd' = "close" /\ s' = SIdle /\ sfd = "open"
          /\ failed' <=> failed \/ s.done > 0
          /\ failed' \in BOOLEAN
          /\ UNCHANGED <<connState, buffer, queued, reported, rfd, r, ended, eof, out>>
      BY <1>1 DEF SendTest, receiverVars, IInv, TypeOK
    <2>2. TypeOK'
      BY <2>1 DEF IInv, TypeOK, SIdle, FdStates
    <2>3. ClosedBy' /\ EndedForGood'
      BY <2>1 DEF IInv, ClosedBy, EndedForGood
    <2>4. Contiguous'
      BY <2>1 DEF IInv, Contiguous, Closed, First, End
    <2>5. SendAccount'
      BY <2>1 DEF IInv, TypeOK, SendAccount, SIdle
    <2>6. QED
      BY <2>2, <2>3, <2>4, <2>5 DEF IInv
  <1>2. CASE connState # "close"
    BY <1>2 DEF SendTest, IInv, TypeOK, ClosedBy, Contiguous, SendAccount,
        EndedForGood, Closed, receiverVars, First, End
  <1>3. QED
    BY <1>1, <1>2

\* One more packet at the end of the list.
LEMMA AppendContiguous ==
    ASSUME TypeOK, Contiguous, ~Closed, NEW n \in Nat,
           buffer' = Append(buffer, [base |-> queued, offset |-> 0, datasize |-> n]),
           queued' = queued + n, UNCHANGED out
    PROVE  Contiguous' /\ buffer' \in Seq(Packet) /\ buffer' # <<>>
  <1> DEFINE packet == [base |-> queued, offset |-> 0, datasize |-> n]
  <1>1. packet \in Packet /\ First(packet) = queued /\ End(packet) = queued + n
    BY DEF TypeOK, Packet, First, End
  <1>2. /\ Len(buffer') = Len(buffer) + 1 /\ buffer'[Len(buffer')] = packet
        /\ \A k \in 1..Len(buffer) : buffer'[k] = buffer[k]
        /\ buffer' \in Seq(Packet) /\ buffer' # <<>>
    BY <1>1 DEF TypeOK
  <1> HIDE DEF packet
  <1>3. /\ First(Head(buffer')) = Len(out')
        /\ End(buffer'[Len(buffer')]) = queued'
    <2>1. CASE buffer = <<>>
      BY <1>1, <1>2, <2>1 DEF Contiguous
    <2>2. CASE buffer # <<>>
      <3>1. Head(buffer') = Head(buffer)
        BY <1>2, <2>2 DEF TypeOK
      <3>2. QED
        BY <1>1, <1>2, <2>2, <3>1 DEF Contiguous
    <2>3. QED
      BY <2>1, <2>2
  <1>4. \A k \in 1..(Len(buffer') - 1) : End(buffer'[k]) = First(buffer'[k + 1])
    <2> SUFFICES ASSUME NEW k \in 1..Len(buffer)
                 PROVE  End(buffer'[k]) = First(buffer'[k + 1])
      BY <1>2 DEF TypeOK
    <2>1. CASE k = Len(buffer)
      BY <1>1, <1>2, <2>1 DEF Contiguous, TypeOK
    <2>2. CASE k # Len(buffer)
      BY <1>2, <2>2 DEF Contiguous, TypeOK
    <2>3. QED
      BY <2>1, <2>2
  <1>5. \A k \in 1..Len(buffer') : End(buffer'[k]) <= queued'
    <2> SUFFICES ASSUME NEW k \in 1..(Len(buffer) + 1)
                 PROVE  End(buffer'[k]) <= queued'
      BY <1>2 DEF TypeOK
    <2>1. CASE k = Len(buffer) + 1
      BY <1>1, <1>2, <2>1 DEF TypeOK
    <2>2. CASE k # Len(buffer) + 1
      <3>1. k \in 1..Len(buffer) /\ buffer[k] \in Packet
        BY <2>2 DEF TypeOK
      <3>2. End(buffer'[k]) = End(buffer[k]) /\ End(buffer[k]) <= queued
        BY <1>2, <3>1 DEF Contiguous
      <3>3. End(buffer[k]) \in Nat /\ queued \in Nat /\ queued' = queued + n
        BY <3>1, PacketEnds DEF TypeOK
      <3>4. QED
        BY ONLY <3>2, <3>3, n \in Nat
    <2>3. QED
      BY <2>1, <2>2
  <1>6. QED
    BY <1>2, <1>3, <1>4, <1>5 DEF Contiguous

\* The packet appended continues the last one, and the account.
LEMMA SendAppendStep == IInv /\ SendAppend => IInv'
  <1> SUFFICES ASSUME IInv, SendAppend
               PROVE  IInv'
    OBVIOUS
  <1> DEFINE n == Head(s.iov)
             left == Tail(s.iov)
  <1>1. n \in Nat /\ left \in Seq(Nat) /\ sfd = "open" /\ ~Closed
    BY DEF SendAppend, IInv, TypeOK, Closed
  <1>2. /\ buffer' = Append(buffer, [base |-> queued, offset |-> 0, datasize |-> n])
        /\ queued' = queued + n
        /\ UNCHANGED <<connState, sfd, failed, rfd, r, ended, eof, out>>
    BY DEF SendAppend, receiverVars
  <1>3. Contiguous' /\ buffer' \in Seq(Packet) /\ buffer' # <<>>
    BY <1>1, <1>2, AppendContiguous DEF IInv
  <1>4. \/ s' = SIdle /\ reported' = reported + s.done + n
        \/ /\ s' = [at |-> "test", iov |-> left, done |-> s.done + n]
           /\ left # <<>> /\ UNCHANGED reported
    BY DEF SendAppend
  <1> HIDE DEF n, left
  <1>5. s.done \in Nat /\ reported \in Nat /\ queued \in Nat
    BY DEF IInv, TypeOK
  <1>6. TypeOK'
    <2>1. queued' \in Nat /\ reported' \in Nat
      BY <1>1, <1>2, <1>4, <1>5
    <2>2. /\ s' \in [at : {"idle", "test", "append"}, iov : Seq(Nat), done : Nat]
          /\ s'.at # "idle" => s'.iov # <<>>
      <3>1. CASE s' = SIdle
        BY <3>1 DEF SIdle
      <3>2. CASE s' = [at |-> "test", iov |-> left, done |-> s.done + n] /\ left # <<>>
        BY <1>1, <1>5, <3>2
      <3>3. QED
        BY <1>4, <3>1, <3>2
    <2>3. QED
      BY <1>1, <1>2, <1>3, <2>1, <2>2 DEF IInv, TypeOK
  <1>7. ClosedBy' /\ EndedForGood'
    BY <1>1, <1>2 DEF IInv, ClosedBy, EndedForGood
  <1>8. SendAccount'
    <2>1. failed' = failed
      BY <1>2
    <2>2. s'.at = "idle" => s'.done = 0
      BY <1>4 DEF SIdle
    <2>3. queued = reported + s.done => queued' = reported' + s'.done
      BY <1>1, <1>2, <1>4, <1>5 DEF SIdle
    <2>4. QED
      BY <2>1, <2>2, <2>3 DEF IInv, SendAccount
  <1>9. QED
    BY <1>3, <1>6, <1>7, <1>8 DEF IInv

\* The sender's socket fails only when the connection is closed.
LEMMA SenderRecvStep == IInv /\ SenderRecv => IInv'
  BY DEF SenderRecv, IInv, TypeOK, ClosedBy, Contiguous, SendAccount, EndedForGood,
      Closed, receiverVars, FdStates, First, End

\* Closing gives up the packets only when the receiver closed before.
LEMMA SenderCloseStep == IInv /\ SenderClose => IInv'
  <1> SUFFICES ASSUME IInv, SenderClose
               PROVE  IInv'
    OBVIOUS
  <1>1. CASE connState = "close"
    BY <1>1 DEF SenderClose, CloseConnection, IInv, TypeOK, ClosedBy, Contiguous,
        SendAccount, EndedForGood, Closed, receiverVars, FdStates
  <1>2. CASE connState # "close"
    BY <1>2 DEF SenderClose, CloseConnection, IInv, TypeOK, ClosedBy, Contiguous,
        SendAccount, EndedForGood, Closed, receiverVars, FdStates, First, End
  <1>3. QED
    BY <1>1, <1>2

\* Starting a recv changes the receiver's call only.
LEMMA RecvStartStep == IInv /\ RecvStart => IInv'
  BY RecvLensAssumption DEF RecvStart, IInv, TypeOK, ClosedBy, Contiguous,
      SendAccount, EndedForGood, Closed, senderVars, First, End

\* An empty list on a closed connection was drained, and stays empty.
LEMMA RecvLookStep == IInv /\ RecvLook => IInv'
  <1> SUFFICES ASSUME IInv, RecvLook
               PROVE  IInv'
    OBVIOUS
  <1>1. TypeOK' /\ ClosedBy' /\ SendAccount'
    BY DEF RecvLook, IInv, TypeOK, ClosedBy, SendAccount, senderVars
  <1>2. Contiguous'
    BY DEF RecvLook, IInv, Contiguous, Closed, senderVars, First, End
  <1>3. EndedForGood'
    BY DEF RecvLook, IInv, TypeOK, ClosedBy, Contiguous, EndedForGood, Closed, senderVars
  <1>4. QED
    BY <1>1, <1>2, <1>3 DEF IInv

\* A fragment is taken off the front of a packet.
LEMMA RestEnds ==
    ASSUME NEW packet \in Packet, NEW len \in Nat, ~(len >= packet.datasize)
    PROVE  /\ Rest(packet, len) \in Packet
           /\ First(Rest(packet, len)) = First(packet) + len
           /\ End(Rest(packet, len)) = End(packet)
  <1>1. /\ packet.base \in Nat /\ packet.offset \in Nat /\ packet.datasize \in Nat
        /\ len < packet.datasize
    BY DEF Packet
  <1>2. packet.datasize - len \in Nat /\ packet.offset + len \in Nat
    BY <1>1
  <1>3. Rest(packet, len) \in Packet
    BY <1>2 DEF Rest, Packet
  <1>4. /\ Rest(packet, len).base = packet.base
        /\ Rest(packet, len).offset = packet.offset + len
        /\ Rest(packet, len).datasize = packet.datasize - len
    BY DEF Rest, Packet
  <1>5. QED
    BY <1>1, <1>3, <1>4 DEF First, End

\* What a recv copies out of the first packet: the next bytes of the stream.
LEMMA TakenIsNext ==
    ASSUME IInv, RecvTake
    PROVE  \E n \in Nat :
             /\ n = Copied(Head(buffer), r.len) /\ n <= queued - Len(out)
             /\ out' = out \o [k \in 1..n |-> Len(out) + k]
             /\ Len(out') = Len(out) + n /\ out' \in Seq(Nat)
  <1> DEFINE packet == Head(buffer)
             n      == Copied(packet, r.len)
  <1>1. buffer # <<>> /\ r.len \in Nat /\ rfd = "open" /\ ~Closed /\ out \in Seq(Nat)
    BY DEF RecvTake, IInv, TypeOK, Closed
  <1>2. packet \in Packet /\ packet = buffer[1] /\ 1 \in 1..Len(buffer)
    BY <1>1 DEF IInv, TypeOK
  <1>3. First(packet) = Len(out) /\ End(packet) <= queued
    BY <1>1, <1>2 DEF IInv, Contiguous
  <1>4. n \in Nat /\ n <= packet.datasize
    BY <1>1, <1>2 DEF Copied, Packet
  <1>5. n <= queued - Len(out)
    BY <1>1, <1>2, <1>3, <1>4 DEF First, End, Packet, IInv, TypeOK
  <1>6. out' = out \o [k \in 1..n |-> Len(out) + k]
    BY <1>3 DEF RecvTake, First
  <1> HIDE DEF n
  <1>7. DEFINE taken == [k \in 1..n |-> Len(out) + k]
  <1>8. taken \in Seq(Nat) /\ Len(taken) = n
    BY <1>1, <1>4
  <1>9. Len(out') = Len(out) + n /\ out' \in Seq(Nat)
    <2>1. out' = out \o taken
      BY <1>6
    <2> HIDE DEF taken
    <2>2. QED
      BY <1>1, <1>4, <1>8, <2>1, ConcatProperties
  <1>10. QED
    BY <1>4, <1>5, <1>6, <1>9 DEF n

\* What a recv takes off the first packet continues the bytes received.
LEMMA RecvTakeStep == IInv /\ RecvTake => IInv'
  <1> SUFFICES ASSUME IInv, RecvTake
               PROVE  IInv'
    OBVIOUS
  <1> DEFINE packet == Head(buffer)
  <1>1. PICK n \in Nat : /\ n = Copied(packet, r.len) /\ n <= queued - Len(out)
                         /\ Len(out') = Len(out) + n /\ out' \in Seq(Nat)
    BY TakenIsNext
  <1>2. /\ UNCHANGED <<connState, queued, rfd, ended, eof, sfd, s, reported, failed>>
        /\ r.at = "take" /\ rfd = "open" /\ ~Closed /\ ~Closed' /\ buffer # <<>>
        /\ r.len \in Nat /\ ~ended
    BY DEF RecvTake, senderVars, IInv, TypeOK, Closed, EndedForGood
  <1>3. /\ packet \in Packet /\ Tail(buffer) \in Seq(Packet)
        /\ Len(Tail(buffer)) = Len(buffer) - 1
        /\ \A k \in 1..(Len(buffer) - 1) : Tail(buffer)[k] = buffer[k + 1]
        /\ packet = buffer[1] /\ Len(buffer) \in Nat \ {0}
    BY <1>2 DEF IInv, TypeOK
  <1>4. First(packet) = Len(out) /\ queued \in Nat
    BY <1>2 DEF IInv, Contiguous, TypeOK
  <1>5. \/ buffer' = Tail(buffer) /\ Len(out') = End(packet)
        \/ \E rest \in Packet :
             /\ buffer' = <<rest>> \o Tail(buffer)
             /\ First(rest) = Len(out') /\ End(rest) = End(packet)
    <2>1. CASE r.len >= packet.datasize
      <3>1. buffer' = Tail(buffer)
        BY <2>1 DEF RecvTake
      <3>2. Len(out') = End(packet)
        BY <1>1, <1>3, <1>4, <2>1 DEF Copied, First, End
      <3>3. QED
        BY <3>1, <3>2
    <2>2. CASE ~(r.len >= packet.datasize)
      <3>1. buffer' = <<Rest(packet, r.len)>> \o Tail(buffer)
        BY <2>2 DEF RecvTake
      <3>2. /\ Rest(packet, r.len) \in Packet
            /\ First(Rest(packet, r.len)) = First(packet) + r.len
            /\ End(Rest(packet, r.len)) = End(packet)
        BY <1>2, <1>3, <2>2, RestEnds DEF Packet
      <3>3. n = r.len
        BY <1>1, <2>2 DEF Copied
      <3>4. QED
        BY <1>1, <1>4, <3>1, <3>2, <3>3
    <2>3. QED
      BY <2>1, <2>2
  <1>6. r' = [r EXCEPT !.at = "test"] \/ r' = RIdle
    BY DEF RecvTake
  <1> HIDE DEF packet
  <1>7. Contiguous' /\ buffer' \in Seq(Packet)
    <2>1. CASE buffer' = Tail(buffer) /\ Len(out') = End(packet)
      <3>1. buffer' = <<>> => Len(out') = queued'
        <4>1. buffer' = <<>> => Len(buffer) = 1
          <5>1. Len(buffer') = Len(buffer) - 1
            BY <1>3, <2>1
          <5>2. buffer' = <<>> => Len(buffer') = 0
            OBVIOUS
          <5>3. Len(buffer) \in Nat
            BY <1>3
          <5>4. QED
            BY <5>1, <5>2, <5>3
        <4>2. QED
          BY <1>2, <1>3, <2>1, <4>1 DEF IInv, Contiguous
      <3>2. buffer' # <<>> => /\ First(Head(buffer')) = Len(out')
                              /\ End(buffer'[Len(buffer')]) = queued'
        <4> SUFFICES ASSUME buffer' # <<>>
                     PROVE  /\ First(Head(buffer')) = Len(out')
                            /\ End(buffer'[Len(buffer')]) = queued'
          OBVIOUS
        <4>1. Len(buffer) > 1 /\ Head(buffer') = buffer[2]
          BY <1>3, <2>1
        <4>2. End(buffer[1]) = First(buffer[2])
          BY <1>2, <1>3, <4>1 DEF IInv, Contiguous
        <4>3. buffer'[Len(buffer')] = buffer[Len(buffer)]
          BY <1>3, <2>1, <4>1
        <4>4. QED
          BY <1>2, <1>3, <2>1, <4>1, <4>2, <4>3 DEF IInv, Contiguous
      <3>3. /\ \A k \in 1..(Len(buffer') - 1) : End(buffer'[k]) = First(buffer'[k + 1])
            /\ \A k \in 1..Len(buffer') : End(buffer'[k]) <= queued'
        BY <1>2, <1>3, <2>1 DEF IInv, Contiguous
      <3>4. QED
        BY <1>3, <2>1, <3>1, <3>2, <3>3 DEF Contiguous
    <2>2. ASSUME NEW rest \in Packet, buffer' = <<rest>> \o Tail(buffer),
                 First(rest) = Len(out'), End(rest) = End(packet)
          PROVE  Contiguous' /\ buffer' \in Seq(Packet)
      <3>1. /\ Len(buffer') = Len(buffer) /\ buffer'[1] = rest /\ Head(buffer') = rest
            /\ \A k \in 2..Len(buffer) : buffer'[k] = buffer[k]
            /\ buffer' \in Seq(Packet) /\ buffer' # <<>>
        BY <1>3, <2>2
      <3>2. \A k \in 1..Len(buffer) : End(buffer'[k]) = End(buffer[k])
        BY <1>3, <2>2, <3>1
      <3>3. \A k \in 1..(Len(buffer) - 1) : First(buffer'[k + 1]) = First(buffer[k + 1])
        BY <1>3, <3>1
      <3>4. /\ \A k \in 1..(Len(buffer') - 1) : End(buffer'[k]) = First(buffer'[k + 1])
            /\ \A k \in 1..Len(buffer') : End(buffer'[k]) <= queued'
        BY <1>2, <1>3, <3>1, <3>2, <3>3 DEF IInv, Contiguous
      <3>5. End(buffer'[Len(buffer')]) = queued'
        BY <1>2, <1>3, <3>1, <3>2 DEF IInv, Contiguous
      <3>6. QED
        BY <2>2, <3>1, <3>4, <3>5 DEF Contiguous
    <2>3. QED
      BY <1>5, <2>1, <2>2
  <1>8. TypeOK'
    <2>1. /\ r' \in [at : {"idle", "look", "take", "test"}, len : Nat, nonblock : BOOLEAN]
          /\ r'.at # "take"
      <3>1. r \in [at : {"idle", "look", "take", "test"}, len : Nat, nonblock : BOOLEAN]
        BY DEF IInv, TypeOK
      <3>2. CASE r' = [r EXCEPT !.at = "test"]
        BY <3>1, <3>2
      <3>3. CASE r' = RIdle
        BY <3>3 DEF RIdle
      <3>4. QED
        BY <1>6, <3>2, <3>3
    <2>2. QED
      BY <1>1, <1>2, <1>7, <2>1 DEF IInv, TypeOK
  <1>9. ClosedBy' /\ SendAccount' /\ EndedForGood'
    BY <1>2 DEF IInv, ClosedBy, SendAccount, EndedForGood
  <1>10. QED
    BY <1>7, <1>8, <1>9 DEF IInv

\* recv reports the end only on a closed connection.
LEMMA RecvTestStep == IInv /\ RecvTest => IInv'
  <1> SUFFICES ASSUME IInv, RecvTest
               PROVE  IInv'
    OBVIOUS
  <1>1. /\ UNCHANGED <<connState, buffer, queued, ended, out, sfd, s, reported, failed>>
        /\ rfd = "open"
    BY DEF RecvTest, senderVars, IInv, TypeOK
  <1>2. rfd' \in {"open", "close"} /\ eof' \in BOOLEAN
    BY <1>1 DEF RecvTest, IInv, TypeOK
  <1>3. r' = RIdle \/ (r' = [r EXCEPT !.at = "look"] /\ rfd' = "open")
    BY <1>1 DEF RecvTest
  <1>4. /\ r' \in [at : {"idle", "look", "take", "test"}, len : Nat, nonblock : BOOLEAN]
        /\ r'.at # "idle" => rfd' = "open"
        /\ r'.at # "take"
    <2>1. r \in [at : {"idle", "look", "take", "test"}, len : Nat, nonblock : BOOLEAN]
      BY DEF IInv, TypeOK
    <2>2. CASE r' = [r EXCEPT !.at = "look"] /\ rfd' = "open"
      BY <2>1, <2>2
    <2>3. CASE r' = RIdle
      BY <2>3 DEF RIdle
    <2>4. QED
      BY <1>3, <2>2, <2>3
  <1>5. TypeOK'
    BY <1>1, <1>2, <1>4 DEF IInv, TypeOK, FdStates
  <1>6. ClosedBy' /\ SendAccount' /\ EndedForGood'
    BY <1>1, <1>2 DEF IInv, ClosedBy, SendAccount, EndedForGood
  <1>7. Contiguous'
    BY <1>1, <1>2 DEF IInv, Contiguous, Closed, First, End
  <1>8. QED
    BY <1>5, <1>6, <1>7 DEF IInv

\* The receiver's socket fails only when the connection is closed.
LEMMA ReceiverSendStep == IInv /\ ReceiverSend => IInv'
  BY DEF ReceiverSend, IInv, TypeOK, ClosedBy, Contiguous, SendAccount, EndedForGood,
      Closed, senderVars, FdStates, First, End

\* Closing gives up the packets only when the sender closed before.
LEMMA ReceiverCloseStep == IInv /\ ReceiverClose => IInv'
  <1> SUFFICES ASSUME IInv, ReceiverClose
               PROVE  IInv'
    OBVIOUS
  <1>1. CASE connState = "close"
    BY <1>1 DEF ReceiverClose, CloseConnection, IInv, TypeOK, ClosedBy, Contiguous,
        SendAccount, EndedForGood, Closed, senderVars, FdStates
  <1>2. CASE connState # "close"
    BY <1>2 DEF ReceiverClose, CloseConnection, IInv, TypeOK, ClosedBy, Contiguous,
        SendAccount, EndedForGood, Closed, senderVars, FdStates, First, End
  <1>3. QED
    BY <1>1, <1>2

\* The invariant is a state predicate.
LEMMA UnchangedStep == IInv /\ UNCHANGED vars => IInv'
  BY DEF vars, IInv, TypeOK, ClosedBy, Contiguous, SendAccount, EndedForGood, Closed,
      First, End

\* The inductive invariant of the channel.
LEMMA Invariance == Spec => []IInv
  <1>1. IInv /\ [Next]_vars => IInv'
    BY SendStartStep, SendTestStep, SendAppendStep, SenderRecvStep, SenderCloseStep,
       RecvStartStep, RecvLookStep, RecvTakeStep, RecvTestStep, ReceiverSendStep,
       ReceiverCloseStep, UnchangedStep DEF Next, Sending, Receiving, Done
  <1>2. QED
    BY InitIInv, <1>1, PTL DEF Spec

---------------------------------------------------------------------------
(* Results                                                                *)

\* Every variable has its type, and a call runs only on an open socket.
THEOREM TypeCorrect == Spec => []TypeOK
  <1>1. IInv => TypeOK
    BY DEF IInv
  <1>2. QED
    BY <1>1, Invariance, PTL

\* The packets hold exactly the bytes queued and not received, however recv
\* cuts them (util.c:526-589).
THEOREM PacketsAreContiguous == Spec => []Contiguous
  <1>1. IInv => Contiguous
    BY DEF IInv
  <1>2. QED
    BY <1>1, Invariance, PTL

\* An end of the stream that was there when recv looked for data is complete
\* (socket.c:386-394).
THEOREM EndIsComplete == Spec => []EofAfterCloseIsComplete
  <1>1. IInv => EofAfterCloseIsComplete
    BY DEF IInv, EndedForGood, EofAfterCloseIsComplete
  <1>2. QED
    BY <1>1, Invariance, PTL

\* send and sendmsg report what they queued (socket.c:571-599).
THEOREM ReportIsExact == Spec => []ReportedIsQueued
  <1>1. IInv => ReportedIsQueued
    BY DEF IInv, TypeOK, SendAccount, ReportedIsQueued
  <1>2. QED
    BY <1>1, Invariance, PTL

\* One direction of a connection implements a byte stream: every step of
\* Channel writes, reads the next bytes, ends the stream, or changes nothing
\* a user of the stream sees.
THEOREM ChannelIsByteStream == Spec => StreamRefinement
  <1>1. Init => Stream!StreamInit
    BY DEF Init, Stream!StreamInit
  <1>2. IInv /\ IInv' /\ [Next]_vars => [Stream!StreamNext]_(Stream!streamVars)
    <2> SUFFICES ASSUME IInv, IInv', [Next]_vars
                 PROVE  [Stream!StreamNext]_(Stream!streamVars)
      OBVIOUS
    <2> USE DEF Stream!streamVars
    <2>1. CASE SendAppend
      <3>1. UNCHANGED <<out, rfd>>
        BY <2>1 DEF SendAppend, receiverVars
      <3>2. queued' \in Nat /\ queued' >= queued
        <4>1. Head(s.iov) \in Nat /\ queued \in Nat
          <5>1. s.iov \in Seq(Nat) /\ s.iov # <<>> /\ queued \in Nat
            BY <2>1 DEF SendAppend, IInv, TypeOK
          <5>2. QED
            BY <5>1
        <4>2. queued' = queued + Head(s.iov)
          BY <2>1 DEF SendAppend
        <4>3. QED
          BY <4>1, <4>2
      <3>3. QED
        BY <3>1, <3>2 DEF Stream!StreamNext, Stream!Write
    <2>2. CASE RecvTake
      <3>1. UNCHANGED <<queued, rfd>> /\ rfd = "open"
        BY <2>2 DEF RecvTake, IInv, TypeOK
      <3>2. \E n \in 0..(queued - Len(out)) :
              out' = out \o [k \in 1..n |-> Len(out) + k]
        <4>1. PICK n \in Nat : /\ n <= queued - Len(out)
                               /\ out' = out \o [k \in 1..n |-> Len(out) + k]
          BY <2>2, TakenIsNext
        <4>2. n \in 0..(queued - Len(out))
          BY <4>1 DEF IInv, TypeOK
        <4>3. QED
          BY <4>1, <4>2
      <3>3. QED
        BY <3>1, <3>2 DEF Stream!StreamNext, Stream!Read
    <2>3. CASE RecvTest \/ ReceiverSend \/ ReceiverClose
      <3>1. UNCHANGED <<queued, out>> /\ (rfd' = rfd \/ rfd' # "open")
        BY <2>3 DEF RecvTest, ReceiverSend, ReceiverClose, CloseConnection
      <3>2. QED
        BY <3>1 DEF Stream!StreamNext, Stream!Finish
    <2>4. CASE \/ SendStart \/ SendTest \/ SenderRecv \/ SenderClose
               \/ RecvStart \/ RecvLook \/ Done \/ UNCHANGED vars
      BY <2>4 DEF SendStart, SendTest, SenderRecv, SenderClose, CloseConnection,
          RecvStart, RecvLook, Done, receiverVars, senderVars, vars
    <2>5. QED
      BY <2>1, <2>2, <2>3, <2>4 DEF Next, Sending, Receiving
  <1>3. QED
    BY <1>1, <1>2, Invariance, PTL DEF Spec, StreamRefinement, Stream!StreamSpec

\* A stream of bytes is read in order: what ByteStream promises is enough.
LEMMA StreamIsRead == Stream!StreamSpec => []Stream!Prefix
  <1>1. Stream!StreamInit => Stream!Prefix
    BY DEF Stream!StreamInit, Stream!Prefix
  <1>2. Stream!Prefix /\ [Stream!StreamNext]_(Stream!streamVars) => Stream!Prefix'
    <2> SUFFICES ASSUME Stream!Prefix, [Stream!StreamNext]_(Stream!streamVars)
                 PROVE  Stream!Prefix'
      OBVIOUS
    <2>1. CASE Stream!Write
      BY <2>1 DEF Stream!Write, Stream!Prefix
    <2>2. CASE Stream!Read
      <3>1. PICK n \in 0..(queued - Len(out)) :
                   out' = out \o [k \in 1..n |-> Len(out) + k]
        BY <2>2 DEF Stream!Read
      <3> DEFINE next == [k \in 1..n |-> Len(out) + k]
      <3>2. /\ out \in Seq(Nat) /\ queued \in Nat /\ queued' = queued
            /\ Len(out) <= queued /\ \A k \in 1..Len(out) : out[k] = k
        BY <2>2 DEF Stream!Read, Stream!Prefix
      <3>3. next \in Seq(Nat) /\ Len(next) = n /\ \A k \in 1..n : next[k] = Len(out) + k
        BY <3>2
      <3>4. out' = out \o next
        BY <3>1
      <3> HIDE DEF next
      <3>5. /\ out' \in Seq(Nat) /\ Len(out') = Len(out) + n
            /\ \A k \in 1..Len(out') :
                 out'[k] = IF k <= Len(out) THEN out[k] ELSE next[k - Len(out)]
        BY <3>2, <3>3, <3>4, ConcatProperties
      <3>6. ASSUME NEW k \in 1..Len(out')
            PROVE  out'[k] = k
        <4>1. CASE k <= Len(out)
          BY <3>2, <3>5, <4>1
        <4>2. CASE ~(k <= Len(out))
          <5>1. k - Len(out) \in 1..n
            BY <3>2, <3>5, <4>2
          <5>2. QED
            BY <3>2, <3>3, <3>5, <4>2, <5>1
        <4>3. QED
          BY <4>1, <4>2
      <3>7. QED
        BY <3>2, <3>5, <3>6 DEF Stream!Prefix
    <2>3. CASE Stream!Finish \/ UNCHANGED Stream!streamVars
      BY <2>3 DEF Stream!Finish, Stream!streamVars, Stream!Prefix
    <2>4. QED
      BY <2>1, <2>2, <2>3 DEF Stream!StreamNext
  <1>3. QED
    BY <1>1, <1>2, PTL DEF Stream!StreamSpec

\* What recv delivers is, byte for byte, what send queued, from the first on,
\* whatever the sizes of the messages and of the buffers and however the calls
\* interleave (util.c:466-480, util.c:526-589).
THEOREM ReceivedInOrder ==
    Spec => [](Len(out) <= queued /\ \A k \in 1..Len(out) : out[k] = k)
  <1>1. Stream!Prefix => Len(out) <= queued /\ \A k \in 1..Len(out) : out[k] = k
    BY DEF Stream!Prefix
  <1>2. QED
    BY <1>1, ChannelIsByteStream, StreamIsRead, PTL DEF StreamRefinement
============================================================================
