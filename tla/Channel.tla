------------------------------ MODULE Channel ------------------------------
(***************************************************************************)
(* One direction of an open connection: send, sendmsg, recv and close of   *)
(* socket.c over sendConnection, recvConnection and closeConnection of     *)
(* util.c.  The sender appends packets to a list in shared memory (its     *)
(* sendBuffer, the receiver's recvBuffer); the receiver takes them off,    *)
(* whole or in fragments.  No lock spans a call: the test of connState and *)
(* the list operation it guards are separate steps.                        *)
(*                                                                         *)
(* Abstractions: a byte is its position in the stream; closing is one step *)
(* (its races are the subject of Connection); the opposite direction shows *)
(* only where it closes a socket (ReceiverSend, SenderRecv).               *)
(***************************************************************************)
EXTENDS Integers, Sequences

CONSTANTS
    Messages,   \* what the application sends: a sequence of lengths, one for
                \* send, several for the msg_iov of sendmsg
    RecvLens,   \* the buffer lengths it receives into
    MaxSent,    \* bound: no send starts when this many bytes were queued
    MaxPackets  \* bound: nor when this many packets are in the list

ASSUME MessagesAssumption == Messages \subseteq Seq(Nat) \ {<<>>}
ASSUME RecvLensAssumption == RecvLens \subseteq Nat
ASSUME BoundsAssumption == MaxSent \in Nat /\ MaxPackets \in Nat

VARIABLES
    connState,   \* "open" or "close"
    buffer,      \* the list of packets
    queued,      \* how many bytes were put into packets
    sfd,         \* state of the sender's socket
    s,           \* the sender's call: step, lengths left, bytes done
    reported,    \* how many bytes send and sendmsg returned to the application
    failed,      \* history: a sendmsg failed after it had sent a part
    rfd,         \* state of the receiver's socket
    r,           \* the receiver's call: step, buffer length, non-blocking
    ended,       \* history: when recv last looked, the list was empty and the
                 \* connection closed
    eof,         \* recv returned the end of the stream
    out          \* the bytes received

vars == <<connState, buffer, queued, sfd, s, reported, failed, rfd, r, ended,
          eof, out>>

senderVars   == <<sfd, s, reported, failed>>
receiverVars == <<rfd, r, ended, eof, out>>

FdStates == {"open", "close", "gone"}
Packet   == [base : Nat, offset : Nat, datasize : Nat]

SIdle == [at |-> "idle", iov |-> <<>>, done |-> 0]
RIdle == [at |-> "idle", len |-> 0, nonblock |-> FALSE]

Init ==
    /\ connState = "open" /\ buffer = <<>> /\ queued = 0
    /\ sfd = "open" /\ s = SIdle /\ reported = 0 /\ failed = FALSE
    /\ rfd = "open" /\ r = RIdle /\ ended = FALSE /\ eof = FALSE /\ out = <<>>

---------------------------------------------------------------------------
(* The sender                                                             *)

SendStart ==
    /\ sfd = "open" /\ s.at = "idle"
    /\ queued < MaxSent /\ Len(buffer) < MaxPackets
    /\ \E m \in Messages : s' = [at |-> "test", iov |-> m, done |-> 0]
    /\ UNCHANGED <<connState, buffer, queued, sfd, reported, failed>>
    /\ UNCHANGED receiverVars

\* send: a closed connection makes the call, and the socket, fail.
SendTest ==
    /\ s.at = "test"
    /\ IF connState = "close"
         THEN /\ sfd' = "close"
              /\ failed' = (failed \/ s.done > 0)
              /\ s' = SIdle
         ELSE /\ s' = [s EXCEPT !.at = "append"]
              /\ UNCHANGED <<sfd, failed>>
    /\ UNCHANGED <<connState, buffer, queued, reported>>
    /\ UNCHANGED receiverVars

\* Mutant of SendAppend: the bytes of the last piece only are reported.
SendAppendReportsLast ==
    /\ s.at = "append"
    /\ LET n    == Head(s.iov)
           left == Tail(s.iov)
       IN  /\ buffer' = Append(buffer, [base |-> queued, offset |-> 0, datasize |-> n])
           /\ queued' = queued + n
           /\ IF left = <<>>
                THEN s' = SIdle /\ reported' = reported + n
                ELSE /\ s' = [at |-> "test", iov |-> left, done |-> s.done + n]
                     /\ UNCHANGED reported
    /\ UNCHANGED <<connState, sfd, failed>>
    /\ UNCHANGED receiverVars

\* sendConnection: one packet for the piece; sendmsg goes on with the next.
SendAppend ==
    /\ s.at = "append"
    /\ LET n    == Head(s.iov)
           left == Tail(s.iov)
       IN  /\ buffer' = Append(buffer, [base |-> queued, offset |-> 0, datasize |-> n])
           /\ queued' = queued + n
           /\ IF left = <<>>
                THEN s' = SIdle /\ reported' = reported + s.done + n
                ELSE /\ s' = [at |-> "test", iov |-> left, done |-> s.done + n]
                     /\ UNCHANGED reported
    /\ UNCHANGED <<connState, sfd, failed>>
    /\ UNCHANGED receiverVars

\* A recv of the sender finds the connection closed.
SenderRecv ==
    /\ sfd = "open" /\ s.at = "idle"
    /\ connState = "close"
    /\ sfd' = "close"
    /\ UNCHANGED <<connState, buffer, queued, s, reported, failed>>
    /\ UNCHANGED receiverVars

\* closeConnection: the first to close marks the connection, the second
\* removes it with the packets nobody received.
CloseConnection ==
    /\ connState' = "close"
    /\ buffer' = IF connState = "close" THEN <<>> ELSE buffer
    /\ UNCHANGED queued

SenderClose ==
    /\ sfd # "gone" /\ s.at = "idle"
    /\ sfd' = "gone"
    /\ CloseConnection
    /\ UNCHANGED <<s, reported, failed>>
    /\ UNCHANGED receiverVars

---------------------------------------------------------------------------
(* The receiver                                                           *)

RecvStart ==
    /\ rfd = "open" /\ r.at = "idle"
    /\ \E len \in RecvLens, nb \in BOOLEAN :
         r' = [at |-> "look", len |-> len, nonblock |-> nb]
    /\ UNCHANGED <<connState, buffer, queued, rfd, ended, eof, out>>
    /\ UNCHANGED senderVars

\* Mutant of RecvLook: a list of one packet counts as empty.
RecvLookOffByOne ==
    /\ r.at = "look"
    /\ r' = [r EXCEPT !.at = IF Len(buffer) <= 1 THEN "test" ELSE "take"]
    /\ ended' = (Len(buffer) <= 1 /\ connState = "close")
    /\ UNCHANGED <<connState, buffer, queued, rfd, eof, out>>
    /\ UNCHANGED senderVars

\* Mutant of RecvLook: the list is not looked at.
RecvLookBlind ==
    /\ r.at = "look"
    /\ r' = [r EXCEPT !.at = "take"]
    /\ ended' = (buffer = <<>> /\ connState = "close")
    /\ UNCHANGED <<connState, buffer, queued, rfd, eof, out>>
    /\ UNCHANGED senderVars

\* hasDataList.
RecvLook ==
    /\ r.at = "look"
    /\ r' = [r EXCEPT !.at = IF buffer = <<>> THEN "test" ELSE "take"]
    /\ ended' = (buffer = <<>> /\ connState = "close")
    /\ UNCHANGED <<connState, buffer, queued, rfd, eof, out>>
    /\ UNCHANGED senderVars

\* The bytes a recv into len bytes copies out of the packet.
Copied(packet, len) == IF len >= packet.datasize THEN packet.datasize ELSE len

\* Mutants of Rest: the offset is not advanced; the size left is not reduced.
RestKeepsOffset(packet, len) == [packet EXCEPT !.datasize = @ - len]
RestKeepsSize(packet, len)   == [packet EXCEPT !.offset = @ + len]

\* What is left of it.
Rest(packet, len) ==
    [packet EXCEPT !.offset = @ + len, !.datasize = @ - len]

\* recvConnection: the first packet, whole, or a fragment when the buffer is
\* too small.  Nothing copied (an empty packet, an empty buffer) counts as no
\* data.
RecvTake ==
    /\ r.at = "take"
    /\ LET packet == Head(buffer)
           n      == Copied(packet, r.len)
       IN  /\ out' = out \o [k \in 1..n |-> packet.base + packet.offset + k]
           /\ buffer' = IF r.len >= packet.datasize
                          THEN Tail(buffer)
                          ELSE <<Rest(packet, r.len)>> \o Tail(buffer)
           /\ r' = IF n = 0 THEN [r EXCEPT !.at = "test"] ELSE RIdle
    /\ UNCHANGED <<connState, queued, rfd, ended, eof>>
    /\ UNCHANGED senderVars

\* Mutant of RecvTest: a waiting recv does not test for a closed connection.
RecvTestIgnoresClose ==
    /\ r.at = "test"
    /\ r' = IF r.nonblock THEN RIdle ELSE [r EXCEPT !.at = "look"]
    /\ UNCHANGED <<connState, buffer, queued, rfd, ended, eof, out>>
    /\ UNCHANGED senderVars

\* recv without data: the end of the stream, EAGAIN, or sleep and look again.
RecvTest ==
    /\ r.at = "test"
    /\ IF connState = "close"
         THEN /\ rfd' = "close"
              /\ eof' = TRUE
              /\ r' = RIdle
         ELSE /\ r' = IF r.nonblock THEN RIdle ELSE [r EXCEPT !.at = "look"]
              /\ UNCHANGED <<rfd, eof>>
    /\ UNCHANGED <<connState, buffer, queued, ended, out>>
    /\ UNCHANGED senderVars

\* A send of the receiver finds the connection closed.
ReceiverSend ==
    /\ rfd = "open" /\ r.at = "idle"
    /\ connState = "close"
    /\ rfd' = "close"
    /\ UNCHANGED <<connState, buffer, queued, r, ended, eof, out>>
    /\ UNCHANGED senderVars

ReceiverClose ==
    /\ rfd # "gone" /\ r.at = "idle"
    /\ rfd' = "gone"
    /\ CloseConnection
    /\ UNCHANGED <<r, ended, eof, out>>
    /\ UNCHANGED senderVars

---------------------------------------------------------------------------
Sending   == SendTest \/ SendAppend
Receiving == RecvLook \/ RecvTake \/ RecvTest

Closed == sfd = "gone" /\ rfd = "gone"

\* Both sockets are closed: nothing is left to do.
Done == Closed /\ UNCHANGED vars

Next == \/ SendStart \/ Sending \/ SenderRecv \/ SenderClose
        \/ RecvStart \/ Receiving \/ ReceiverSend \/ ReceiverClose
        \/ Done

Spec == Init /\ [][Next]_vars

\* A call that has started is executed; calls are the application's affair.
FairSpec == Spec /\ WF_vars(Sending) /\ WF_vars(Receiving)

---------------------------------------------------------------------------
(* Properties                                                             *)

TypeOK ==
    /\ connState \in {"open", "close"}
    /\ buffer \in Seq(Packet)
    /\ queued \in Nat
    /\ sfd \in FdStates
    /\ s \in [at : {"idle", "test", "append"}, iov : Seq(Nat), done : Nat]
    /\ s.at # "idle" => s.iov # <<>> /\ sfd = "open"
    /\ reported \in Nat
    /\ failed \in BOOLEAN
    /\ rfd \in FdStates
    /\ r \in [at : {"idle", "look", "take", "test"}, len : Nat, nonblock : BOOLEAN]
    /\ r.at # "idle" => rfd = "open"
    /\ r.at = "take" => buffer # <<>>
    /\ ended \in BOOLEAN
    /\ eof \in BOOLEAN
    /\ out \in Seq(Nat)

First(packet) == packet.base + packet.offset
End(packet)   == packet.base + packet.offset + packet.datasize

\* The packets hold, in order and without gap, exactly the bytes that were
\* queued and not yet received, whatever the fragments (util.c:526-589); once
\* both have closed the list is gone.
Contiguous ==
    ~Closed =>
        /\ buffer = <<>> => Len(out) = queued
        /\ buffer # <<>> => First(Head(buffer)) = Len(out)
        /\ buffer # <<>> => End(buffer[Len(buffer)]) = queued
        /\ \A k \in 1..(Len(buffer) - 1) : End(buffer[k]) = First(buffer[k + 1])
        /\ \A k \in 1..Len(buffer) : End(buffer[k]) <= queued

\* One direction of a connection is a byte stream: bytes arrive in order, none
\* is lost in between, repeated or made up, and none after the end.
Stream == INSTANCE ByteStream WITH written <- queued, read <- out,
                                   finished <- rfd # "open"

StreamRefinement == Stream!StreamSpec

\* The end of the stream is complete when recv looked for data, and found none,
\* after the connection was closed: bytes are lost only if the sender sends and
\* closes between the look at the list and the test of connState
\* (socket.c:386-394), or if recv took an empty packet or has an empty buffer.
EofAfterCloseIsComplete == eof /\ ended => Len(out) = queued

\* What send and sendmsg reported is what was queued, unless a sendmsg was cut
\* short by the receiver's close after some of its pieces (socket.c:577-588).
ReportedIsQueued == s.at = "idle" /\ ~failed => reported = queued

\* A recv with room for a byte that waits returns once there are bytes, or once
\* the connection is closed.
WaitingRecvReturns ==
    (r.at # "idle" /\ r.len > 0 /\ (Len(out) < queued \/ connState = "close"))
        ~> r.at = "idle"

\* util.c:500-501: closing deletes nothing yet, "the other can still receive":
\* the end of the stream comes after all its bytes.
EofMeansDrained == eof => Len(out) = queued
===========================================================================
