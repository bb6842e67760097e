---------------------------- MODULE ByteStream ----------------------------
(***************************************************************************)
(* What one direction of a connection promises: a stream of bytes that is  *)
(* read in the order it was written, without gap or repetition, and never  *)
(* again once the reader's socket is finished.  The bytes written are      *)
(* 1, 2, 3, ...                                                            *)
(***************************************************************************)
EXTENDS Integers, Sequences

VARIABLES
    written,   \* how many bytes were written
    read,      \* the bytes that were read
    finished   \* the reader saw the end, or closed

streamVars == <<written, read, finished>>

StreamInit == written = 0 /\ read = <<>> /\ finished = FALSE

\* Any number of bytes is written.
Write ==
    /\ written' \in Nat /\ written' >= written
    /\ UNCHANGED <<read, finished>>

\* A read returns the next bytes that were not read yet.
Read ==
    /\ ~finished
    /\ \E n \in 0..(written - Len(read)) :
         read' = read \o [k \in 1..n |-> Len(read) + k]
    /\ UNCHANGED <<written, finished>>

Finish == finished' = TRUE /\ UNCHANGED <<written, read>>

StreamNext == Write \/ Read \/ Finish

StreamSpec == StreamInit /\ [][StreamNext]_streamVars

\* What the reader has is what was written, from the first byte on.
Prefix ==
    /\ written \in Nat /\ read \in Seq(Nat)
    /\ Len(read) <= written
    /\ \A k \in 1..Len(read) : read[k] = k
===========================================================================
