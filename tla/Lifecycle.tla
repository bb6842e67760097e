----------------------------- MODULE Lifecycle -----------------------------
(***************************************************************************)
(* What the life of a connection promises to the two processes that share  *)
(* it: one offers it, the other accepts it once, each leaves it once, and  *)
(* its memory is released once, by a process that is then the only one to  *)
(* have it.  Between reading that nobody accepted or closed a connection   *)
(* and acting on it the code lets the other process in; what follows is    *)
(* named here: two that leave at once leave the connection behind, and an  *)
(* accept that crosses a withdrawal breaks the promise.                    *)
(***************************************************************************)
CONSTANTS Procs, Conns

VARIABLES
    phase,    \* phase[c]: what became of connection c
    ends,     \* ends[c]: the processes that have a socket on c
    broken    \* an accept crossed a withdrawal

lifeVars == <<phase, ends, broken>>

Phases == {"none", "offered", "open", "closed"}

LifeInit ==
    /\ phase = [c \in Conns |-> "none"]
    /\ ends = [c \in Conns |-> {}]
    /\ broken = FALSE

Becomes(c, ph, e) ==
    /\ phase' = [phase EXCEPT ![c] = ph]
    /\ ends' = [ends EXCEPT ![c] = e]
    /\ UNCHANGED broken

Offer(p, c) ==
    /\ phase[c] = "none" /\ ends[c] = {}
    /\ Becomes(c, "offered", {p})

Accept(p, c) ==
    /\ phase[c] = "offered" /\ p \notin ends[c]
    /\ Becomes(c, "open", ends[c] \union {p})

\* The first to close leaves the rest to the other.  If the other leaves too,
\* instead of releasing the connection, nobody has it and it stays closed.
Leave(p, c) ==
    /\ phase[c] \in {"open", "closed"} /\ p \in ends[c]
    /\ Becomes(c, "closed", ends[c] \ {p})

\* The last to close releases the connection, and so does a process that
\* takes back its offer.
Release(p, c) ==
    /\ phase[c] \in {"offered", "closed"} /\ ends[c] = {p}
    /\ Becomes(c, "none", {})

Cross == broken' = TRUE /\ UNCHANGED <<phase, ends>>

Anything ==
    /\ broken /\ UNCHANGED broken
    /\ phase' \in [Conns -> Phases]
    /\ ends' \in [Conns -> SUBSET Procs]

LifeNext ==
    \/ /\ ~broken
       /\ \/ Cross
          \/ \E p \in Procs, c \in Conns :
               Offer(p, c) \/ Accept(p, c) \/ Leave(p, c) \/ Release(p, c)
    \/ Anything

LifeSpec == LifeInit /\ [][LifeNext]_lifeVars
===========================================================================
