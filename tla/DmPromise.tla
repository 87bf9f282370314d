------------------------------ MODULE DmPromise ------------------------------
(***************************************************************************)
(* What a pair of DM sessions promises, without keys, frames, snapshots or *)
(* a clock.  Each host fills slots (epoch, index), always a later one than *)
(* before; its peer gets, in any order and as often as the transport likes,*)
(* what was put in a slot, and nothing else.                               *)
(***************************************************************************)
EXTENDS Naturals

CONSTANTS Host, Peer     \* Peer[p] is the host p talks to

VARIABLES
    sealed,    \* per host, what it has put in which slot
    received   \* per host, what it has got out of its peer's slots

vars == <<sealed, received>>

Before(q, r) == q.epoch < r.epoch \/ (q.epoch = r.epoch /\ q.index < r.index)

Init ==
    /\ sealed = [p \in Host |-> {}]
    /\ received = [p \in Host |-> {}]

\* r is the one thing the step adds: a later slot than all those before it.
Put(p) ==
    \E r \in sealed'[p] :
        /\ \A q \in sealed[p] : Before(q, r)
        /\ sealed' = [sealed EXCEPT ![p] = @ \cup {r}]
        /\ UNCHANGED received

Get(p) ==
    \E r \in sealed[Peer[p]] :
        /\ received' = [received EXCEPT ![p] = @ \cup {r}]
        /\ UNCHANGED sealed

Next == \E p \in Host : Put(p) \/ Get(p)

Spec == Init /\ [][Next]_vars
=============================================================================
