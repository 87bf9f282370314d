----------------------------- MODULE DmDelivery -----------------------------
(***************************************************************************)
(* What the KAM repetition of dm_session.rs is for.  The transport loses   *)
(* some of the frames that carry an epoch's KAM, never all of them, and    *)
(* hands over the others, again if open found no secret for them yet.      *)
(***************************************************************************)
EXTENDS DmChannel

CONSTANTS
    MaxEpoch,  \* bound: epochs fairness speaks of; the draws allow no more
    MaxIndex,  \* bound: indices fairness speaks of, RekeyMsgBound - 1
    MayLose    \* the <<epoch, index>> slots whose frames may be lost

\* Of every epoch at least one frame that carries the KAM gets through.
ASSUME LossAssumption ==
    /\ MayLose \subseteq (0 .. MaxEpoch) \X (0 .. KAM_REPEAT - 1)
    /\ \A e \in 0 .. MaxEpoch : \E i \in 0 .. KAM_REPEAT - 1 : <<e, i>> \notin MayLose

Slots == (0 .. MaxEpoch) \X (0 .. MaxIndex)

\* The undamaged frame of a slot is handed to its receiver.
DeliverSlot(p, slot) ==
    \E m \in net : /\ m.from = peer(p)
                   /\ m.frame.epoch = slot[1] /\ m.frame.index = slot[2]
                   /\ Open(p, m, m.frame)

\* The host keeps offering a frame until it opens; open takes the frame by
\* reference and a failed open leaves it usable.
Fairness ==
    \A p \in Party : \A slot \in Slots \ MayLose : WF_vars(DeliverSlot(p, slot))

FairSpec == Spec /\ Fairness

HasOpened(p, slot) == \E o \in opened[p] : <<o.epoch, o.index>> = slot

Sealed(p, slot) ==
    \E m \in net : m.from = p /\ <<m.frame.epoch, m.frame.index>> = slot

\* KAM_REPEAT: "so a lost/reordered first frame over a reliable transport
\* doesn't strand the epoch".  Every frame the transport does not lose is
\* eventually opened, although some of the KAMs of its epoch never arrive and
\* frames may come before the KAM that opens them.
LateFramesOpen ==
    \A p \in Senders : \A slot \in Slots \ MayLose :
        Sealed(p, slot) ~> HasOpened(peer(p), slot)
=============================================================================
