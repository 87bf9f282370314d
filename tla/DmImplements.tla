---------------------------- MODULE DmImplements ----------------------------
(* DmChannel implements DmPromise: a slot is filled when seal returns its   *)
(* frame, and emptied into the receiver when open returns a plaintext.      *)
EXTENDS DmChannel

content(m) == [epoch |-> m.frame.epoch, index |-> m.frame.index, msg |-> m.frame.body.msg]

Promise == INSTANCE DmPromise WITH
    Host     <- Party,
    Peer     <- [p \in Party |-> peer(p)],
    sealed   <- [p \in Party |-> {content(m) : m \in {n \in net : n.from = p}}],
    received <- opened

\* dm_session.rs: "index-addressable ... loss/reorder tolerant".  Every step of
\* the sessions, the transport, restarts and failed calls included, is a step
\* of the promise or invisible in it: slots are filled strictly forwards, and
\* open only ever hands out what the peer sealed in that very slot before.
PromiseKept == Promise!Spec
=============================================================================
