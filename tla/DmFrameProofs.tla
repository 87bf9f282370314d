--------------------------- MODULE DmFrameProofs ----------------------------
(***************************************************************************)
(* What becomes of frames: that those of an epoch whose KAM was seen open, *)
(* in a session used in one direction; what DmChannel guarantees of        *)
(* frames, secrets and key-agreement messages even when both hosts seal    *)
(* and a host comes back with an old snapshot; and what a client on a      *)
(* binding reads out of them.                                              *)
(***************************************************************************)
EXTENDS DmChannelProofs, DmBindings

-----------------------------------------------------------------------------
(* Seen epochs open *)

\* The secret inside a KAM.
LEMMA WrappedSecret ==
    ASSUME NEW secret, NEW k, NEW r
    PROVE  wrap_dm_epoch_secret(secret, public_key(k), r).wrapped.msg = secret
BY DEF wrap_dm_epoch_secret, public_key, encrypt

\* Without damage to epoch fields, a frame arrives under its own epoch, and if
\* it has a KAM it is the sealed one as far as the secret inside goes.
LEMMA ArrivalKeeps ==
    ASSUME NEW g \in SealedDmFrame, NEW f \in Arrivals(g), "epoch" \notin DamageKinds
    PROVE  /\ f.epoch = g.epoch
           /\ f.kam # None => g.kam # None /\ f.kam.wrapped.msg = g.kam.wrapped.msg
<1>1. CASE f = g
  BY <1>1
<1>2. CASE f # g
  <2>1. PICK kind \in DamageKinds : /\ kind \in {"kam_ct", "kam_len"} => g.kam # None
                                    /\ f = Damaged(g, kind)
    BY <1>2 DEF Arrivals
  <2>2. kind \in AllDamage /\ kind # "epoch"
    BY DamageAssumption
  <2>3. CASE kind = "body"
    BY <2>1, <2>3 DEF Damaged, SealedDmFrame
  <2>4. CASE kind = "index"
    BY <2>1, <2>4 DEF Damaged, SealedDmFrame
  <2>5. CASE kind = "kam_ct"
    <3>1. g.kam \in Kam /\ g.kam # None
      BY <2>1, <2>5 DEF SealedDmFrame
    <3>. QED
      BY <2>1, <2>5, <3>1 DEF Damaged, SealedDmFrame, Kam
  <2>6. CASE kind = "kam_len"
    <3>1. g.kam \in Kam /\ g.kam # None
      BY <2>1, <2>6 DEF SealedDmFrame
    <3>. QED
      BY <2>1, <2>6, <3>1 DEF Damaged, SealedDmFrame, Kam
  <2>7. CASE kind = "nonce"
    BY <2>1, <2>7 DEF Damaged, SealedDmFrame
  <2>. QED
    BY <2>2, <2>3, <2>4, <2>5, <2>6, <2>7 DEF AllDamage
<1>. QED
  BY <1>1, <1>2

\* Wrappings stay wrappings as more is drawn.
LEMMA WrapsMonotone ==
    ASSUME NEW kam, NEW secret, NEW n \in Nat, NEW o \in Nat, n <= o, Wraps(kam, secret, n)
    PROVE  Wraps(kam, secret, o)
BY DEF Wraps

LEMMA SealedMonotone ==
    ASSUME NEW f, NEW secret, NEW n \in Nat, NEW o \in Nat, n <= o, SealedUnder(f, secret, n)
    PROVE  SealedUnder(f, secret, o)
BY WrapsMonotone DEF SealedUnder

LEMMA InitSeenInv == Init => SeenInv
<1>. SUFFICES ASSUME Init PROVE SeenInv
  OBVIOUS
<1>1. net = {} /\ rng = 2
  BY DEF Init
<1>2. \A p \in Party : /\ session[p].ratchet = None
                       /\ DOMAIN session[p].epoch_secrets = {}
                       /\ kamSeen[p] = {}
                       /\ published[p] \subseteq 1 .. 2
  BY DEF Init, with_bounds
<1>3. \A p \in Senders : p \in Party /\ peer(p) \in Party
  BY PartyAssumption DEF peer, Party
<1>. QED
  BY <1>1, <1>2, <1>3 DEF SeenInv, OneWay, NoFutureEpoch, FramesFiled, KamCurrent,
                          ReceiverAgrees, SeenIsFiled

\* A frame of an epoch whose secret is filed, and filed right, opens.
LEMMA FiledFrameOpens ==
    ASSUME NEW s, NEW f \in SealedDmFrame, NEW key, NEW n,
           f.epoch \in DOMAIN s.epoch_secrets,
           SealedUnder(f, s.epoch_secrets[f.epoch], n)
    PROVE  open_outcome(s, f, key) = "Ok"
<1>1. kam_secret(s, f, key) = [seen |-> FALSE, secret |-> None]
  BY DEF kam_secret
<1>2. open_session(s, f, key) = s
  BY <1>1 DEF open_session
<1>3. f.nonce.len = FRAME_NONCE_LEN
  BY DEF SealedUnder
<1>4. open_body(s, f) = f.body.msg
  BY DEF open_body, SealedUnder, encrypt, decrypt, derive_dm_message_key, frame_aad
<1>5. f.body.msg # None
  BY NoneAssumption DEF SealedDmFrame
<1>. QED
  BY <1>1, <1>2, <1>3, <1>4, <1>5 DEF open_outcome

LEMMA SeenInvSuffices == TypeInv /\ SeenInv => SeenEpochOpens
<1>. SUFFICES ASSUME TypeInv, SeenInv, NEW p \in Party, NEW m \in net,
                     m.from = peer(p), m.frame.epoch \in kamSeen[p]
              PROVE  open_outcome(session[p], m.frame, private_key(hybridKey[p])) = "Ok"
  BY DEF SeenEpochOpens
<1>. DEFINE e == m.frame.epoch
<1>1. m.frame \in SealedDmFrame
  BY DEF TypeInv, TypeOK
<1>2. e \in DOMAIN session[p].epoch_secrets
  BY DEF SeenInv, SeenIsFiled
<1>3. m.from \in Senders /\ peer(m.from) = p
  BY PartyAssumption DEF SeenInv, OneWay, peer, Party
<1>4. session[p].epoch_secrets[e] = session[m.from].epoch_secrets[e]
  BY <1>2, <1>3 DEF SeenInv, ReceiverAgrees
<1>5. SealedUnder(m.frame, session[p].epoch_secrets[e], rng)
  BY <1>4 DEF SeenInv, FramesFiled
<1>. QED
  BY <1>1, <1>2, <1>5, FiledFrameOpens

\* The session s that sender p takes its next key from, against its session
\* before: no filed secret has changed, and the newest epoch is the ratchet's.
StoreForSeal(p, s) ==
    /\ \A e \in DOMAIN session[p].epoch_secrets :
           e \in DOMAIN s.epoch_secrets /\ s.epoch_secrets[e] = session[p].epoch_secrets[e]
    /\ \A e \in DOMAIN s.epoch_secrets : e <= s.ratchet.epoch
    /\ s.ratchet.epoch \in DOMAIN s.epoch_secrets
    /\ s.epoch_secrets[s.ratchet.epoch] = s.ratchet.epoch_secret
    /\ Wraps(s.current_kam, s.ratchet.epoch_secret, rng + 2)

\* What inserting into a map does.
LEMMA InsertDomain ==
    ASSUME NEW m, NEW k, NEW v
    PROVE  DOMAIN insert(m, k, v) = DOMAIN m \cup {k}
BY DEF insert

LEMMA InsertNew ==
    ASSUME NEW m, NEW k, NEW v
    PROVE  insert(m, k, v)[k] = v
BY DEF insert

LEMMA InsertOld ==
    ASSUME NEW m, NEW k, NEW v, NEW x \in DOMAIN m, x # k
    PROVE  insert(m, k, v)[x] = m[x]
BY DEF insert

LEMMA SealStore ==
    ASSUME TypeInv, SeenInv, NEW p \in Senders, NEW k \in published[peer(p)]
    PROVE  StoreForSeal(p, EpochFor(p, k).session)
<1>. DEFINE o == session[p]
            s == EpochFor(p, k).session
            e == begin_at(o, clock)
            Begun == /\ s.ratchet.epoch_secret = rng + 1
                     /\ s.ratchet.epoch = e
                     /\ s.epoch_secrets = insert(o.epoch_secrets, e, rng + 1)
                     /\ s.current_kam = wrap_dm_epoch_secret(rng + 1, public_key(k), rng + 1)
                     /\ e = IF o.ratchet = None THEN 0 ELSE o.ratchet.epoch + 1
<1>1. p \in Party /\ peer(p) \in Party
  BY PartyAssumption DEF peer, Party
<1>2. k \in Nat /\ k \in 1 .. rng
  BY <1>1, PublishedKeys DEF SeenInv, KamCurrent
<1>3. IsSession(o) /\ Coherent(o) /\ rng \in Nat /\ rng + 1 \in Nat /\ clock \in Nat
  BY <1>1 DEF TypeInv, TypeOK, AllCoherent
<1>4. IsSession(s) /\ Coherent(s) /\ s.ratchet \in Ratchet
  BY <1>1, <1>2, EpochForSealing
<1>5. s = o \/ Begun
  BY <1>1, <1>2, EpochForSealing DEF Ensured
<1>6. s.ratchet # None
  BY <1>4, NoneIsNoValue
<1>. HIDE DEF s, o
<1>7. ASSUME s = o
      PROVE  StoreForSeal(p, s)
  <2>1. Wraps(s.current_kam, s.ratchet.epoch_secret, rng)
    BY <1>6, <1>7 DEF SeenInv, KamCurrent, o
  <2>2. Wraps(s.current_kam, s.ratchet.epoch_secret, rng + 2)
    BY <1>3, <2>1, WrapsMonotone
  <2>3. \A x \in DOMAIN s.epoch_secrets : x <= s.ratchet.epoch
    BY <1>7 DEF SeenInv, NoFutureEpoch, o
  <2>. QED
    BY <1>4, <1>6, <1>7, <2>2, <2>3 DEF StoreForSeal, Coherent, o
<1>8. ASSUME Begun
      PROVE  StoreForSeal(p, s)
  <2>1. e \in Nat
    <3>1. CASE o.ratchet = None
      BY <1>8, <3>1
    <3>2. CASE o.ratchet # None
      BY <1>3, <1>8, <3>2 DEF IsSession, Ratchet
    <3>. QED
      BY <3>1, <3>2
  <2>2. \A x \in DOMAIN o.epoch_secrets : x \in Nat /\ x < e
    <3>1. \A x \in DOMAIN o.epoch_secrets : o.ratchet # None /\ x <= o.ratchet.epoch
      BY DEF SeenInv, NoFutureEpoch, o
    <3>2. DOMAIN o.epoch_secrets \subseteq Nat
      BY <1>3 DEF IsSession, IsSecretMap
    <3>3. o.ratchet # None => o.ratchet.epoch \in Nat
      BY <1>3 DEF IsSession, Ratchet
    <3>. QED
      BY <1>8, <3>1, <3>2, <3>3
  <2>3. Wraps(s.current_kam, s.ratchet.epoch_secret, rng + 2)
    BY <1>2, <1>3, <1>8 DEF Wraps
  <2>4. s.epoch_secrets = insert(o.epoch_secrets, e, rng + 1) /\ s.ratchet.epoch = e
           /\ s.ratchet.epoch_secret = rng + 1
    BY <1>8
  <2>. HIDE DEF e
  <2>6. DOMAIN s.epoch_secrets = DOMAIN o.epoch_secrets \cup {e}
    <3>1. DOMAIN insert(o.epoch_secrets, e, rng + 1) = DOMAIN o.epoch_secrets \cup {e}
      BY InsertDomain
    <3>. QED
      BY <2>4, <3>1
  <2>7. s.epoch_secrets[e] = rng + 1
    BY <2>4, InsertNew
  <2>8. \A x \in DOMAIN o.epoch_secrets : s.epoch_secrets[x] = o.epoch_secrets[x]
    <3>1. \A x \in DOMAIN o.epoch_secrets : x # e
      BY <2>1, <2>2
    <3>. QED
      BY <2>4, <3>1, InsertOld
  <2>5. \A x \in DOMAIN s.epoch_secrets : x <= s.ratchet.epoch
    BY <2>1, <2>2, <2>4, <2>6
  <2>. QED
    BY <2>3, <2>4, <2>5, <2>6, <2>7, <2>8 DEF StoreForSeal, o
<1>. QED
  BY <1>5, <1>7, <1>8 DEF s

\* A seal, whether its frame gets out or not.
LEMMA SealKeepsSeen ==
    ASSUME TypeInv, SeenInv, OneSender, NEW p \in Senders, NEW k \in published[peer(p)],
           session' = [session EXCEPT ![p] = sealed_session(EpochFor(p, k).session)],
           rng' = rng + 2, published' = published, kamSeen' = kamSeen,
           NEW f, f = sealed_frame(EpochFor(p, k).session, rng + 2, rng + 2),
           \A m \in net' : m \in net \/ (m.from = p /\ m.frame = f)
    PROVE  SeenInv'
<1>. DEFINE o == session[p]
            s == EpochFor(p, k).session
            t == sealed_session(s)
            q == peer(p)
<1>1. /\ p \in Party /\ q \in Party /\ q # p
      /\ \A x \in Party : x = p \/ x = q
      /\ \A x \in Senders : x = p
      /\ \A x \in Party : x = p <=> x \in Senders
  BY PartyAssumption DEF peer, Party, OneSender
<1>2. k \in Nat
  BY <1>1, PublishedKeys
<1>3. IsSession(s) /\ Coherent(s) /\ s.ratchet \in Ratchet
  BY <1>1, <1>2, EpochForSealing
<1>4. StoreForSeal(p, s)
  BY SealStore
<1>5. rng \in Nat /\ rng + 2 \in Nat /\ rng <= rng + 2 /\ DOMAIN session = Party
  BY DEF TypeInv, TypeOK
<1>6. session'[p] = t /\ session'[q] = session[q]
  BY <1>1, <1>5
<1>7. /\ f.epoch = s.ratchet.epoch
      /\ f.nonce = [len |-> FRAME_NONCE_LEN, val |-> rng + 2]
      /\ f.body = encrypt(<<s.ratchet.epoch_secret, f.epoch, f.index>>, rng + 2,
                          <<f.epoch, f.index>>, rng + 2)
      /\ f.kam \in {None, s.current_kam}
  BY <1>3, <1>5, SealedFrame
<1>8. /\ t.ratchet = [s.ratchet EXCEPT !.message_index = @ + 1]
      /\ t.ratchet # None
      /\ t.epoch_secrets = s.epoch_secrets
      /\ t.current_kam = s.current_kam
  BY <1>3, SealedSession
<1>9. t.ratchet.epoch = s.ratchet.epoch /\ t.ratchet.epoch_secret = s.ratchet.epoch_secret
  BY <1>3, <1>8 DEF Ratchet
<1>10. SealedUnder(f, s.ratchet.epoch_secret, rng + 2)
  <2>1. f.nonce.len = FRAME_NONCE_LEN /\ f.nonce.val = rng + 2
    BY <1>7
  <2>2. f.body.msg = rng + 2
    BY <1>7 DEF encrypt
  <2>3. f.kam # None => Wraps(f.kam, s.ratchet.epoch_secret, rng + 2)
    BY <1>4, <1>7 DEF StoreForSeal
  <2>. QED
    BY <1>7, <2>1, <2>2, <2>3 DEF SealedUnder
<1>. HIDE DEF s, t, q
<1>11. OneWay'
  BY <1>1, <1>6 DEF SeenInv, OneWay
<1>12. NoFutureEpoch'
  BY <1>1, <1>4, <1>6, <1>8, <1>9 DEF StoreForSeal, NoFutureEpoch
<1>13. FramesFiled'
  <2>. SUFFICES ASSUME NEW m \in net'
                PROVE  /\ m.frame.epoch \in DOMAIN session'[m.from].epoch_secrets
                       /\ SealedUnder(m.frame, session'[m.from].epoch_secrets[m.frame.epoch], rng + 2)
    BY DEF FramesFiled
  <2>1. CASE m \in net
    <3>1. m.from = p
      BY <1>1, <2>1 DEF SeenInv, OneWay
    <3>2. /\ m.frame.epoch \in DOMAIN o.epoch_secrets
          /\ SealedUnder(m.frame, o.epoch_secrets[m.frame.epoch], rng)
      BY <2>1, <3>1 DEF SeenInv, FramesFiled
    <3>3. SealedUnder(m.frame, o.epoch_secrets[m.frame.epoch], rng + 2)
      BY <1>5, <3>2, SealedMonotone
    <3>4. /\ m.frame.epoch \in DOMAIN s.epoch_secrets
          /\ s.epoch_secrets[m.frame.epoch] = o.epoch_secrets[m.frame.epoch]
      BY <1>4, <3>2 DEF StoreForSeal
    <3>. QED
      BY <1>6, <1>8, <3>1, <3>3, <3>4
  <2>2. CASE m.from = p /\ m.frame = f
    <3>1. /\ f.epoch \in DOMAIN s.epoch_secrets
          /\ s.epoch_secrets[f.epoch] = s.ratchet.epoch_secret
      BY <1>4, <1>7 DEF StoreForSeal
    <3>. QED
      BY <1>6, <1>8, <1>10, <2>2, <3>1
  <2>. QED
    BY <2>1, <2>2
<1>14. KamCurrent'
  <2>1. Wraps(t.current_kam, t.ratchet.epoch_secret, rng + 2)
    BY <1>4, <1>8, <1>9 DEF StoreForSeal
  <2>2. \A x \in Party : published[x] \subseteq 1 .. rng + 2
    BY <1>5 DEF SeenInv, KamCurrent
  <2>. QED
    BY <1>1, <1>6, <2>1, <2>2 DEF KamCurrent
<1>15. ReceiverAgrees'
  <2>1. \A e \in DOMAIN session[q].epoch_secrets :
           e \in DOMAIN o.epoch_secrets /\ session[q].epoch_secrets[e] = o.epoch_secrets[e]
    BY DEF SeenInv, ReceiverAgrees, q
  <2>2. \A e \in DOMAIN session[q].epoch_secrets :
           e \in DOMAIN t.epoch_secrets /\ session[q].epoch_secrets[e] = t.epoch_secrets[e]
    BY <1>4, <1>8, <2>1 DEF StoreForSeal
  <2>. QED
    BY <1>1, <1>6, <2>2 DEF ReceiverAgrees, q
<1>16. SeenIsFiled'
  <2>1. DOMAIN o.epoch_secrets \subseteq DOMAIN t.epoch_secrets
    BY <1>4, <1>8 DEF StoreForSeal
  <2>. QED
    BY <1>1, <1>6, <2>1 DEF SeenInv, SeenIsFiled
<1>. QED
  BY <1>11, <1>12, <1>13, <1>14, <1>15, <1>16 DEF SeenInv

\* A step that leaves the frames, the sessions and what was seen alone.
LEMMA SeenInvKept ==
    ASSUME SeenInv, TypeInv, net' = net, kamSeen' = kamSeen, rng' \in Nat, rng <= rng',
           \A p \in Party : session'[p] = session[p],
           \A p \in Party : published'[p] \subseteq 1 .. rng'
    PROVE  SeenInv'
<1>1. rng \in Nat
  BY DEF TypeInv, TypeOK
<1>2. /\ \A p \in Senders : p \in Party /\ peer(p) \in Party
      /\ \A m \in net : m.from \in Party
  BY PartyAssumption DEF peer, Party, TypeInv, TypeOK
<1>3. OneWay' /\ NoFutureEpoch' /\ SeenIsFiled'
  BY <1>2 DEF SeenInv, OneWay, NoFutureEpoch, SeenIsFiled
<1>4. ReceiverAgrees'
  BY <1>2 DEF SeenInv, ReceiverAgrees
<1>5. FramesFiled'
  BY <1>1, <1>2, SealedMonotone DEF SeenInv, FramesFiled
<1>6. KamCurrent'
  <2>1. ASSUME NEW p \in Senders, session[p].ratchet # None
        PROVE  Wraps(session[p].current_kam, session[p].ratchet.epoch_secret, rng')
    BY <1>1, <2>1, WrapsMonotone DEF SeenInv, KamCurrent
  <2>. QED
    BY <1>2, <2>1 DEF KamCurrent
<1>. QED
  BY <1>3, <1>4, <1>5, <1>6 DEF SeenInv
\* The session t of receiver p after an open, against its session before:
\* what is newly filed is the sender's secret for that epoch.
StoreAfterOpen(p, t) ==
    /\ t.ratchet = session[p].ratchet
    /\ \A e \in DOMAIN session[p].epoch_secrets : e \in DOMAIN t.epoch_secrets
    /\ \A e \in DOMAIN t.epoch_secrets :
           /\ e \in DOMAIN session[peer(p)].epoch_secrets
           /\ t.epoch_secrets[e] = session[peer(p)].epoch_secrets[e]

LEMMA OpenStore ==
    ASSUME TypeInv, SeenInv, "epoch" \notin DamageKinds, NEW p \in Party, peer(p) \in Senders,
           peer(peer(p)) = p, NEW m \in net, m.from = peer(p), NEW f \in Arrivals(m.frame),
           NEW key
    PROVE  StoreAfterOpen(p, open_session(session[p], f, key))
<1>. DEFINE o == session[p]
            t == open_session(o, f, key)
            q == peer(p)
            u == unwrap_dm_epoch_secret(f.kam, key)
<1>1. m.frame \in SealedDmFrame
  BY DEF TypeInv, TypeOK
<1>2. Arrived(f)
  BY <1>1, ArrivalTyped
<1>3. f.epoch = m.frame.epoch
  BY <1>1, ArrivalKeeps
<1>4. f.kam # None => m.frame.kam # None /\ f.kam.wrapped.msg = m.frame.kam.wrapped.msg
  BY <1>1, ArrivalKeeps
<1>5. IsSession(o) /\ Coherent(o)
  BY DEF TypeInv, TypeOK, AllCoherent
<1>6. t.ratchet = o.ratchet
  BY <1>2, <1>5, OpenSession
<1>7. \/ t = o
      \/ /\ f.kam # None
         /\ u \in Nat
         /\ t.epoch_secrets = insert(o.epoch_secrets, f.epoch, u)
  BY <1>2, <1>5, OpenSession
<1>8. \A e \in DOMAIN o.epoch_secrets :
         e \in DOMAIN session[q].epoch_secrets /\ o.epoch_secrets[e] = session[q].epoch_secrets[e]
  BY DEF SeenInv, ReceiverAgrees
<1>9. ASSUME t = o
      PROVE  StoreAfterOpen(p, t)
  BY <1>8, <1>9 DEF StoreAfterOpen
<1>10. ASSUME f.kam # None, u \in Nat, t.epoch_secrets = insert(o.epoch_secrets, f.epoch, u)
       PROVE  StoreAfterOpen(p, t)
  <2>1. /\ f.epoch \in DOMAIN session[q].epoch_secrets
        /\ SealedUnder(m.frame, session[q].epoch_secrets[f.epoch], rng)
    BY <1>3 DEF SeenInv, FramesFiled
  <2>2. Wraps(m.frame.kam, session[q].epoch_secrets[f.epoch], rng)
    BY <1>4, <1>10, <2>1 DEF SealedUnder
  <2>3. m.frame.kam.wrapped.msg = session[q].epoch_secrets[f.epoch]
    BY <2>2, WrappedSecret DEF Wraps
  <2>4. u \in {None, f.kam.wrapped.msg}
    BY UnwrapResult
  <2>5. u = session[q].epoch_secrets[f.epoch]
    BY <1>4, <1>10, <2>3, <2>4, NoneAssumption
  <2>. HIDE DEF u, t, q, o
  <2>6. DOMAIN t.epoch_secrets = DOMAIN o.epoch_secrets \cup {f.epoch}
    <3>1. DOMAIN insert(o.epoch_secrets, f.epoch, u) = DOMAIN o.epoch_secrets \cup {f.epoch}
      BY InsertDomain
    <3>. QED
      BY <1>10, <3>1
  <2>7. t.epoch_secrets[f.epoch] = u
    BY <1>10, InsertNew
  <2>8. \A e \in DOMAIN o.epoch_secrets : e # f.epoch => t.epoch_secrets[e] = o.epoch_secrets[e]
    BY <1>10, InsertOld
  <2>9. \A e \in DOMAIN t.epoch_secrets :
           e \in DOMAIN session[q].epoch_secrets /\ t.epoch_secrets[e] = session[q].epoch_secrets[e]
    BY <1>8, <2>1, <2>5, <2>6, <2>7, <2>8
  <2>. QED
    BY <1>6, <2>6, <2>9 DEF StoreAfterOpen, o, q
<1>. QED
  BY <1>7, <1>9, <1>10

\* A KAM that unwraps is filed, unless its epoch already has a secret.
LEMMA SeenKamIsFiled ==
    ASSUME NEW s, IsSession(s), NEW f, f.kam # None, NEW key,
           unwrap_dm_epoch_secret(f.kam, key) # None
    PROVE  f.epoch \in DOMAIN open_session(s, f, key).epoch_secrets
<1>. DEFINE k == kam_secret(s, f, key)
<1>1. CASE f.epoch \in DOMAIN s.epoch_secrets
  <2>1. k = [seen |-> FALSE, secret |-> None]
    BY <1>1 DEF kam_secret
  <2>. QED
    BY <1>1, <2>1 DEF open_session
<1>2. CASE f.epoch \notin DOMAIN s.epoch_secrets
  <2>1. k.secret = unwrap_dm_epoch_secret(f.kam, key)
    BY <1>2 DEF kam_secret
  <2>2. open_session(s, f, key) = [s EXCEPT !.epoch_secrets = insert(@, f.epoch, k.secret)]
    BY <2>1 DEF open_session
  <2>. HIDE DEF k
  <2>3. open_session(s, f, key).epoch_secrets = insert(s.epoch_secrets, f.epoch, k.secret)
    BY <2>2 DEF IsSession
  <2>4. DOMAIN insert(s.epoch_secrets, f.epoch, k.secret) = DOMAIN s.epoch_secrets \cup {f.epoch}
    BY InsertDomain
  <2>. QED
    BY <2>3, <2>4
<1>. QED
  BY <1>1, <1>2

LEMMA DeliverKeepsSeen ==
    ASSUME TypeInv, SeenInv, OneSender, "epoch" \notin DamageKinds, NEW p \in Party, Deliver(p)
    PROVE  SeenInv'
<1>1. PICK m \in net : m.from = peer(p) /\ \E f \in Arrivals(m.frame) : Open(p, m, f)
  BY DEF Deliver
<1>2. PICK f \in Arrivals(m.frame) : Open(p, m, f)
  BY <1>1
<1>. DEFINE o == session[p]
            key == private_key(hybridKey[p])
            t == open_session(o, f, key)
            q == peer(p)
<1>3. q \in Senders
  BY <1>1 DEF SeenInv, OneWay
<1>4. /\ peer(q) = p /\ q \in Party /\ q # p
      /\ p \notin Senders
      /\ \A x \in Party : x = p \/ x = q
      /\ \A x \in Senders : x = q
  BY <1>3, PartyAssumption DEF peer, Party, OneSender
<1>5. StoreAfterOpen(p, t)
  BY <1>1, <1>3, <1>4, OpenStore
<1>6. IsSession(o)
  BY DEF TypeInv, TypeOK
<1>7. /\ f.kam # None /\ unwrap_dm_epoch_secret(f.kam, key) # None
           => f.epoch \in DOMAIN t.epoch_secrets
  BY <1>6, SeenKamIsFiled
<1>8. DOMAIN session = Party /\ DOMAIN kamSeen = Party
  BY DEF TypeInv, TypeOK
<1>9. /\ session' = [session EXCEPT ![p] = t]
      /\ kamSeen' = IF f = m.frame /\ f.kam # None /\ unwrap_dm_epoch_secret(f.kam, key) # None
                    THEN [kamSeen EXCEPT ![p] = @ \cup {f.epoch}]
                    ELSE kamSeen
      /\ net' = net /\ rng' = rng /\ published' = published
  BY <1>2 DEF Open
<1>. HIDE DEF t, q, key
<1>10. session'[p] = t /\ session'[q] = session[q]
  BY <1>4, <1>8, <1>9
<1>11. OneWay'
  BY <1>4, <1>5, <1>9, <1>10 DEF SeenInv, OneWay, StoreAfterOpen
<1>12. NoFutureEpoch'
  BY <1>4, <1>10 DEF SeenInv, NoFutureEpoch
<1>13. FramesFiled'
  <2>1. \A n \in net : n.from = q
    BY <1>4 DEF SeenInv, OneWay
  <2>. QED
    BY <1>9, <1>10, <2>1 DEF SeenInv, FramesFiled
<1>14. KamCurrent'
  BY <1>4, <1>9, <1>10 DEF SeenInv, KamCurrent
<1>15. ReceiverAgrees'
  BY <1>4, <1>5, <1>10 DEF ReceiverAgrees, StoreAfterOpen, q
<1>16. SeenIsFiled'
  <2>1. kamSeen'[p] \subseteq DOMAIN t.epoch_secrets
    <3>1. kamSeen[p] \subseteq DOMAIN t.epoch_secrets
      BY <1>5 DEF SeenInv, SeenIsFiled, StoreAfterOpen
    <3>. QED
      BY <1>7, <1>8, <1>9, <3>1
  <2>2. kamSeen'[q] = kamSeen[q]
    BY <1>4, <1>8, <1>9
  <2>. QED
    BY <1>4, <1>10, <2>1, <2>2 DEF SeenInv, SeenIsFiled
<1>. QED
  BY <1>11, <1>12, <1>13, <1>14, <1>15, <1>16 DEF SeenInv

LEMMA NextSeenInv ==
    ASSUME ~StaleRestore, OneSender, "epoch" \notin DamageKinds
    PROVE  TypeInv /\ SeenInv /\ [Next]_vars => SeenInv'
<1>. SUFFICES ASSUME TypeInv, SeenInv, [Next]_vars PROVE SeenInv'
  OBVIOUS
<1>0. /\ rng \in Nat /\ rng <= rng /\ rng <= rng + 1 /\ rng + 1 \in Nat
      /\ \A p \in Party : published[p] \subseteq 1 .. rng
      /\ DOMAIN published = Party
  BY DEF TypeInv, TypeOK, SeenInv, KamCurrent
<1>1. ASSUME NEW p \in Senders, NEW k \in published[peer(p)], Seal(p, k)
      PROVE  SeenInv'
  <2>. DEFINE f == sealed_frame(EpochFor(p, k).session, rng + 2, rng + 2)
  <2>1. /\ session' = [session EXCEPT ![p] = sealed_session(EpochFor(p, k).session)]
        /\ rng' = rng + 2 /\ published' = published /\ kamSeen' = kamSeen
        /\ net' = net \cup {[from |-> p, at |-> clock, frame |-> f]}
    BY <1>1 DEF Seal
  <2>. HIDE DEF f
  <2>2. \A m \in net' : m \in net \/ (m.from = p /\ m.frame = f)
    BY <2>1
  <2>. QED
    BY <2>1, <2>2, SealKeepsSeen DEF f
<1>2. ASSUME NEW p \in Senders, NEW k \in published[peer(p)], SealEncryptFails(p, k)
      PROVE  SeenInv'
  <2>1. /\ session' = [session EXCEPT ![p] = sealed_session(EpochFor(p, k).session)]
        /\ rng' = rng + 2 /\ published' = published /\ kamSeen' = kamSeen /\ net' = net
    BY <1>2 DEF SealEncryptFails
  <2>. QED
    BY <2>1, SealKeepsSeen
<1>3. ASSUME NEW p \in Senders, SealRejected(p)
      PROVE  SeenInv'
  <2>1. ensure_epoch(session[p],
                     [public_key(hybridKey[peer(p)]) EXCEPT !.len = PUBLIC_KEY_LEN - 1],
                     rng + 1, clock).session = session[p]
    BY RejectedEpoch
  <2>2. /\ session' = [session EXCEPT ![p] = session[p]]
        /\ net' = net /\ rng' = rng /\ kamSeen' = kamSeen /\ published' = published
    BY <1>3, <2>1 DEF SealRejected
  <2>3. \A q \in Party : session'[q] = session[q]
    BY <2>2 DEF TypeInv, TypeOK
  <2>. QED
    BY <1>0, <2>2, <2>3, SeenInvKept
<1>4. ASSUME NEW p \in Party, Deliver(p)
      PROVE  SeenInv'
  BY <1>4, DeliverKeepsSeen
<1>5. ASSUME NEW p \in Party, Save(p)
      PROVE  SeenInv'
  BY <1>5 DEF Save
<1>6. ASSUME NEW p \in Party, Restart(p)
      PROVE  SeenInv'
  <2>1. \A q \in Party : session'[q] = session[q]
    BY <1>6, RestartKeepsSession
  <2>2. net' = net /\ rng' = rng /\ kamSeen' = kamSeen /\ published' = published
    BY <1>6 DEF Restart
  <2>. QED
    BY <1>0, <2>1, <2>2, SeenInvKept
<1>7. ASSUME NEW p \in Party, RotateKey(p)
      PROVE  SeenInv'
  <2>1. /\ net' = net /\ rng' = rng + 1 /\ kamSeen' = kamSeen /\ session' = session
        /\ published' = [published EXCEPT ![p] = @ \cup {rng + 1}]
    BY <1>7 DEF RotateKey
  <2>2. \A q \in Party : published'[q] \subseteq 1 .. rng'
    BY <1>0, <2>1
  <2>. QED
    BY <1>0, <2>1, <2>2, SeenInvKept
<1>8. CASE Tick
  BY <1>0, <1>8, SeenInvKept DEF Tick
<1>9. CASE UNCHANGED vars
  BY <1>0, <1>9, SeenInvKept DEF vars
<1>. QED
  BY <1>1, <1>2, <1>3, <1>4, <1>5, <1>6, <1>7, <1>8, <1>9 DEF Next

\* The promise of dm_session.rs, "a frame for any epoch whose KAM has been seen
\* opens", holds for a session used in one direction by hosts that restart from
\* their latest state, as long as no epoch field is altered on the way: for any
\* rekey bounds, losses, repetitions, reorderings, other damage and key changes.
THEOREM SeenEpochsOpen ==
    ASSUME ~StaleRestore, OneSender, "epoch" \notin DamageKinds
    PROVE  Spec => []SeenEpochOpens
<1>1. TypeInv /\ SeenInv /\ [Next]_vars => SeenInv'
  BY NextSeenInv
<1>. QED
  BY <1>1, InitSeenInv, SeenInvSuffices, TypeInvariance, PTL DEF Spec

-----------------------------------------------------------------------------
(* The invariant of frames under old snapshots *)

LEMMA InitFrameInv == Init => FrameInv
<1>. SUFFICES ASSUME Init PROVE FrameInv
  OBVIOUS
<1>. DEFINE s == with_bounds(RekeyMsgBound, RekeyAge)
<1>1. restore(snapshot(s)) = [ok |-> TRUE, session |-> s]
  BY FreshSession, RestoreOfSnapshot
<1>2. s.ratchet = None
  BY DEF with_bounds
<1>. HIDE DEF s
<1>3. net = {} /\ \A p \in Party : session[p] = s /\ disk[p] = snapshot(s)
  BY DEF Init, s
<1>4. \A p \in Party : \A t \in Held(p) : t.ratchet = None
  BY <1>1, <1>2, <1>3 DEF Held
<1>. QED
  BY <1>3, <1>4
     DEF FrameInv, RatchetsKnown, SecretsApart, FramesKnown, EpochIndependence, EpochBudget

\* What the provers need to know of the types here.
LEMMA FrameTypes ==
    ASSUME TypeInv
    PROVE  /\ rng \in Nat /\ clock \in Nat
           /\ \A p \in Party : peer(p) \in Party /\ published[p] \subseteq Nat
           /\ \A p \in Party : \A s \in Held(p) :
                 IsSession(s) /\ Coherent(s) /\ (s.ratchet # None => s.ratchet \in Ratchet)
           /\ \A m \in net : /\ m.from \in Party /\ m.at \in Nat
                             /\ m.frame.body.key[1] \in Nat
                             /\ m.frame.epoch \in Nat /\ m.frame.index \in Nat
<1>1. rng \in Nat /\ clock \in Nat /\ \A p \in Party : peer(p) \in Party /\ published[p] \subseteq Nat
  BY DEF TypeInv, TypeOK, peer, Party
<1>2. \A p \in Party : \A s \in Held(p) : IsSession(s) /\ Coherent(s)
  BY DEF TypeInv, TypeOK, AllCoherent, Held
<1>3. \A m \in net : m.from \in Party /\ m.at \in Nat /\ m.frame \in SealedDmFrame
  BY DEF TypeInv, TypeOK
<1>4. \A m \in net : m.frame.body.key[1] \in Nat /\ m.frame.epoch \in Nat /\ m.frame.index \in Nat
  BY <1>3 DEF SealedDmFrame
<1>. QED
  BY <1>1, <1>2, <1>3, <1>4 DEF IsSession

\* A KAM for a host stays one as more keys are announced.
LEMMA KamForKept ==
    ASSUME NEW p \in Party, NEW kam, NEW secret, KamFor(p, kam, secret),
           published[peer(p)] \subseteq published'[peer(p)]
    PROVE  KamFor(p, kam, secret)'
BY DEF KamFor, peer

\* A step that seals nothing: the ratchets and KAMs a host holds were held
\* before, and keys are only added.
LEMMA FrameInvKept ==
    ASSUME TypeInv, FrameInv, net' = net, rng' \in Nat, rng <= rng',
           \A p \in Party : published[p] \subseteq published'[p],
           \A p \in Party : \A s \in Held(p)' : \E t \in Held(p) :
               s.ratchet = t.ratchet /\ s.current_kam = t.current_kam
    PROVE  FrameInv'
<1>0. /\ rng \in Nat
      /\ \A p \in Party : peer(p) \in Party
      /\ \A p \in Party : \A s \in Held(p) : s.ratchet # None => s.ratchet.epoch_secret \in Nat
      /\ \A m \in net : m.frame.body.key[1] \in Nat /\ m.from \in Party
  BY FrameTypes DEF Ratchet
<1>1. RatchetsKnown'
  <2>. SUFFICES ASSUME NEW p \in Party, NEW s \in Held(p)', s.ratchet # None
                PROVE  RatchetKnown(p, s)'
    BY DEF RatchetsKnown
  <2>1. PICK t \in Held(p) : s.ratchet = t.ratchet /\ s.current_kam = t.current_kam
    OBVIOUS
  <2>2. RatchetKnown(p, t)
    BY <2>1 DEF FrameInv, RatchetsKnown
  <2>3. KamFor(p, s.current_kam, s.ratchet.epoch_secret)'
    BY <1>0, <2>1, <2>2, KamForKept DEF RatchetKnown
  <2>. QED
    BY <1>0, <2>1, <2>2, <2>3 DEF RatchetKnown
<1>2. SecretsApart'
  <2>. SUFFICES ASSUME NEW p \in Party, NEW q \in Party, NEW s \in Held(p)', NEW t \in Held(q)',
                       s.ratchet # None, t.ratchet # None,
                       s.ratchet.epoch_secret = t.ratchet.epoch_secret
                PROVE  /\ p = q
                       /\ s.ratchet.epoch = t.ratchet.epoch
                       /\ s.ratchet.epoch_started_at = t.ratchet.epoch_started_at
    BY DEF SecretsApart
  <2>1. PICK u \in Held(p) : s.ratchet = u.ratchet
    OBVIOUS
  <2>2. PICK v \in Held(q) : t.ratchet = v.ratchet
    OBVIOUS
  <2>. QED
    BY <2>1, <2>2 DEF FrameInv, SecretsApart
<1>3. FramesKnown'
  <2>. SUFFICES ASSUME NEW m \in net
                PROVE  /\ m.frame.body.key[1] <= rng'
                       /\ m.frame.body.key = <<m.frame.body.key[1], m.frame.epoch, m.frame.index>>
                       /\ m.frame.kam # None => KamFor(m.from, m.frame.kam, m.frame.body.key[1])'
    BY DEF FramesKnown
  <2>1. m.frame.kam # None => KamFor(m.from, m.frame.kam, m.frame.body.key[1])'
    BY <1>0, KamForKept DEF FrameInv, FramesKnown
  <2>. QED
    BY <1>0, <2>1 DEF FrameInv, FramesKnown
<1>4. EpochIndependence' /\ EpochBudget'
  BY DEF FrameInv, EpochIndependence, EpochBudget
<1>. QED
  BY <1>1, <1>2, <1>3, <1>4 DEF FrameInv

-----------------------------------------------------------------------------
(* Sealing *)

\* The session s that a seal of p takes its key from: it goes on with an epoch
\* of p that is within its bounds, or it is at index 0 of a fresh one.
ReadyToSeal(p, s) ==
    /\ s.ratchet.epoch_secret <= rng + 2
    /\ KamFor(p, s.current_kam, s.ratchet.epoch_secret)
    /\ \A m \in net : m.frame.body.key[1] = s.ratchet.epoch_secret =>
          /\ m.from = p
          /\ m.frame.epoch = s.ratchet.epoch
          /\ m.frame.index = 0 => m.at = s.ratchet.epoch_started_at
    /\ \A q \in Party : \A t \in Held(q) :
          t.ratchet # None /\ t.ratchet.epoch_secret = s.ratchet.epoch_secret =>
          /\ p = q
          /\ s.ratchet.epoch = t.ratchet.epoch
          /\ s.ratchet.epoch_started_at = t.ratchet.epoch_started_at
    /\ s.ratchet.message_index = 0 =>
          /\ s.ratchet.epoch_started_at = clock
          /\ \A m \in net : m.frame.body.key[1] # s.ratchet.epoch_secret
    /\ s.ratchet.message_index > 0 =>
          /\ s.ratchet.message_index < RekeyMsgBound
          /\ clock - s.ratchet.epoch_started_at < RekeyAge

\* The two outcomes of seal's first half.
LEMMA EpochForFields ==
    ASSUME TypeInv, NEW p \in Party, NEW k \in Nat
    PROVE  LET s == EpochFor(p, k).session
           IN  \/ s = session[p] /\ begin_at(session[p], clock) = None
               \/ /\ s.ratchet.epoch_secret = rng + 1
                  /\ s.ratchet.message_index = 0
                  /\ s.ratchet.epoch_started_at = clock
                  /\ s.current_kam = wrap_dm_epoch_secret(rng + 1, public_key(k), rng + 1)
BY EpochForSealing DEF Ensured

LEMMA EpochForReady ==
    ASSUME TypeInv, FrameInv, NEW p \in Party, NEW k \in published[peer(p)]
    PROVE  ReadyToSeal(p, EpochFor(p, k).session)
<1>. DEFINE s == EpochFor(p, k).session
<1>0. /\ rng \in Nat /\ clock \in Nat /\ rng + 1 \in Nat /\ k \in Nat
      /\ IsSession(session[p]) /\ Coherent(session[p])
      /\ session[p] \in Held(p)
  BY FrameTypes DEF Held
<1>1. s.ratchet \in Ratchet /\ s.ratchet # None
  BY <1>0, EpochForSealing, NoneIsNoValue
<1>2. \/ s = session[p] /\ begin_at(session[p], clock) = None
      \/ /\ s.ratchet.epoch_secret = rng + 1
         /\ s.ratchet.message_index = 0
         /\ s.ratchet.epoch_started_at = clock
         /\ s.current_kam = wrap_dm_epoch_secret(rng + 1, public_key(k), rng + 1)
  BY <1>0, EpochForFields
<1>. HIDE DEF s
<1>3. ASSUME s = session[p], begin_at(session[p], clock) = None
      PROVE  ReadyToSeal(p, s)
  <2>1. RatchetKnown(p, s)
    BY <1>0, <1>1, <1>3 DEF FrameInv, RatchetsKnown
  <2>2. ~ratchet_should_rekey(s.ratchet, clock)
    BY <1>1, <1>3, NoneAssumption DEF begin_at, Ratchet
  <2>3. s.ratchet.message_index < RekeyMsgBound /\ clock - s.ratchet.epoch_started_at < RekeyAge
    BY <1>0, <1>1, <2>2, RekeyAssumption DEF ratchet_should_rekey, should_rekey, Ratchet
  <2>4. \A q \in Party : \A t \in Held(q) :
          t.ratchet # None /\ t.ratchet.epoch_secret = s.ratchet.epoch_secret =>
          /\ p = q
          /\ s.ratchet.epoch = t.ratchet.epoch
          /\ s.ratchet.epoch_started_at = t.ratchet.epoch_started_at
    BY <1>0, <1>1, <1>3 DEF FrameInv, SecretsApart
  <2>5. s.ratchet.epoch_secret <= rng + 2
    BY <1>0, <1>1, <2>1 DEF RatchetKnown, Ratchet
  <2>. QED
    BY <2>1, <2>3, <2>4, <2>5 DEF ReadyToSeal, RatchetKnown
<1>4. ASSUME s.ratchet.epoch_secret = rng + 1,
             s.ratchet.message_index = 0,
             s.ratchet.epoch_started_at = clock,
             s.current_kam = wrap_dm_epoch_secret(rng + 1, public_key(k), rng + 1)
      PROVE  ReadyToSeal(p, s)
  <2>1. KamFor(p, s.current_kam, s.ratchet.epoch_secret)
    BY <1>0, <1>4 DEF KamFor
  <2>2. \A m \in net : m.frame.body.key[1] # s.ratchet.epoch_secret
    BY <1>0, <1>4, FrameTypes DEF FrameInv, FramesKnown
  <2>3. \A q \in Party : \A t \in Held(q) :
          t.ratchet # None => t.ratchet.epoch_secret # s.ratchet.epoch_secret
    <3>1. \A q \in Party : \A t \in Held(q) : t.ratchet # None =>
             t.ratchet.epoch_secret \in Nat /\ t.ratchet.epoch_secret <= rng
      BY FrameTypes DEF FrameInv, RatchetsKnown, RatchetKnown, Ratchet
    <3>. QED
      BY <1>0, <1>4, <3>1
  <2>4. s.ratchet.epoch_secret <= rng + 2
    BY <1>0, <1>4
  <2>. QED
    BY <1>4, <2>1, <2>2, <2>3, <2>4 DEF ReadyToSeal
<1>. QED
  BY <1>2, <1>3, <1>4 DEF s

\* What both ways a seal of p can end do to what the hosts hold.
HeldAfterSeal(p, s) ==
    /\ session'[p].ratchet # None
    /\ session'[p].current_kam = s.current_kam
    /\ session'[p].ratchet.epoch_secret = s.ratchet.epoch_secret
    /\ session'[p].ratchet.epoch = s.ratchet.epoch
    /\ session'[p].ratchet.epoch_started_at = s.ratchet.epoch_started_at
    /\ session'[p].ratchet.message_index > 0
    /\ \A q \in Party : Held(q)' \subseteq Held(q) \cup {session'[p]}
    /\ \A q \in Party : q # p => Held(q)' = Held(q)

LEMMA SealHolds ==
    ASSUME TypeInv, FrameInv, NEW p \in Party, NEW k \in published[peer(p)],
           NEW s, s = EpochFor(p, k).session,
           session' = [session EXCEPT ![p] = sealed_session(s)], disk' = disk
    PROVE  /\ IsSession(s) /\ s.ratchet \in Ratchet
           /\ ReadyToSeal(p, s)
           /\ HeldAfterSeal(p, s)
<1>1. k \in Nat
  BY PublishedKeys
<1>2. IsSession(s) /\ Coherent(s) /\ s.ratchet \in Ratchet
  BY <1>1, EpochForSealing
<1>3. ReadyToSeal(p, s)
  BY EpochForReady
<1>4. /\ sealed_session(s).ratchet = [s.ratchet EXCEPT !.message_index = @ + 1]
      /\ sealed_session(s).ratchet # None
      /\ sealed_session(s).current_kam = s.current_kam
  BY <1>2, SealedSession
<1>5. /\ session'[p] = sealed_session(s)
      /\ \A q \in Party : q # p => session'[q] = session[q]
  BY DEF TypeInv, TypeOK
<1>6. /\ sealed_session(s).ratchet.epoch_secret = s.ratchet.epoch_secret
      /\ sealed_session(s).ratchet.epoch = s.ratchet.epoch
      /\ sealed_session(s).ratchet.epoch_started_at = s.ratchet.epoch_started_at
      /\ sealed_session(s).ratchet.message_index > 0
  BY <1>2, <1>4 DEF Ratchet
<1>7. /\ \A q \in Party : Held(q)' \subseteq Held(q) \cup {session'[p]}
      /\ \A q \in Party : q # p => Held(q)' = Held(q)
  BY <1>5 DEF Held
<1>. QED
  BY <1>2, <1>3, <1>4, <1>5, <1>6, <1>7 DEF HeldAfterSeal

\* After a seal, two held ratchets with one secret are still of one epoch.
LEMMA SealSecretsApart ==
    ASSUME TypeInv, FrameInv, NEW p \in Party, NEW k \in published[peer(p)],
           NEW s, s = EpochFor(p, k).session,
           session' = [session EXCEPT ![p] = sealed_session(s)], disk' = disk
    PROVE  SecretsApart'
<1>. SUFFICES ASSUME NEW a \in Party, NEW b \in Party, NEW x \in Held(a)', NEW y \in Held(b)',
                     x.ratchet # None, y.ratchet # None,
                     x.ratchet.epoch_secret = y.ratchet.epoch_secret
              PROVE  /\ a = b
                     /\ x.ratchet.epoch = y.ratchet.epoch
                     /\ x.ratchet.epoch_started_at = y.ratchet.epoch_started_at
  BY DEF SecretsApart
<1>. DEFINE z == session'[p]
<1>0. ReadyToSeal(p, s) /\ HeldAfterSeal(p, s)
  BY SealHolds
<1>1. /\ z.ratchet.epoch_secret = s.ratchet.epoch_secret
      /\ z.ratchet.epoch = s.ratchet.epoch
      /\ z.ratchet.epoch_started_at = s.ratchet.epoch_started_at
  BY <1>0 DEF HeldAfterSeal
<1>2. /\ x \in Held(a) \/ (a = p /\ x = z)
      /\ y \in Held(b) \/ (b = p /\ y = z)
  BY <1>0 DEF HeldAfterSeal
<1>. HIDE DEF z
<1>3. CASE x \in Held(a) /\ y \in Held(b)
  BY <1>3 DEF FrameInv, SecretsApart
<1>4. CASE x \in Held(a) /\ b = p /\ y = z
  BY <1>0, <1>1, <1>4 DEF ReadyToSeal
<1>5. CASE a = p /\ x = z /\ y \in Held(b)
  BY <1>0, <1>1, <1>5 DEF ReadyToSeal
<1>6. CASE a = p /\ x = z /\ b = p /\ y = z
  BY <1>6
<1>. QED
  BY <1>2, <1>3, <1>4, <1>5, <1>6

LEMMA SealFrameInv ==
    ASSUME TypeInv, FrameInv, NEW p \in Party, NEW k \in published[peer(p)], Seal(p, k)
    PROVE  FrameInv'
<1>. DEFINE s == EpochFor(p, k).session
            f == sealed_frame(s, rng + 2, rng + 2)
            n == [from |-> p, at |-> clock, frame |-> f]
            z == session'[p]
<1>0. /\ rng \in Nat /\ rng + 2 \in Nat /\ clock \in Nat
      /\ \A q \in Party : \A t \in Held(q) : t.ratchet # None => t.ratchet.epoch_secret \in Nat
      /\ \A m \in net : /\ m.from \in Party /\ m.at \in Nat
                        /\ m.frame.body.key[1] \in Nat
                        /\ m.frame.epoch \in Nat /\ m.frame.index \in Nat
  BY FrameTypes DEF Ratchet
<1>1. /\ session' = [session EXCEPT ![p] = sealed_session(s)]
      /\ disk' = disk /\ rng' = rng + 2 /\ published' = published
      /\ net' = net \cup {n}
  BY DEF Seal
<1>2. SecretsApart'
  BY <1>1, SealSecretsApart
<1>3. IsSession(s) /\ s.ratchet \in Ratchet /\ ReadyToSeal(p, s) /\ HeldAfterSeal(p, s)
  BY <1>1, SealHolds
<1>4. /\ z.ratchet # None
      /\ z.current_kam = s.current_kam
      /\ z.ratchet.epoch_secret = s.ratchet.epoch_secret
      /\ z.ratchet.epoch = s.ratchet.epoch
      /\ z.ratchet.epoch_started_at = s.ratchet.epoch_started_at
      /\ z.ratchet.message_index > 0
      /\ \A q \in Party : Held(q)' \subseteq Held(q) \cup {z}
      /\ \A q \in Party : q # p => Held(q)' = Held(q)
  BY <1>3 DEF HeldAfterSeal
<1>. HIDE DEF s
<1>5. /\ f.epoch = s.ratchet.epoch
      /\ f.index = s.ratchet.message_index
      /\ f.body.key = <<s.ratchet.epoch_secret, f.epoch, f.index>>
      /\ f.kam \in {None, s.current_kam}
  BY DEF sealed_frame, next_outbound_key, derive_dm_message_key, encrypt, kam_for
<1>6. n.from = p /\ n.at = clock /\ n.frame = f
  OBVIOUS
<1>. HIDE DEF f, n, z
<1>7. n.frame.body.key[1] = s.ratchet.epoch_secret
  BY <1>5, <1>6
<1>8. /\ s.ratchet.epoch_secret \in Nat /\ s.ratchet.message_index \in Nat
      /\ s.ratchet.epoch_started_at \in Nat /\ RekeyMsgBound \in Nat /\ RekeyAge \in Nat
  BY <1>3, RekeyAssumption DEF Ratchet
<1>9. \A q \in Party : \A kam, secret : KamFor(q, kam, secret) <=> KamFor(q, kam, secret)'
  BY <1>1 DEF KamFor, peer
<1>10. RatchetsKnown'
  <2>. SUFFICES ASSUME NEW q \in Party, NEW t \in Held(q)', t.ratchet # None
                PROVE  RatchetKnown(q, t)'
    BY DEF RatchetsKnown
  <2>1. CASE q = p /\ t = z
    <3>1. KamFor(q, t.current_kam, t.ratchet.epoch_secret)'
      BY <1>3, <1>4, <1>9, <2>1 DEF ReadyToSeal
    <3>2. t.ratchet.epoch_secret <= rng' /\ t.ratchet.message_index > 0
      BY <1>1, <1>3, <1>4, <2>1 DEF ReadyToSeal
    <3>3. ASSUME NEW m \in net, m.frame.body.key[1] = t.ratchet.epoch_secret
          PROVE  /\ m.from = q
                 /\ m.frame.epoch = t.ratchet.epoch
                 /\ m.frame.index = 0 => m.at = t.ratchet.epoch_started_at
      BY <1>3, <1>4, <2>1, <3>3 DEF ReadyToSeal
    <3>4. /\ n.from = q
          /\ n.frame.epoch = t.ratchet.epoch
          /\ n.frame.index = 0 => n.at = t.ratchet.epoch_started_at
      BY <1>3, <1>4, <1>5, <1>6, <2>1 DEF ReadyToSeal
    <3>. QED
      BY <1>1, <3>1, <3>2, <3>3, <3>4 DEF RatchetKnown
  <2>2. CASE t \in Held(q)
    <3>1. RatchetKnown(q, t)
      BY <2>2 DEF FrameInv, RatchetsKnown
    <3>2. KamFor(q, t.current_kam, t.ratchet.epoch_secret)'
      BY <1>9, <3>1 DEF RatchetKnown
    <3>3. t.ratchet.epoch_secret <= rng' /\ t.ratchet.message_index > 0
      BY <1>0, <1>1, <2>2, <3>1 DEF RatchetKnown
    <3>4. n.frame.body.key[1] = t.ratchet.epoch_secret =>
            /\ n.from = q
            /\ n.frame.epoch = t.ratchet.epoch
            /\ n.frame.index = 0 => n.at = t.ratchet.epoch_started_at
      BY <1>3, <1>5, <1>6, <1>7, <2>2 DEF ReadyToSeal
    <3>. QED
      BY <1>1, <3>1, <3>2, <3>3, <3>4 DEF RatchetKnown
  <2>. QED
    BY <1>4, <2>1, <2>2
<1>11. FramesKnown'
  <2>. SUFFICES ASSUME NEW m \in net'
                PROVE  /\ m.frame.body.key[1] <= rng'
                       /\ m.frame.body.key = <<m.frame.body.key[1], m.frame.epoch, m.frame.index>>
                       /\ m.frame.kam # None => KamFor(m.from, m.frame.kam, m.frame.body.key[1])'
    BY DEF FramesKnown
  <2>1. CASE m \in net
    BY <1>0, <1>1, <1>9, <2>1 DEF FrameInv, FramesKnown
  <2>2. CASE m = n
    <3>1. m.frame.kam # None => KamFor(m.from, m.frame.kam, m.frame.body.key[1])'
      BY <1>3, <1>5, <1>6, <1>7, <1>9, <2>2 DEF ReadyToSeal
    <3>2. m.frame.body.key = <<m.frame.body.key[1], m.frame.epoch, m.frame.index>>
      BY <1>5, <1>6, <1>7, <2>2
    <3>. QED
      BY <1>1, <1>3, <1>7, <2>2, <3>1, <3>2 DEF ReadyToSeal
  <2>. QED
    BY <1>1, <2>1, <2>2
<1>12. EpochIndependence'
  <2>1. ASSUME NEW m \in net, m.frame.body.key[1] = n.frame.body.key[1]
        PROVE  m.from = n.from /\ m.frame.epoch = n.frame.epoch
    BY <1>3, <1>5, <1>6, <1>7, <2>1 DEF ReadyToSeal
  <2>. QED
    BY <1>1, <2>1 DEF FrameInv, EpochIndependence
<1>13. EpochBudget'
  <2>1. ASSUME NEW m \in net, m.frame.body.key[1] = n.frame.body.key[1], m.frame.index = 0
        PROVE  n.frame.index < RekeyMsgBound /\ n.at - m.at < RekeyAge
    BY <1>3, <1>5, <1>6, <1>7, <1>8, <2>1 DEF ReadyToSeal
  <2>2. ASSUME NEW m \in net, m.frame.body.key[1] = n.frame.body.key[1]
        PROVE  n.frame.index # 0
    BY <1>3, <1>5, <1>6, <1>7, <2>2 DEF ReadyToSeal
  <2>. QED
    BY <1>1, <2>1, <2>2 DEF FrameInv, EpochBudget
<1>. QED
  BY <1>2, <1>10, <1>11, <1>12, <1>13 DEF FrameInv

LEMMA NextFrameInv == TypeInv /\ FrameInv /\ [Next]_vars => FrameInv'
<1>. SUFFICES ASSUME TypeInv, FrameInv, [Next]_vars PROVE FrameInv'
  OBVIOUS
<1>0. /\ rng \in Nat /\ rng <= rng /\ rng <= rng + 1
      /\ rng + 1 \in Nat /\ rng + 2 \in Nat
  BY DEF TypeInv, TypeOK
<1>1. ASSUME NEW p \in Senders, NEW k \in published[peer(p)], Seal(p, k)
      PROVE  FrameInv'
  BY <1>1, SealFrameInv, PartyAssumption
<1>2. ASSUME NEW p \in Senders, NEW k \in published[peer(p)], SealEncryptFails(p, k)
      PROVE  FrameInv'
  <2>. DEFINE s == EpochFor(p, k).session
              z == session'[p]
  <2>0. p \in Party
    BY PartyAssumption
  <2>1. /\ session' = [session EXCEPT ![p] = sealed_session(s)]
        /\ disk' = disk /\ rng' = rng + 2 /\ published' = published /\ net' = net
    BY <1>2 DEF SealEncryptFails
  <2>2. SecretsApart'
    BY <2>0, <2>1, SealSecretsApart
  <2>3. ReadyToSeal(p, s) /\ HeldAfterSeal(p, s)
    BY <2>0, <2>1, SealHolds
  <2>. HIDE DEF s
  <2>4. /\ \A q \in Party : \A t \in Held(q) : t.ratchet # None => t.ratchet.epoch_secret \in Nat
        /\ \A m \in net : m.from \in Party /\ m.frame.body.key[1] \in Nat
    BY FrameTypes DEF Ratchet
  <2>5. \A q \in Party : \A kam, secret : KamFor(q, kam, secret) <=> KamFor(q, kam, secret)'
    BY <2>1 DEF KamFor, peer
  <2>6. RatchetsKnown'
    <3>. SUFFICES ASSUME NEW q \in Party, NEW t \in Held(q)', t.ratchet # None
                  PROVE  RatchetKnown(q, t)'
      BY DEF RatchetsKnown
    <3>1. CASE q = p /\ t = z
      <4>1. KamFor(q, t.current_kam, t.ratchet.epoch_secret)'
        BY <2>3, <2>5, <3>1 DEF ReadyToSeal, HeldAfterSeal
      <4>. QED
        BY <2>1, <2>3, <3>1, <4>1 DEF ReadyToSeal, HeldAfterSeal, RatchetKnown
    <3>2. CASE t \in Held(q)
      <4>1. RatchetKnown(q, t)
        BY <3>2 DEF FrameInv, RatchetsKnown
      <4>2. KamFor(q, t.current_kam, t.ratchet.epoch_secret)'
        BY <2>5, <4>1 DEF RatchetKnown
      <4>3. t.ratchet.epoch_secret <= rng'
        BY <1>0, <2>1, <2>4, <3>2, <4>1 DEF RatchetKnown
      <4>. QED
        BY <2>1, <4>1, <4>2, <4>3 DEF RatchetKnown
    <3>. QED
      BY <2>3, <3>1, <3>2 DEF HeldAfterSeal
  <2>7. FramesKnown'
    <3>. SUFFICES ASSUME NEW m \in net
                  PROVE  /\ m.frame.body.key[1] <= rng'
                         /\ m.frame.body.key = <<m.frame.body.key[1], m.frame.epoch, m.frame.index>>
                         /\ m.frame.kam # None => KamFor(m.from, m.frame.kam, m.frame.body.key[1])'
      BY <2>1 DEF FramesKnown
    <3>. QED
      BY <1>0, <2>1, <2>4, <2>5 DEF FrameInv, FramesKnown
  <2>8. EpochIndependence' /\ EpochBudget'
    BY <2>1 DEF FrameInv, EpochIndependence, EpochBudget
  <2>. QED
    BY <2>2, <2>6, <2>7, <2>8 DEF FrameInv
<1>3. ASSUME NEW p \in Senders, SealRejected(p)
      PROVE  FrameInv'
  <2>1. ensure_epoch(session[p],
                     [public_key(hybridKey[peer(p)]) EXCEPT !.len = PUBLIC_KEY_LEN - 1],
                     rng + 1, clock).session = session[p]
    BY RejectedEpoch
  <2>2. /\ session' = [session EXCEPT ![p] = session[p]]
        /\ disk' = disk /\ net' = net /\ rng' = rng /\ published' = published
    BY <1>3, <2>1 DEF SealRejected
  <2>3. \A q \in Party : Held(q)' = Held(q)
    BY <2>2 DEF TypeInv, TypeOK, Held
  <2>. QED
    BY <1>0, <2>2, <2>3, FrameInvKept
<1>4. ASSUME NEW p \in Party, Deliver(p)
      PROVE  FrameInv'
  <2>1. PICK m \in net : \E f \in Arrivals(m.frame) : Open(p, m, f)
    BY <1>4 DEF Deliver
  <2>2. PICK f \in Arrivals(m.frame) : Open(p, m, f)
    BY <2>1
  <2>3. Arrived(f)
    BY ArrivalTyped DEF TypeInv, TypeOK
  <2>. DEFINE t == open_session(session[p], f, private_key(hybridKey[p]))
  <2>4. IsSession(session[p]) /\ Coherent(session[p])
    BY DEF TypeInv, TypeOK, AllCoherent
  <2>5. t.ratchet = session[p].ratchet /\ t.current_kam = session[p].current_kam
    BY <2>3, <2>4, OpenSession
  <2>6. /\ session' = [session EXCEPT ![p] = t]
        /\ disk' = disk /\ net' = net /\ rng' = rng /\ published' = published
    BY <2>2 DEF Open
  <2>. HIDE DEF t
  <2>7. \A q \in Party : \A s \in Held(q)' : \E u \in Held(q) :
           s.ratchet = u.ratchet /\ s.current_kam = u.current_kam
    BY <2>5, <2>6 DEF TypeInv, TypeOK, Held
  <2>. QED
    BY <1>0, <2>6, <2>7, FrameInvKept
<1>5. ASSUME NEW p \in Party, Save(p)
      PROVE  FrameInv'
  <2>1. restore(snapshot(session[p])).session = session[p]
    BY RestoreOfSnapshot DEF TypeInv, TypeOK, AllCoherent
  <2>2. /\ disk' = [disk EXCEPT ![p] = snapshot(session[p])]
        /\ session' = session /\ net' = net /\ rng' = rng /\ published' = published
    BY <1>5 DEF Save
  <2>3. \A q \in Party : Held(q)' \subseteq Held(q)
    BY <2>1, <2>2 DEF TypeInv, TypeOK, Held
  <2>. QED
    BY <1>0, <2>2, <2>3, FrameInvKept
<1>6. ASSUME NEW p \in Party, Restart(p)
      PROVE  FrameInv'
  <2>1. PICK snap \in {snapshot(session[p]), disk[p]} :
             session' = [session EXCEPT ![p] = restore(snap).session]
    BY <1>6 DEF Restart
  <2>2. restore(snapshot(session[p])).session = session[p]
    BY RestoreOfSnapshot DEF TypeInv, TypeOK, AllCoherent
  <2>3. disk' = disk /\ net' = net /\ rng' = rng /\ published' = published
    BY <1>6 DEF Restart
  <2>4. \A q \in Party : Held(q)' \subseteq Held(q)
    BY <2>1, <2>2, <2>3 DEF TypeInv, TypeOK, Held
  <2>. QED
    BY <1>0, <2>3, <2>4, FrameInvKept
<1>7. ASSUME NEW p \in Party, RotateKey(p)
      PROVE  FrameInv'
  <2>1. /\ session' = session /\ disk' = disk /\ net' = net /\ rng' = rng + 1
        /\ published' = [published EXCEPT ![p] = @ \cup {rng + 1}]
    BY <1>7 DEF RotateKey
  <2>2. \A q \in Party : Held(q)' = Held(q) /\ published[q] \subseteq published'[q]
    BY <2>1 DEF TypeInv, TypeOK, Held
  <2>. QED
    BY <1>0, <2>1, <2>2, FrameInvKept
<1>8. CASE UNCHANGED <<session, disk, net, rng, published>>
  <2>1. \A q \in Party : Held(q)' = Held(q)
    BY <1>8 DEF Held
  <2>. QED
    BY <1>0, <1>8, <2>1, FrameInvKept
<1>. QED
  BY <1>1, <1>2, <1>3, <1>4, <1>5, <1>6, <1>7, <1>8 DEF Next, Tick, vars

\* The invariant of frames and sessions, with restarts from snapshots of any age.
THEOREM FrameInvariance == Spec => [](TypeInv /\ FrameInv)
BY InitFrameInv, NextFrameInv, TypeInvariance, PTL DEF Spec

-----------------------------------------------------------------------------
(* What follows *)

\* An epoch secret keys the frames of one epoch of one sender, although a host
\* that comes back with an old snapshot begins an epoch a second time.
THEOREM EpochsIndependent == Spec => []EpochIndependence
<1>1. FrameInv => EpochIndependence
  BY DEF FrameInv
<1>. QED
  BY <1>1, FrameInvariance, PTL

\* The rekey bounds hold for the frames on the wire, for any bounds, old
\* snapshots and a clock that is set back.
THEOREM BudgetKept == Spec => []EpochBudget
<1>1. FrameInv => EpochBudget
  BY DEF FrameInv
<1>. QED
  BY <1>1, FrameInvariance, PTL

\* The KAM beside a body unwraps to the body's secret, with a key the receiver
\* has announced: the two fields of the session that seal copies them from are
\* never out of step, whichever snapshot the sender came back with.
THEOREM KamsMatchBodies == Spec => []KamMatchesBody
<1>1. TypeInv /\ FrameInv => KamMatchesBody
  <2>. SUFFICES ASSUME TypeInv, FrameInv, NEW m \in net, m.frame.kam # None
                PROVE  \E k \in published[peer(m.from)] :
                          unwrap_dm_epoch_secret(m.frame.kam, private_key(k))
                            = m.frame.body.key[1]
    BY DEF KamMatchesBody
  <2>1. KamFor(m.from, m.frame.kam, m.frame.body.key[1])
    BY DEF FrameInv, FramesKnown
  <2>2. PICK k \in published[peer(m.from)], r \in Nat :
             m.frame.kam = wrap_dm_epoch_secret(m.frame.body.key[1], public_key(k), r)
    BY <2>1 DEF KamFor
  <2>3. k \in Nat /\ m.frame.body.key[1] \in Nat
    BY FrameTypes
  <2>4. unwrap_dm_epoch_secret(m.frame.kam, private_key(k)) = m.frame.body.key[1]
    BY <2>2, <2>3, UnwrapOfWrap
  <2>. QED
    BY <2>4
<1>. QED
  BY <1>1, FrameInvariance, PTL

-----------------------------------------------------------------------------
(* Clients on a binding *)

\* Damage never changes the length of a KAM's ciphertext.
LEMMA ArrivalCiphertext ==
    ASSUME NEW g \in SealedDmFrame, g.kam # None => g.kam.ct.len = CIPHERTEXT_LEN,
           NEW f \in Arrivals(g), f.kam # None
    PROVE  f.kam.ct.len = CIPHERTEXT_LEN /\ f.kam.ct.x_eph \in Nat /\ f.kam.ct.mlkem \in MlKemCt
<1>0. g.kam # None => g.kam \in Kam /\ g.kam.ct \in HybridCt /\ g.kam.ct.x_eph \in Nat
                        /\ g.kam.ct.mlkem \in MlKemCt
  BY DEF SealedDmFrame, Kam, HybridCt
<1>1. CASE f.kam = g.kam
  BY <1>0, <1>1
<1>2. CASE f.kam # g.kam
  <2>1. PICK kind \in DamageKinds : /\ kind \in {"kam_ct", "kam_len"} => g.kam # None
                                    /\ f = Damaged(g, kind)
    BY <1>2 DEF Arrivals
  <2>2. kind \in AllDamage
    BY DamageAssumption
  <2>3. kind \in {"kam_ct", "kam_len"}
    BY <1>2, <2>1, <2>2 DEF Damaged, AllDamage, SealedDmFrame
  <2>4. CASE kind = "kam_ct"
    <3>1. f.kam.ct = [g.kam.ct EXCEPT !.mlkem.intact = FALSE]
      BY <1>0, <2>1, <2>4 DEF Damaged, SealedDmFrame, Kam
    <3>2. [g.kam.ct.mlkem EXCEPT !.intact = FALSE] \in MlKemCt
      BY <1>0, <2>1, <2>4 DEF MlKemCt
    <3>. QED
      BY <1>0, <2>1, <2>4, <3>1, <3>2 DEF HybridCt
  <2>5. CASE kind = "kam_len"
    <3>1. f.kam.ct = g.kam.ct
      BY <1>0, <2>1, <2>5 DEF Damaged, SealedDmFrame, Kam
    <3>. QED
      BY <1>0, <2>1, <2>5, <3>1
  <2>. QED
    BY <2>3, <2>4, <2>5
<1>. QED
  BY <1>1, <1>2

\* hybrid_decap fails on a length only.
LEMMA DecapOfCiphertext ==
    ASSUME NEW ct, ct.len = CIPHERTEXT_LEN, ct.x_eph \in Nat, ct.mlkem \in MlKemCt, NEW k \in Nat
    PROVE  hybrid_decap(ct, private_key(k)) # None
<1>1. hybrid_decap(ct, private_key(k))
        = combine(diffie_hellman(k, ct.x_eph),
                  [dk |-> k, ct |-> ct.mlkem, rejected |-> ct.mlkem.ek # k \/ ~ct.mlkem.intact])
  BY DEF hybrid_decap, private_key, mlkem_decapsulate
<1>2. (ct.mlkem.ek # k \/ ~ct.mlkem.intact) \in BOOLEAN
  OBVIOUS
<1>. QED
  BY <1>1, <1>2, SharedTyped

\* A client unwraps what the crate unwraps, if the ciphertext has its length.
LEMMA ClientUnwraps ==
    ASSUME NEW b \in Binding, NEW payload, NEW key, hybrid_decap(payload.ct, key) # None
    PROVE  /\ decap_via(b, payload.ct, key).raised = None
           /\ client_unwrap(b, payload, key) = unwrap_dm_epoch_secret(payload, key)
<1>1. decap_via(b, payload.ct, key) = [raised |-> None, value |-> hybrid_decap(payload.ct, key)]
  BY DEF decap_via, returned
<1>2. wire_sizes[3] + 12 + 48 = WRAPPED_PAYLOAD_LEN
  BY DEF wire_sizes, WRAPPED_PAYLOAD_LEN, CIPHERTEXT_LEN, WRAP_NONCE_LEN
<1>. QED
  BY <1>1, <1>2 DEF client_unwrap, unwrap_dm_epoch_secret

\* The wrapped form of a KAM, for its length.
LEMMA WrapLength ==
    ASSUME NEW secret, NEW k \in Nat, NEW r
    PROVE  wrap_dm_epoch_secret(secret, public_key(k), r).ct.len = CIPHERTEXT_LEN
BY DEF wrap_dm_epoch_secret, hybrid_encap, public_key, mlkem_encapsulate

\* Any client, on any binding, with any key pair ever announced, reads a KAM
\* exactly as the crate does, damaged or not: decapsulation never raises, and a
\* secret from an undamaged frame derives the key the frame was sealed with.
THEOREM BindingsRead == Spec => []AnyBindingReads
<1>1. TypeInv /\ FrameInv => AnyBindingReads
  <2>. SUFFICES ASSUME TypeInv, FrameInv, NEW m \in net, NEW f \in Arrivals(m.frame),
                       f.kam # None, NEW k \in published[Alice] \cup published[Bob],
                       NEW made \in Binding, NEW b \in Binding
                PROVE  LET private == keypair_via(made, k).private_key
                           secret  == client_unwrap(b, f.kam, private)
                       IN  /\ decap_via(b, f.kam.ct, private).raised = None
                           /\ secret = unwrap_dm_epoch_secret(f.kam, private)
                           /\ f = m.frame /\ secret # None
                                => derive_via(b, secret, SHARED_SECRET_LEN, f.epoch, f.index)
                                     = returned(f.body.key)
    BY DEF AnyBindingReads
  <2>. DEFINE private == keypair_via(made, k).private_key
              secret  == client_unwrap(b, f.kam, private)
  <2>0. k \in Nat /\ private = private_key(k)
    BY FrameTypes DEF Party, keypair_via
  <2>. HIDE DEF private
  <2>1. m.frame \in SealedDmFrame
    BY DEF TypeInv, TypeOK
  <2>2. ASSUME m.frame.kam # None
        PROVE  \E j \in Nat, r \in Nat :
                  m.frame.kam = wrap_dm_epoch_secret(m.frame.body.key[1], public_key(j), r)
    <3>1. KamFor(m.from, m.frame.kam, m.frame.body.key[1])
      BY <2>2 DEF FrameInv, FramesKnown
    <3>. QED
      BY <3>1, FrameTypes DEF KamFor
  <2>3. m.frame.kam # None => m.frame.kam.ct.len = CIPHERTEXT_LEN
    BY <2>2, WrapLength
  <2>4. hybrid_decap(f.kam.ct, private) # None
    <3>1. f.kam.ct.len = CIPHERTEXT_LEN /\ f.kam.ct.x_eph \in Nat /\ f.kam.ct.mlkem \in MlKemCt
      BY <2>1, <2>3, ArrivalCiphertext
    <3>. QED
      BY <2>0, <3>1, DecapOfCiphertext
  <2>5. /\ decap_via(b, f.kam.ct, private).raised = None
        /\ secret = unwrap_dm_epoch_secret(f.kam, private)
    BY <2>4, ClientUnwraps
  <2>6. ASSUME f = m.frame, secret # None
        PROVE  derive_via(b, secret, SHARED_SECRET_LEN, f.epoch, f.index) = returned(f.body.key)
    <3>1. PICK j \in Nat, r \in Nat :
               f.kam = wrap_dm_epoch_secret(f.body.key[1], public_key(j), r)
      BY <2>2, <2>6
    <3>2. f.body.key[1] \in Nat
      BY <2>6, FrameTypes
    <3>3. unwrap_dm_epoch_secret(f.kam, private) = IF k = j THEN f.body.key[1] ELSE None
      BY <2>0, <3>1, <3>2, UnwrapOfWrap
    <3>4. secret = f.body.key[1]
      BY <2>5, <2>6, <3>3
    <3>5. f.body.key = <<f.body.key[1], f.epoch, f.index>>
      BY <2>6 DEF FrameInv, FramesKnown
    <3>. QED
      BY <3>4, <3>5 DEF derive_via, SHARED_SECRET_LEN, derive_dm_message_key
  <2>. QED
    BY <2>5, <2>6 DEF private
<1>. QED
  BY <1>1, FrameInvariance, PTL

\* The KAM a client makes is the one the crate makes; a short key makes none.
LEMMA ClientWraps ==
    ASSUME NEW b \in Binding, NEW secret \in Nat, NEW k \in Nat, NEW r \in Nat
    PROVE  /\ client_wrap(b, secret, public_key(k), r)
                = wrap_dm_epoch_secret(secret, public_key(k), r)
           /\ client_wrap(b, secret, [public_key(k) EXCEPT !.len = @ - 1], r) = None
<1>. DEFINE pub   == public_key(k)
            short == [pub EXCEPT !.len = @ - 1]
            enc   == hybrid_encap(pub, r)
            ct    == [ek |-> k, r |-> r, intact |-> TRUE]
<1>1. enc = [ciphertext |-> [len |-> CIPHERTEXT_LEN, x_eph |-> r, mlkem |-> ct],
             shared |-> combine(diffie_hellman(r, k), [dk |-> k, ct |-> ct, rejected |-> FALSE])]
  BY DEF hybrid_encap, public_key, mlkem_encapsulate
<1>2. enc # None
  <2>1. ct \in MlKemCt
    BY DEF MlKemCt
  <2>2. [len |-> CIPHERTEXT_LEN, x_eph |-> r, mlkem |-> ct] \in HybridCt
    BY <2>1 DEF HybridCt, CIPHERTEXT_LEN
  <2>3. combine(diffie_hellman(r, k), [dk |-> k, ct |-> ct, rejected |-> FALSE]) \in Shared
    BY <2>1, SharedTyped
  <2>. HIDE DEF enc, ct
  <2>4. enc \in [ciphertext : HybridCt, shared : Shared]
    BY <1>1, <2>2, <2>3
  <2>. QED
    BY <2>4, EncapAssumption
<1>. HIDE DEF enc
<1>3. encap_via(b, pub, r) = [raised |-> None, value |-> enc]
  BY <1>2 DEF encap_via, returned, enc
<1>4. wire_sizes[3] + 12 + 48 = WRAPPED_PAYLOAD_LEN
  BY DEF wire_sizes, WRAPPED_PAYLOAD_LEN, CIPHERTEXT_LEN, WRAP_NONCE_LEN
<1>5. pub.len = PUBLIC_KEY_LEN /\ short.len # PUBLIC_KEY_LEN
  BY DEF public_key, PUBLIC_KEY_LEN
<1>6. client_wrap(b, secret, pub, r) = wrap_dm_epoch_secret(secret, pub, r)
  BY <1>3, <1>4, <1>5 DEF client_wrap, wrap_dm_epoch_secret, enc
<1>. HIDE DEF short
<1>7. client_wrap(b, secret, short, r) = None
  <2>1. hybrid_encap(short, r) = None
    BY <1>5 DEF hybrid_encap
  <2>2. encap_via(b, short, r).raised # None
    BY <2>1, ErrorAssumption DEF encap_via, raised
  <2>. QED
    BY <2>2 DEF client_wrap
<1>. QED
  BY <1>6, <1>7 DEF short

\* What a client on any binding wraps to a key of a host, that host unwraps
\* with that key and no other; a short public key raises.
THEOREM BindingsWrap == Spec => []AnyBindingWraps
<1>1. TypeInv => AnyBindingWraps
  <2>. SUFFICES ASSUME TypeInv, NEW p \in Party, NEW k \in published[p], NEW made \in Binding,
                       NEW b \in Binding, NEW m \in net
                PROVE  LET public  == keypair_via(made, k).public_key
                           payload == client_wrap(b, m.frame.body.key[1], public, rng + 1)
                       IN  /\ \A h \in Party :
                                 unwrap_dm_epoch_secret(payload, private_key(hybridKey[h]))
                                   = IF k = hybridKey[h] THEN m.frame.body.key[1] ELSE None
                           /\ client_wrap(b, m.frame.body.key[1], [public EXCEPT !.len = @ - 1],
                                          rng + 1) = None
    BY DEF AnyBindingWraps
  <2>. DEFINE secret == m.frame.body.key[1]
              public == keypair_via(made, k).public_key
  <2>1. k \in Nat /\ secret \in Nat /\ rng + 1 \in Nat /\ public = public_key(k)
    BY FrameTypes DEF keypair_via
  <2>2. \A h \in Party : hybridKey[h] \in Nat
    BY DEF TypeInv, TypeOK
  <2>. HIDE DEF secret, public
  <2>3. /\ client_wrap(b, secret, public, rng + 1) = wrap_dm_epoch_secret(secret, public_key(k), rng + 1)
        /\ client_wrap(b, secret, [public EXCEPT !.len = @ - 1], rng + 1) = None
    BY <2>1, ClientWraps
  <2>4. \A h \in Party :
           unwrap_dm_epoch_secret(client_wrap(b, secret, public, rng + 1), private_key(hybridKey[h]))
             = IF k = hybridKey[h] THEN secret ELSE None
    BY <2>1, <2>2, <2>3, UnwrapOfWrap
  <2>. QED
    BY <2>3, <2>4 DEF secret, public
<1>. QED
  BY <1>1, TypeInvariance, PTL
=============================================================================
