-------------------------- MODULE DmChannelProofs ---------------------------
(***************************************************************************)
(* What the operators of HybridKem, DmRatchet and DmSession return, for    *)
(* every value of their arguments; properties of DmChannel for every       *)
(* choice of senders, bounds, damage and switches; and that DmChannel      *)
(* implements DmPromise.                                                   *)
(***************************************************************************)
EXTENDS DmInvariants, DmImplements, TLAPS

-----------------------------------------------------------------------------
(* Wrapping *)

\* Both sides of the KEM compute a shared secret, never the value None.
LEMMA SharedTyped ==
    ASSUME NEW a \in Nat, NEW b \in Nat, NEW dk \in Nat, NEW ct \in MlKemCt,
           NEW rejected \in BOOLEAN
    PROVE  combine(diffie_hellman(a, b), [dk |-> dk, ct |-> ct, rejected |-> rejected])
              \in Shared \ {None}
<1>1. {a, b} \in SUBSET Nat
  OBVIOUS
<1>2. [dk |-> dk, ct |-> ct, rejected |-> rejected]
        \in [dk : Nat, ct : MlKemCt, rejected : BOOLEAN]
  OBVIOUS
<1>. QED
  BY <1>1, <1>2, NoneIsNoValue DEF combine, diffie_hellman, Shared

\* wrap_dm_epoch_secret to a key of the right length makes a KAM.
LEMMA WrapTyped ==
    ASSUME NEW secret \in Nat, NEW k \in Nat, NEW r \in Nat
    PROVE  /\ wrap_dm_epoch_secret(secret, public_key(k), r) \in Kam
           /\ wrap_dm_epoch_secret(secret, public_key(k), r) # None
<1>. DEFINE ct == [ek |-> k, r |-> r, intact |-> TRUE]
            sh == combine(diffie_hellman(r, k), [dk |-> k, ct |-> ct, rejected |-> FALSE])
<1>1. ct \in MlKemCt
  BY DEF MlKemCt
<1>2. sh \in Shared
  BY <1>1, SharedTyped
<1>. HIDE DEF sh, ct
<1>3. encrypt(dm_wrap_key(sh), r, <<>>, secret) \in Wrapped
  BY <1>2 DEF encrypt, dm_wrap_key, Wrapped
<1>4. [len |-> CIPHERTEXT_LEN, x_eph |-> r, mlkem |-> ct] \in HybridCt
  BY <1>1 DEF HybridCt, CIPHERTEXT_LEN
<1>5. wrap_dm_epoch_secret(secret, public_key(k), r)
        = [len     |-> WRAPPED_PAYLOAD_LEN,
           ct      |-> [len |-> CIPHERTEXT_LEN, x_eph |-> r, mlkem |-> ct],
           nonce   |-> r,
           wrapped |-> encrypt(dm_wrap_key(sh), r, <<>>, secret)]
  BY DEF wrap_dm_epoch_secret, hybrid_encap, public_key, mlkem_encapsulate, sh, ct
<1>6. WRAPPED_PAYLOAD_LEN \in Nat
  BY DEF WRAPPED_PAYLOAD_LEN, CIPHERTEXT_LEN, WRAP_NONCE_LEN
<1>7. wrap_dm_epoch_secret(secret, public_key(k), r) \in Kam
  BY <1>3, <1>4, <1>5, <1>6 DEF Kam
<1>. QED
  BY <1>7, NoneIsNoValue

\* The KEM and the AEAD together: a KAM opens for the key pair it was made
\* for, to the secret it was made from, and for no other key pair.
LEMMA UnwrapOfWrap ==
    ASSUME NEW secret \in Nat, NEW k \in Nat, NEW r \in Nat, NEW j \in Nat
    PROVE  unwrap_dm_epoch_secret(wrap_dm_epoch_secret(secret, public_key(k), r), private_key(j))
             = IF j = k THEN secret ELSE None
<1>. DEFINE ct  == [ek |-> k, r |-> r, intact |-> TRUE]
            sh  == combine(diffie_hellman(r, k), [dk |-> k, ct |-> ct, rejected |-> FALSE])
            got == combine(diffie_hellman(j, r), [dk |-> j, ct |-> ct, rejected |-> ct.ek # j \/ ~ct.intact])
            kam == wrap_dm_epoch_secret(secret, public_key(k), r)
<1>1. kam = [len     |-> WRAPPED_PAYLOAD_LEN,
             ct      |-> [len |-> CIPHERTEXT_LEN, x_eph |-> r, mlkem |-> ct],
             nonce   |-> r,
             wrapped |-> encrypt(dm_wrap_key(sh), r, <<>>, secret)]
  BY DEF wrap_dm_epoch_secret, hybrid_encap, public_key, mlkem_encapsulate
<1>. HIDE DEF kam, sh
<1>2. hybrid_decap(kam.ct, private_key(j)) = got
  <2>1. /\ kam.ct.len = CIPHERTEXT_LEN
        /\ kam.ct.x_eph = r
        /\ kam.ct.mlkem = ct
    <3>. HIDE DEF ct
    <3>. QED
      BY <1>1
  <2>. QED
    BY <2>1 DEF hybrid_decap, private_key, mlkem_decapsulate
<1>3. got # None
  <2>1. ct \in MlKemCt /\ (ct.ek # j \/ ~ct.intact) \in BOOLEAN
    BY DEF MlKemCt
  <2>. QED
    BY <2>1, SharedTyped
<1>4. (got = sh) <=> (j = k)
  BY DEF combine, diffie_hellman, sh
<1>. HIDE DEF got, ct
<1>5. unwrap_dm_epoch_secret(kam, private_key(j))
        = decrypt(dm_wrap_key(got), r, <<>>, encrypt(dm_wrap_key(sh), r, <<>>, secret))
  BY <1>1, <1>2, <1>3 DEF unwrap_dm_epoch_secret
<1>6. (dm_wrap_key(got) = dm_wrap_key(sh)) <=> (got = sh)
  BY DEF dm_wrap_key
<1>7. decrypt(dm_wrap_key(got), r, <<>>, encrypt(dm_wrap_key(sh), r, <<>>, secret))
        = IF dm_wrap_key(got) = dm_wrap_key(sh) THEN secret ELSE None
  BY DEF decrypt, encrypt
<1>. QED
  BY <1>4, <1>5, <1>6, <1>7 DEF kam

\* Whatever was done to a KAM, unwrapping it fails or yields what it holds.
LEMMA UnwrapResult ==
    ASSUME NEW payload, NEW key
    PROVE  unwrap_dm_epoch_secret(payload, key) \in {None, payload.wrapped.msg}
BY DEF unwrap_dm_epoch_secret, decrypt

-----------------------------------------------------------------------------
(* Maps and persistence *)

\* HashMap::insert keeps a map a map.
LEMMA InsertTyped ==
    ASSUME NEW m, IsSecretMap(m), NEW k \in Nat, NEW v \in Nat
    PROVE  /\ IsSecretMap(insert(m, k, v))
           /\ DOMAIN insert(m, k, v) = DOMAIN m \cup {k}
           /\ insert(m, k, v)[k] = v
           /\ \A x \in DOMAIN m : x # k => insert(m, k, v)[x] = m[x]
BY DEF IsSecretMap, insert

\* The members of a map's JSON object rebuild the map.
LEMMA MembersMap ==
    ASSUME NEW m, IsSecretMap(m)
    PROVE  members_map({<<e, m[e]>> : e \in DOMAIN m}) = m
<1>. DEFINE members == {<<e, m[e]>> : e \in DOMAIN m}
<1>1. {x[1] : x \in members} = DOMAIN m
  <2>1. ASSUME NEW e \in DOMAIN m
        PROVE  e \in {x[1] : x \in members}
    <3>1. <<e, m[e]>> \in members /\ e = <<e, m[e]>>[1]
      OBVIOUS
    <3>. QED
      BY <3>1
  <2>2. ASSUME NEW x \in members
        PROVE  x[1] \in DOMAIN m
    OBVIOUS
  <2>. QED
    BY <2>1, <2>2
<1>2. ASSUME NEW e \in DOMAIN m
      PROVE  (CHOOSE x \in members : x[1] = e)[2] = m[e]
  <2>1. <<e, m[e]>> \in members /\ <<e, m[e]>>[1] = e
    OBVIOUS
  <2>2. \A x \in members : x[1] = e => x = <<e, m[e]>>
    OBVIOUS
  <2>3. (CHOOSE x \in members : x[1] = e) = <<e, m[e]>>
    BY <2>1, <2>2
  <2>. QED
    BY <2>3
<1>3. members_map(members) = [e \in DOMAIN m |-> m[e]]
  BY <1>1, <1>2 DEF members_map
<1>. QED
  BY <1>3 DEF IsSecretMap

\* restore undoes snapshot, given that the ratchet's secret is the filed one.
LEMMA RestoreOfSnapshot ==
    ASSUME NEW s, IsSession(s), Coherent(s)
    PROVE  restore(snapshot(s)) = [ok |-> TRUE, session |-> s]
<1>. DEFINE snap == snapshot(s)
<1>1. members_map(snap.epoch_secrets) = s.epoch_secrets
  BY MembersMap DEF snapshot, IsSession
<1>2. CASE s.ratchet = None
  <2>1. snap.ratchet = None
    BY <1>2 DEF snapshot
  <2>. QED
    BY <1>1, <1>2, <2>1 DEF restore, snapshot, IsSession
<1>3. CASE s.ratchet # None
  <2>1. s.ratchet \in Ratchet
    BY <1>3 DEF IsSession
  <2>2. snap.ratchet = [epoch |-> s.ratchet.epoch, message_index |-> s.ratchet.message_index,
                        epoch_started_at |-> s.ratchet.epoch_started_at]
    BY <1>3 DEF snapshot
  <2>3. snap.ratchet # None
    BY <2>1, <2>2, NoneIsNoValue DEF SavedRatchet, Ratchet
  <2>4. restore_ratchet(snap, s.epoch_secrets)
          = [epoch |-> s.ratchet.epoch, epoch_secret |-> s.ratchet.epoch_secret,
             message_index |-> s.ratchet.message_index, rekey_msg_bound |-> RekeyMsgBound,
             rekey_age_seconds |-> RekeyAge, epoch_started_at |-> s.ratchet.epoch_started_at]
    BY <1>3, <2>2 DEF restore_ratchet, snapshot, Coherent, IsSession
  <2>. QED
    BY <1>1, <1>3, <2>1, <2>2, <2>3, <2>4 DEF restore, snapshot, Coherent, IsSession, Ratchet
<1>. QED
  BY <1>2, <1>3

\* DmSession::with_bounds makes a session, and its snapshot restores.
LEMMA FreshSession ==
    /\ IsSession(with_bounds(RekeyMsgBound, RekeyAge))
    /\ Coherent(with_bounds(RekeyMsgBound, RekeyAge))
BY DEF with_bounds, IsSession, IsSecretMap, Coherent

-----------------------------------------------------------------------------
(* Sender *)

\* begin_epoch with a key of the right length succeeds.
LEMMA BeginEpoch ==
    ASSUME NEW s, NEW epoch \in Nat, NEW k \in Nat, NEW r \in Nat, NEW now \in Nat
    PROVE  begin_epoch(s, epoch, public_key(k), r, now)
             = [ok |-> TRUE,
                session |-> in_epoch(s, epoch, r, wrap_dm_epoch_secret(r, public_key(k), r), now)]
<1>1. wrap_dm_epoch_secret(r, public_key(k), r) # None
  BY WrapTyped
<1>. QED
  BY <1>1 DEF begin_epoch

\* A session that has begun an epoch is one that restore can rebuild.
LEMMA InEpoch ==
    ASSUME NEW s, IsSession(s), NEW epoch \in Nat, NEW secret \in Nat, NEW kam \in Kam,
           NEW now \in Nat
    PROVE  /\ IsSession(in_epoch(s, epoch, secret, kam, now))
           /\ Coherent(in_epoch(s, epoch, secret, kam, now))
           /\ in_epoch(s, epoch, secret, kam, now).ratchet \in Ratchet
<1>. DEFINE t   == in_epoch(s, epoch, secret, kam, now)
            rt  == ratchet_with_bounds(epoch, secret, RekeyMsgBound, RekeyAge, now)
            map == insert(s.epoch_secrets, epoch, secret)
<1>1. rt \in Ratchet /\ rt.epoch = epoch /\ rt.epoch_secret = secret
  BY DEF ratchet_with_bounds, Ratchet
<1>2. IsSecretMap(map) /\ epoch \in DOMAIN map /\ map[epoch] = secret
  <2>1. IsSecretMap(s.epoch_secrets)
    BY DEF IsSession
  <2>. QED
    BY <2>1 DEF IsSecretMap, insert
<1>3. t = [rekey_msg_bound |-> RekeyMsgBound, rekey_age_seconds |-> RekeyAge,
           ratchet |-> rt, epoch_secrets |-> map, current_kam |-> kam]
  <2>1. s.rekey_msg_bound = RekeyMsgBound /\ s.rekey_age_seconds = RekeyAge
    BY DEF IsSession
  <2>. QED
    BY <2>1 DEF in_epoch
<1>. HIDE DEF t, rt, map
<1>4. t.ratchet = rt /\ t.epoch_secrets = map /\ t.current_kam = kam
  BY <1>3
<1>5. kam # None
  BY NoneIsNoValue
<1>6. IsSession(t)
  BY <1>1, <1>2, <1>3, <1>4 DEF IsSession
<1>7. Coherent(t)
  BY <1>1, <1>2, <1>4, <1>5 DEF Coherent
<1>. QED
  BY <1>1, <1>4, <1>6, <1>7 DEF t

\* Session t is s in an epoch that takes another message: the one s is in, or
\* the next one, begun with secret r for the peer's key k.
Ensured(t, s, k, r, now) ==
    \/ t = s /\ begin_at(s, now) = None
    \/ /\ t.ratchet.epoch_secret = r
       /\ t.ratchet.epoch = begin_at(s, now)
       /\ t.ratchet.message_index = 0
       /\ t.ratchet.epoch_started_at = now
       /\ t.epoch_secrets = insert(s.epoch_secrets, begin_at(s, now), r)
       /\ t.current_kam = wrap_dm_epoch_secret(r, public_key(k), r)
       /\ begin_at(s, now) = IF s.ratchet = None THEN 0 ELSE s.ratchet.epoch + 1

\* seal, up to its epoch, with a key of the right length: it always has an
\* epoch to seal in, either the old one or one under the secret just drawn.
LEMMA EnsureEpoch ==
    ASSUME NEW s, IsSession(s), Coherent(s), NEW k \in Nat, NEW r \in Nat, NEW now \in Nat
    PROVE  LET b == ensure_epoch(s, public_key(k), r, now)
           IN  /\ b.ok
               /\ IsSession(b.session)
               /\ Coherent(b.session)
               /\ b.session.ratchet \in Ratchet
               /\ Ensured(b.session, s, k, r, now)
<1>. DEFINE b == ensure_epoch(s, public_key(k), r, now)
<1>1. CASE begin_at(s, now) = None
  <2>1. b = [ok |-> TRUE, session |-> s]
    BY <1>1 DEF ensure_epoch
  <2>2. s.ratchet # None
    BY <1>1, NoneAssumption DEF begin_at
  <2>. QED
    BY <1>1, <2>1, <2>2 DEF IsSession, Ensured
<1>2. CASE begin_at(s, now) # None
  <2>1. begin_at(s, now) = IF s.ratchet = None THEN 0 ELSE s.ratchet.epoch + 1
    BY <1>2 DEF begin_at
  <2>2. begin_at(s, now) \in Nat
    <3>1. CASE s.ratchet = None
      BY <2>1, <3>1
    <3>2. CASE s.ratchet # None
      BY <2>1, <3>2 DEF IsSession, Ratchet
    <3>. QED
      BY <3>1, <3>2
  <2>. DEFINE e   == begin_at(s, now)
              kam == wrap_dm_epoch_secret(r, public_key(k), r)
              t   == in_epoch(s, e, r, kam, now)
  <2>3. b = [ok |-> TRUE, session |-> t]
    BY <1>2, <2>2, BeginEpoch DEF ensure_epoch
  <2>4. kam \in Kam
    BY WrapTyped
  <2>5. /\ t.ratchet.epoch_secret = r
        /\ t.ratchet.epoch = e
        /\ t.ratchet.message_index = 0
        /\ t.ratchet.epoch_started_at = now
        /\ t.epoch_secrets = insert(s.epoch_secrets, e, r)
        /\ t.current_kam = kam
    BY DEF in_epoch, ratchet_with_bounds
  <2>. HIDE DEF e, kam
  <2>6. IsSession(t) /\ Coherent(t) /\ t.ratchet \in Ratchet
    BY <2>2, <2>4, InEpoch DEF e
  <2>. HIDE DEF t
  <2>7. b.ok /\ b.session = t
    BY <2>3
  <2>. QED
    BY <2>1, <2>5, <2>6, <2>7 DEF e, kam, Ensured
<1>. QED
  BY <1>1, <1>2

\* seal with a key of the wrong length leaves the session as it was.
LEMMA RejectedEpoch ==
    ASSUME NEW s, NEW k, NEW r, NEW now
    PROVE  ensure_epoch(s, [public_key(k) EXCEPT !.len = PUBLIC_KEY_LEN - 1], r, now).session = s
<1>1. [public_key(k) EXCEPT !.len = PUBLIC_KEY_LEN - 1].len # PUBLIC_KEY_LEN
  BY DEF public_key, PUBLIC_KEY_LEN
<1>2. wrap_dm_epoch_secret(r, [public_key(k) EXCEPT !.len = PUBLIC_KEY_LEN - 1], r) = None
  BY <1>1 DEF wrap_dm_epoch_secret
<1>. QED
  BY <1>2 DEF ensure_epoch, begin_epoch

\* Taking the next key moves the counter on and nothing else.
LEMMA SealedSession ==
    ASSUME NEW s, IsSession(s), Coherent(s), s.ratchet \in Ratchet
    PROVE  /\ IsSession(sealed_session(s))
           /\ Coherent(sealed_session(s))
           /\ sealed_session(s).ratchet = [s.ratchet EXCEPT !.message_index = @ + 1]
           /\ sealed_session(s).ratchet \in Ratchet
           /\ sealed_session(s).ratchet # None
           /\ sealed_session(s).epoch_secrets = s.epoch_secrets
           /\ sealed_session(s).current_kam = s.current_kam
<1>1. [s.ratchet EXCEPT !.message_index = @ + 1] \in Ratchet
  BY DEF Ratchet
<1>2. sealed_session(s) = [rekey_msg_bound |-> RekeyMsgBound, rekey_age_seconds |-> RekeyAge,
                           ratchet |-> [s.ratchet EXCEPT !.message_index = @ + 1],
                           epoch_secrets |-> s.epoch_secrets, current_kam |-> s.current_kam]
  BY DEF sealed_session, next_outbound_key, IsSession
<1>3. s.ratchet # None
  BY NoneIsNoValue
<1>4. [s.ratchet EXCEPT !.message_index = @ + 1] # None
  BY <1>1, NoneIsNoValue
<1>. QED
  BY <1>1, <1>2, <1>3, <1>4 DEF IsSession, Coherent, Ratchet

\* The frame seal builds, field by field.
LEMMA SealedFrame ==
    ASSUME NEW s, IsSession(s), s.ratchet \in Ratchet, NEW msg \in Nat, NEW nonce \in Nat,
           NEW f, f = sealed_frame(s, msg, nonce)
    PROVE  /\ f \in SealedDmFrame
           /\ f.epoch = s.ratchet.epoch
           /\ f.index = s.ratchet.message_index
           /\ f.nonce = [len |-> FRAME_NONCE_LEN, val |-> nonce]
           /\ f.body = encrypt(<<s.ratchet.epoch_secret, f.epoch, f.index>>, nonce,
                               <<f.epoch, f.index>>, msg)
           /\ f.body.key = <<s.ratchet.epoch_secret, f.epoch, f.index>>
           /\ f.kam \in {None, s.current_kam}
<1>1. f = [epoch |-> s.ratchet.epoch,
           index |-> s.ratchet.message_index,
           nonce |-> [len |-> FRAME_NONCE_LEN, val |-> nonce],
           body  |-> [key    |-> <<s.ratchet.epoch_secret, s.ratchet.epoch, s.ratchet.message_index>>,
                      nonce  |-> nonce,
                      aad    |-> <<s.ratchet.epoch, s.ratchet.message_index>>,
                      msg    |-> msg,
                      intact |-> TRUE],
           kam   |-> kam_for(s, s.ratchet.message_index)]
  BY DEF sealed_frame, next_outbound_key, derive_dm_message_key, frame_aad, encrypt
<1>2. kam_for(s, s.ratchet.message_index) \in {None, s.current_kam}
  BY DEF kam_for
<1>3. kam_for(s, s.ratchet.message_index) \in Kam \cup {None}
  BY <1>2 DEF IsSession
<1>4. s.ratchet.epoch \in Nat /\ s.ratchet.message_index \in Nat /\ s.ratchet.epoch_secret \in Nat
  BY DEF Ratchet
<1>5. FRAME_NONCE_LEN \in Nat
  BY DEF FRAME_NONCE_LEN
<1>6. f \in SealedDmFrame
  BY <1>1, <1>3, <1>4, <1>5 DEF SealedDmFrame
<1>. QED
  BY <1>1, <1>2, <1>6 DEF encrypt

-----------------------------------------------------------------------------
(* Receiver *)

\* What the provers need to know of a frame, damaged or not, to follow open.
Arrived(f) ==
    /\ f.epoch \in Nat
    /\ f.index \in Nat
    /\ f.body.msg \in Nat
    /\ f.kam # None => f.kam.wrapped.msg \in Nat

\* Damage touches one field and leaves the others as they were sealed.
LEMMA ArrivalTyped ==
    ASSUME NEW g \in SealedDmFrame, NEW f \in Arrivals(g)
    PROVE  Arrived(f)
<1>0. /\ g.epoch \in Nat /\ g.index \in Nat /\ g.body.msg \in Nat
      /\ g.kam # None => g.kam \in Kam /\ g.kam.wrapped.msg \in Nat
  BY DEF SealedDmFrame, Kam, Wrapped
<1>1. CASE f = g
  BY <1>0, <1>1 DEF Arrived
<1>2. CASE f # g
  <2>1. PICK kind \in DamageKinds : /\ kind \in {"kam_ct", "kam_len"} => g.kam # None
                                    /\ f = Damaged(g, kind)
    BY <1>2 DEF Arrivals
  <2>2. kind \in AllDamage
    BY DamageAssumption
  <2>3. CASE kind = "body"
    BY <1>0, <2>1, <2>3 DEF Damaged, Arrived, SealedDmFrame
  <2>4. CASE kind = "index"
    BY <1>0, <2>1, <2>4 DEF Damaged, Arrived, SealedDmFrame
  <2>5. CASE kind = "kam_ct"
    BY <1>0, <2>1, <2>5 DEF Damaged, Arrived, SealedDmFrame, Kam
  <2>6. CASE kind = "kam_len"
    BY <1>0, <2>1, <2>6 DEF Damaged, Arrived, SealedDmFrame, Kam
  <2>7. CASE kind = "epoch"
    BY <1>0, <2>1, <2>7 DEF Damaged, Arrived, SealedDmFrame
  <2>8. CASE kind = "nonce"
    BY <1>0, <2>1, <2>8 DEF Damaged, Arrived, SealedDmFrame
  <2>. QED
    BY <2>2, <2>3, <2>4, <2>5, <2>6, <2>7, <2>8 DEF AllDamage
<1>. QED
  BY <1>1, <1>2

\* open adds at most one secret, for the frame's epoch, and only if that
\* epoch had none.
LEMMA OpenSession ==
    ASSUME NEW s, IsSession(s), Coherent(s), NEW f, Arrived(f), NEW key, NEW t,
           t = open_session(s, f, key)
    PROVE  /\ IsSession(t)
           /\ Coherent(t)
           /\ t.ratchet = s.ratchet
           /\ t.current_kam = s.current_kam
           /\ \/ t = s
              \/ /\ f.kam # None
                 /\ f.epoch \notin DOMAIN s.epoch_secrets
                 /\ unwrap_dm_epoch_secret(f.kam, key) \in Nat
                 /\ t.epoch_secrets
                      = insert(s.epoch_secrets, f.epoch, unwrap_dm_epoch_secret(f.kam, key))
<1>. DEFINE k == kam_secret(s, f, key)
<1>1. CASE k.secret = None
  BY <1>1 DEF open_session
<1>2. CASE k.secret # None
  <2>. DEFINE v   == unwrap_dm_epoch_secret(f.kam, key)
              map == insert(s.epoch_secrets, f.epoch, v)
  <2>1. f.kam # None /\ f.epoch \notin DOMAIN s.epoch_secrets /\ k.secret = v
    BY <1>2 DEF kam_secret
  <2>2. v \in Nat
    BY <1>2, <2>1, UnwrapResult DEF Arrived
  <2>3. t = [s EXCEPT !.epoch_secrets = map]
    BY <1>2, <2>1 DEF open_session
  <2>. HIDE DEF k, v
  <2>4. f.epoch \in Nat /\ IsSecretMap(s.epoch_secrets)
    BY DEF Arrived, IsSession
  <2>5. IsSecretMap(map) /\ \A x \in DOMAIN s.epoch_secrets :
                               x \in DOMAIN map /\ map[x] = s.epoch_secrets[x]
    BY <2>1, <2>2, <2>4 DEF IsSecretMap, insert
  <2>. HIDE DEF map
  <2>6. t = [rekey_msg_bound |-> RekeyMsgBound, rekey_age_seconds |-> RekeyAge,
             ratchet |-> s.ratchet, epoch_secrets |-> map, current_kam |-> s.current_kam]
    BY <2>3 DEF IsSession
  <2>7. t.ratchet = s.ratchet /\ t.epoch_secrets = map /\ t.current_kam = s.current_kam
    BY <2>6
  <2>8. IsSession(t)
    BY <2>5, <2>6, <2>7 DEF IsSession
  <2>9. Coherent(t)
    BY <2>5, <2>7 DEF Coherent
  <2>. QED
    BY <2>1, <2>2, <2>7, <2>8, <2>9 DEF v, map
<1>. QED
  BY <1>1, <1>2

\* A body that opens yields what was sealed in it.
LEMMA OpenBody ==
    ASSUME NEW s, NEW f
    PROVE  open_body(s, f) \in {None, f.body.msg}
BY DEF open_body, decrypt

-----------------------------------------------------------------------------
(* Types, and sessions that snapshots can rebuild *)

LEMMA InitTypeInv == Init => TypeInv
<1>. SUFFICES ASSUME Init PROVE TypeInv
  OBVIOUS
<1>. DEFINE s == with_bounds(RekeyMsgBound, RekeyAge)
<1>1. IsSession(s) /\ Coherent(s)
  BY FreshSession
<1>2. restore(snapshot(s)) = [ok |-> TRUE, session |-> s]
  BY <1>1, RestoreOfSnapshot
<1>. HIDE DEF s
<1>3. \A p \in Party : session[p] = s /\ disk[p] = snapshot(s)
  BY DEF Init, s
<1>4. TypeOK
  <2>1. DOMAIN session = Party /\ DOMAIN disk = Party
    BY DEF Init
  <2>2. \A p \in Party : IsSession(session[p])
    BY <1>1, <1>3
  <2>3. \A p \in Party : restore(disk[p]).ok /\ IsSession(restore(disk[p]).session)
    BY <1>1, <1>2, <1>3
  <2>4. hybridKey \in [Party -> Nat] /\ published \in [Party -> SUBSET Nat]
    BY DEF Init
  <2>5. /\ clock \in Nat /\ rng \in Nat /\ net = {} /\ panicked \in BOOLEAN
        /\ opened \in [Party -> SUBSET [epoch : Nat, index : Nat, msg : Nat]]
        /\ kamSeen \in [Party -> SUBSET Nat]
    BY DEF Init
  <2>. QED
    BY <2>1, <2>2, <2>3, <2>4, <2>5 DEF TypeOK
<1>5. AllCoherent
  BY <1>1, <1>2, <1>3 DEF AllCoherent
<1>. QED
  BY <1>4, <1>5 DEF TypeInv

\* Every step that leaves the snapshots alone and gives one host a session
\* that is typed and coherent keeps both sides of the session invariant.
LEMMA SessionStep ==
    ASSUME TypeInv, NEW p \in Party, NEW t, IsSession(t), Coherent(t),
           session' = [session EXCEPT ![p] = t], disk' = disk
    PROVE  /\ DOMAIN session' = Party
           /\ \A q \in Party : IsSession(session'[q]) /\ Coherent(session'[q])
           /\ session'[p] = t
           /\ \A q \in Party : q # p => session'[q] = session[q]
           /\ AllCoherent'
<1>1. /\ DOMAIN session = Party
      /\ \A q \in Party : IsSession(session[q]) /\ Coherent(session[q])
                            /\ Coherent(restore(disk[q]).session)
  BY DEF TypeInv, TypeOK, AllCoherent
<1>2. DOMAIN session' = Party /\ \A q \in Party : session'[q] = IF q = p THEN t ELSE session[q]
  BY <1>1
<1>3. \A q \in Party : IsSession(session'[q]) /\ Coherent(session'[q])
  BY <1>1, <1>2
<1>. QED
  BY <1>1, <1>2, <1>3 DEF AllCoherent

\* What seal has to work with before it takes a key.
LEMMA EpochForSealing ==
    ASSUME TypeInv, NEW p \in Party, NEW k \in Nat
    PROVE  /\ IsSession(EpochFor(p, k).session)
           /\ Coherent(EpochFor(p, k).session)
           /\ EpochFor(p, k).session.ratchet \in Ratchet
           /\ Ensured(EpochFor(p, k).session, session[p], k, rng + 1, clock)
<1>1. IsSession(session[p]) /\ Coherent(session[p]) /\ rng + 1 \in Nat /\ clock \in Nat
  BY DEF TypeInv, TypeOK, AllCoherent
<1>. QED
  BY <1>1, EnsureEpoch DEF EpochFor

\* Keys a peer has announced are numbers.
LEMMA PublishedKeys ==
    ASSUME TypeInv, NEW p \in Party, NEW k \in published[peer(p)]
    PROVE  k \in Nat /\ peer(p) \in Party
BY DEF TypeInv, TypeOK, peer, Party

LEMMA NextTypeInv == TypeInv /\ [Next]_vars => TypeInv'
<1>. SUFFICES ASSUME TypeInv, [Next]_vars PROVE TypeInv'
  OBVIOUS
<1>1. ASSUME NEW p \in Senders, NEW k \in published[peer(p)], Seal(p, k)
      PROVE  TypeInv'
  <2>. DEFINE s == EpochFor(p, k).session
              f == sealed_frame(s, rng + 2, rng + 2)
  <2>1. p \in Party
    BY PartyAssumption
  <2>2. k \in Nat
    BY <2>1, PublishedKeys
  <2>3. IsSession(s) /\ Coherent(s) /\ s.ratchet \in Ratchet
    BY <2>1, <2>2, EpochForSealing
  <2>4. rng \in Nat /\ rng + 2 \in Nat /\ clock \in Nat
    BY DEF TypeInv, TypeOK
  <2>. HIDE DEF s
  <2>5. f \in SealedDmFrame
    BY <2>3, <2>4, SealedFrame
  <2>6. IsSession(sealed_session(s)) /\ Coherent(sealed_session(s))
    BY <2>3, SealedSession
  <2>7. /\ session' = [session EXCEPT ![p] = sealed_session(s)]
        /\ disk' = disk
        /\ net' = net \cup {[from |-> p, at |-> clock, frame |-> f]}
        /\ rng' = rng + 2
        /\ UNCHANGED <<hybridKey, published, clock, opened, kamSeen, panicked>>
    BY <1>1 DEF Seal, s
  <2>8. /\ DOMAIN session' = Party
        /\ \A q \in Party : IsSession(session'[q])
        /\ AllCoherent'
    BY <2>1, <2>6, <2>7, SessionStep
  <2>. HIDE DEF f
  <2>9. TypeOK'
    BY <2>1, <2>4, <2>5, <2>7, <2>8 DEF TypeInv, TypeOK
  <2>. QED
    BY <2>8, <2>9 DEF TypeInv
<1>2. ASSUME NEW p \in Senders, NEW k \in published[peer(p)], SealEncryptFails(p, k)
      PROVE  TypeInv'
  <2>. DEFINE s == EpochFor(p, k).session
  <2>1. p \in Party
    BY PartyAssumption
  <2>2. k \in Nat
    BY <2>1, PublishedKeys
  <2>3. IsSession(s) /\ Coherent(s) /\ s.ratchet \in Ratchet
    BY <2>1, <2>2, EpochForSealing
  <2>. HIDE DEF s
  <2>4. IsSession(sealed_session(s)) /\ Coherent(sealed_session(s))
    BY <2>3, SealedSession
  <2>5. /\ session' = [session EXCEPT ![p] = sealed_session(s)]
        /\ disk' = disk
        /\ rng' = rng + 2
        /\ UNCHANGED <<hybridKey, published, clock, net, opened, kamSeen, panicked>>
    BY <1>2 DEF SealEncryptFails, s
  <2>6. /\ DOMAIN session' = Party
        /\ \A q \in Party : IsSession(session'[q])
        /\ AllCoherent'
    BY <2>1, <2>4, <2>5, SessionStep
  <2>7. TypeOK'
    BY <2>5, <2>6 DEF TypeInv, TypeOK
  <2>. QED
    BY <2>6, <2>7 DEF TypeInv
<1>3. ASSUME NEW p \in Senders, SealRejected(p)
      PROVE  TypeInv'
  <2>1. p \in Party
    BY PartyAssumption
  <2>2. session' = [session EXCEPT ![p] = session[p]]
    <3>1. ensure_epoch(session[p],
                       [public_key(hybridKey[peer(p)]) EXCEPT !.len = PUBLIC_KEY_LEN - 1],
                       rng + 1, clock).session = session[p]
      BY RejectedEpoch
    <3>. QED
      BY <1>3, <3>1 DEF SealRejected
  <2>3. IsSession(session[p]) /\ Coherent(session[p])
    BY <2>1 DEF TypeInv, TypeOK, AllCoherent
  <2>4. /\ disk' = disk
        /\ UNCHANGED <<hybridKey, published, clock, rng, net, opened, kamSeen, panicked>>
    BY <1>3 DEF SealRejected
  <2>5. /\ DOMAIN session' = Party
        /\ \A q \in Party : IsSession(session'[q])
        /\ AllCoherent'
    BY <2>1, <2>2, <2>3, <2>4, SessionStep
  <2>6. TypeOK'
    BY <2>4, <2>5 DEF TypeInv, TypeOK
  <2>. QED
    BY <2>5, <2>6 DEF TypeInv
<1>4. ASSUME NEW p \in Party, Deliver(p)
      PROVE  TypeInv'
  <2>1. PICK m \in net : \E f \in Arrivals(m.frame) : Open(p, m, f)
    BY <1>4 DEF Deliver
  <2>2. PICK f \in Arrivals(m.frame) : Open(p, m, f)
    BY <2>1
  <2>3. m.frame \in SealedDmFrame
    BY DEF TypeInv, TypeOK
  <2>4. Arrived(f)
    BY <2>3, ArrivalTyped
  <2>. DEFINE priv == private_key(hybridKey[p])
              t    == open_session(session[p], f, priv)
  <2>5. IsSession(session[p]) /\ Coherent(session[p])
    BY DEF TypeInv, TypeOK, AllCoherent
  <2>6. IsSession(t) /\ Coherent(t)
    BY <2>4, <2>5, OpenSession
  <2>7. /\ session' = [session EXCEPT ![p] = t]
        /\ disk' = disk
        /\ UNCHANGED <<hybridKey, published, clock, rng, net>>
    BY <2>2 DEF Open
  <2>8. kamSeen' \in [Party -> SUBSET Nat]
    <3>1. kamSeen' = kamSeen \/ kamSeen' = [kamSeen EXCEPT ![p] = @ \cup {f.epoch}]
      BY <2>2 DEF Open
    <3>. QED
      BY <2>4, <3>1 DEF TypeInv, TypeOK, Arrived
  <2>9. panicked' \in BOOLEAN
    BY <2>2 DEF Open
  <2>10. opened' \in [Party -> SUBSET [epoch : Nat, index : Nat, msg : Nat]]
    <3>. DEFINE o == [epoch |-> f.epoch, index |-> f.index, msg |-> open_body(t, f)]
    <3>1. opened \in [Party -> SUBSET [epoch : Nat, index : Nat, msg : Nat]]
      BY DEF TypeInv, TypeOK
    <3>2. CASE open_outcome(session[p], f, priv) # "Ok"
      BY <2>2, <3>1, <3>2 DEF Open
    <3>3. CASE open_outcome(session[p], f, priv) = "Ok"
      <4>1. open_body(t, f) # None
        BY <3>3 DEF open_outcome
      <4>2. open_body(t, f) \in Nat
        BY <2>4, <4>1, OpenBody DEF Arrived
      <4>3. opened' = [opened EXCEPT ![p] = @ \cup {o}]
        BY <2>2, <3>3 DEF Open
      <4>4. o \in [epoch : Nat, index : Nat, msg : Nat]
        BY <2>4, <4>2 DEF Arrived
      <4>. QED
        BY <3>1, <4>3, <4>4
    <3>. QED
      BY <3>2, <3>3
  <2>. HIDE DEF t
  <2>11. /\ DOMAIN session' = Party
         /\ \A q \in Party : IsSession(session'[q])
         /\ AllCoherent'
    BY <2>6, <2>7, SessionStep
  <2>12. TypeOK'
    BY <2>7, <2>8, <2>9, <2>10, <2>11 DEF TypeInv, TypeOK
  <2>. QED
    BY <2>11, <2>12 DEF TypeInv
<1>5. ASSUME NEW p \in Party, Save(p)
      PROVE  TypeInv'
  <2>1. IsSession(session[p]) /\ Coherent(session[p])
    BY DEF TypeInv, TypeOK, AllCoherent
  <2>2. restore(snapshot(session[p])) = [ok |-> TRUE, session |-> session[p]]
    BY <2>1, RestoreOfSnapshot
  <2>3. /\ DOMAIN disk' = Party
        /\ disk'[p] = snapshot(session[p])
        /\ \A q \in Party : q # p => disk'[q] = disk[q]
    BY <1>5 DEF Save, TypeInv, TypeOK
  <2>4. UNCHANGED <<session, hybridKey, published, clock, rng, net, opened, kamSeen, panicked>>
    BY <1>5 DEF Save
  <2>5. TypeOK'
    BY <2>1, <2>2, <2>3, <2>4 DEF TypeInv, TypeOK
  <2>6. AllCoherent'
    BY <2>1, <2>2, <2>3, <2>4 DEF TypeInv, AllCoherent
  <2>. QED
    BY <2>5, <2>6 DEF TypeInv
<1>6. ASSUME NEW p \in Party, Restart(p)
      PROVE  TypeInv'
  <2>1. PICK snap \in {snapshot(session[p]), disk[p]} :
             session' = [session EXCEPT ![p] = restore(snap).session]
    BY <1>6 DEF Restart
  <2>2. IsSession(restore(snap).session) /\ Coherent(restore(snap).session)
    <3>1. CASE snap = disk[p]
      BY <3>1 DEF TypeInv, TypeOK, AllCoherent
    <3>2. CASE snap = snapshot(session[p])
      <4>1. IsSession(session[p]) /\ Coherent(session[p])
        BY DEF TypeInv, TypeOK, AllCoherent
      <4>. QED
        BY <3>2, <4>1, RestoreOfSnapshot
    <3>. QED
      BY <3>1, <3>2
  <2>3. /\ disk' = disk
        /\ UNCHANGED <<hybridKey, published, clock, rng, net, opened, kamSeen, panicked>>
    BY <1>6 DEF Restart
  <2>4. /\ DOMAIN session' = Party
        /\ \A q \in Party : IsSession(session'[q])
        /\ AllCoherent'
    BY <2>1, <2>2, <2>3, SessionStep
  <2>5. TypeOK'
    BY <2>3, <2>4 DEF TypeInv, TypeOK
  <2>. QED
    BY <2>4, <2>5 DEF TypeInv
<1>7. ASSUME NEW p \in Party, RotateKey(p)
      PROVE  TypeInv'
  BY <1>7 DEF RotateKey, TypeInv, TypeOK, AllCoherent
<1>8. CASE Tick
  <2>1. clock' \in Nat
    BY <1>8, BoundAssumption DEF Tick
  <2>. QED
    BY <1>8, <2>1 DEF Tick, TypeInv, TypeOK, AllCoherent
<1>9. CASE UNCHANGED vars
  BY <1>9 DEF vars, TypeInv, TypeOK, AllCoherent
<1>. QED
  BY <1>1, <1>2, <1>3, <1>4, <1>5, <1>6, <1>7, <1>8, <1>9 DEF Next

\* Types and coherence of sessions and snapshots are inductive.
THEOREM TypeInvariance == Spec => []TypeInv
BY InitTypeInv, NextTypeInv, PTL DEF Spec

\* The variables keep their types, whatever the hosts, the transport and the
\* clock do: in particular every stored snapshot restores to a session.
THEOREM TypeCorrectness == Spec => []TypeOK
<1>1. TypeInv => TypeOK
  BY DEF TypeInv
<1>. QED
  BY <1>1, TypeInvariance, PTL

\* restore(snapshot(s)) is s in every reachable state: the secret and the
\* bounds a snapshot leaves out are found again, although open and begin_epoch
\* both write the store they are found in.
THEOREM RestoreExactness == Spec => []RestoreIsExact
<1>1. TypeInv => RestoreIsExact
  BY RestoreOfSnapshot DEF TypeInv, TypeOK, AllCoherent, RestoreIsExact
<1>. QED
  BY <1>1, TypeInvariance, PTL

-----------------------------------------------------------------------------
(* Message keys are used once *)

LEMMA InitKeyInv == Init => KeyInv
<1>. SUFFICES ASSUME Init PROVE KeyInv
  OBVIOUS
<1>1. net = {} /\ \A p \in Party : session[p].ratchet = None
  BY DEF Init, with_bounds
<1>. QED
  BY <1>1 DEF KeyInv, SecretsDrawn, KeysNameSlots, CounterAhead, OwnSecrets, OneFramePerKey

\* The two outcomes of seal's first half, as KeyInv sees them: the ratchet
\* is the old one, or it is at index 0 of a secret never drawn before.
LEMMA EpochForCases ==
    ASSUME TypeInv, NEW p \in Party, NEW k \in Nat
    PROVE  LET s == EpochFor(p, k).session
           IN  \/ s = session[p]
               \/ s.ratchet.epoch_secret = rng + 1 /\ s.ratchet.message_index = 0
BY EpochForSealing DEF Ensured

\* What both ways a seal of p can end do to the ratchets, s being the session
\* the key is taken from: p's ratchet is at a secret that no other host and no
\* other host's frame has, and its counter has passed the index it stood at.
RatchetsAfterSeal(p, s) ==
    /\ session'[p].ratchet # None
    /\ session'[p].ratchet.epoch_secret = s.ratchet.epoch_secret
    /\ session'[p].ratchet.message_index = s.ratchet.message_index + 1
    /\ s.ratchet.epoch_secret <= rng'
    /\ \A q \in Party : q # p => session'[q] = session[q]
    /\ \A q \in Party : q # p /\ session[q].ratchet # None
           => session[q].ratchet.epoch_secret # s.ratchet.epoch_secret
    /\ \A m \in net : m.frame.body.key[1] = s.ratchet.epoch_secret
           => m.from = p /\ m.frame.index < s.ratchet.message_index

LEMMA SealRatchets ==
    ASSUME TypeInv, KeyInv, NEW p \in Party, NEW k \in Nat,
           session' = [session EXCEPT ![p] = sealed_session(EpochFor(p, k).session)],
           rng' = rng + 2
    PROVE  RatchetsAfterSeal(p, EpochFor(p, k).session)
<1>. DEFINE s == EpochFor(p, k).session
<1>1. IsSession(s) /\ Coherent(s) /\ s.ratchet \in Ratchet
  BY EpochForSealing
<1>2. s = session[p] \/ (s.ratchet.epoch_secret = rng + 1 /\ s.ratchet.message_index = 0)
  BY EpochForCases
<1>. HIDE DEF s
<1>3. /\ sealed_session(s).ratchet = [s.ratchet EXCEPT !.message_index = @ + 1]
      /\ sealed_session(s).ratchet # None
  BY <1>1, SealedSession
<1>4. /\ session'[p] = sealed_session(s)
      /\ \A q \in Party : q # p => session'[q] = session[q]
  BY DEF s, TypeInv, TypeOK
<1>5. /\ sealed_session(s).ratchet.epoch_secret = s.ratchet.epoch_secret
      /\ sealed_session(s).ratchet.message_index = s.ratchet.message_index + 1
      /\ s.ratchet # None
      /\ s.ratchet.epoch_secret \in Nat /\ s.ratchet.message_index \in Nat
  BY <1>1, <1>3, NoneIsNoValue DEF Ratchet
<1>6. rng \in Nat
  BY DEF TypeInv, TypeOK
<1>. DEFINE Drawn   == s.ratchet.epoch_secret <= rng + 2
            Private == \A q \in Party : q # p /\ session[q].ratchet # None
                          => session[q].ratchet.epoch_secret # s.ratchet.epoch_secret
            Passed  == \A m \in net : m.frame.body.key[1] = s.ratchet.epoch_secret
                          => m.from = p /\ m.frame.index < s.ratchet.message_index
<1>7. ASSUME s = session[p]
      PROVE  Drawn /\ Private /\ Passed
  <2>1. Drawn
    BY <1>5, <1>6, <1>7 DEF KeyInv, SecretsDrawn
  <2>2. Private
    BY <1>5, <1>7 DEF KeyInv, OwnSecrets
  <2>3. Passed
    BY <1>5, <1>7 DEF KeyInv, CounterAhead
  <2>. QED
    BY <2>1, <2>2, <2>3
<1>8. ASSUME s.ratchet.epoch_secret = rng + 1 /\ s.ratchet.message_index = 0
      PROVE  Drawn /\ Private /\ Passed
  <2>1. Drawn
    BY <1>6, <1>8
  <2>2. Private
    BY <1>6, <1>8 DEF KeyInv, SecretsDrawn
  <2>3. Passed
    BY <1>6, <1>8 DEF KeyInv, SecretsDrawn
  <2>. QED
    BY <2>1, <2>2, <2>3
<1>9. Drawn /\ Private /\ Passed
  BY <1>2, <1>7, <1>8
<1>10. /\ session'[p].ratchet # None
       /\ session'[p].ratchet.epoch_secret = s.ratchet.epoch_secret
       /\ session'[p].ratchet.message_index = s.ratchet.message_index + 1
       /\ s.ratchet.epoch_secret <= rng'
  BY <1>3, <1>4, <1>5, <1>9
<1>. QED
  BY <1>4, <1>9, <1>10, Zenon DEF s, RatchetsAfterSeal

\* A step that seals nothing and leaves the ratchets alone.
LEMMA KeyInvKept ==
    ASSUME KeyInv, TypeInv, net' = net, rng' \in Nat, rng <= rng',
           \A p \in Party : session'[p].ratchet = session[p].ratchet
    PROVE  KeyInv'
<1>1. rng \in Nat
      /\ \A p \in Party : session[p].ratchet # None => session[p].ratchet.epoch_secret \in Nat
  BY DEF TypeInv, TypeOK, IsSession, Ratchet
<1>2. \A m \in net : m.frame.body.key[1] \in Nat
  BY DEF TypeInv, TypeOK, SealedDmFrame
<1>3. SecretsDrawn'
  BY <1>1, <1>2 DEF KeyInv, SecretsDrawn
<1>4. KeysNameSlots' /\ OneFramePerKey'
  BY DEF KeyInv, KeysNameSlots, OneFramePerKey
<1>5. CounterAhead'
  BY DEF KeyInv, CounterAhead
<1>6. OwnSecrets'
  BY DEF KeyInv, OwnSecrets
<1>. QED
  BY <1>3, <1>4, <1>5, <1>6 DEF KeyInv

\* With snapshots always up to date, a restart gives back the same session.
LEMMA RestartKeepsSession ==
    ASSUME TypeInv, ~StaleRestore, NEW p \in Party, Restart(p)
    PROVE  \A q \in Party : session'[q] = session[q]
<1>1. IsSession(session[p]) /\ Coherent(session[p]) /\ DOMAIN session = Party
  BY DEF TypeInv, TypeOK, AllCoherent
<1>2. restore(snapshot(session[p])) = [ok |-> TRUE, session |-> session[p]]
  BY <1>1, RestoreOfSnapshot
<1>3. session' = [session EXCEPT ![p] = restore(snapshot(session[p])).session]
  BY DEF Restart
<1>. QED
  BY <1>1, <1>2, <1>3

LEMMA NextKeyInv ==
    ASSUME ~StaleRestore
    PROVE  TypeInv /\ KeyInv /\ [Next]_vars => KeyInv'
<1>. SUFFICES ASSUME TypeInv, KeyInv, [Next]_vars PROVE KeyInv'
  OBVIOUS
<1>0. /\ rng \in Nat /\ rng <= rng /\ rng <= rng + 1
      /\ rng + 1 \in Nat /\ rng + 2 \in Nat
  BY DEF TypeInv, TypeOK
<1>1. ASSUME NEW p \in Senders, NEW k \in published[peer(p)], Seal(p, k)
      PROVE  KeyInv'
  <2>. DEFINE s == EpochFor(p, k).session
              f == sealed_frame(s, rng + 2, rng + 2)
              n == [from |-> p, at |-> clock, frame |-> f]
  <2>1. p \in Party
    BY PartyAssumption
  <2>2. k \in Nat
    BY <2>1, PublishedKeys
  <2>3. /\ session' = [session EXCEPT ![p] = sealed_session(s)]
        /\ rng' = rng + 2
        /\ net' = net \cup {n}
    BY <1>1 DEF Seal
  <2>4. IsSession(s) /\ s.ratchet \in Ratchet
    BY <2>1, <2>2, EpochForSealing
  <2>5. RatchetsAfterSeal(p, s)
    BY <2>1, <2>2, <2>3, SealRatchets
  <2>. HIDE DEF s
  <2>6. /\ f.index = s.ratchet.message_index
        /\ f.body.key = <<s.ratchet.epoch_secret, f.epoch, f.index>>
    BY DEF sealed_frame, next_outbound_key, derive_dm_message_key, encrypt
  <2>7. n.from = p /\ n.frame = f
    OBVIOUS
  <2>. HIDE DEF f, n
  <2>8. /\ s.ratchet.epoch_secret \in Nat /\ s.ratchet.message_index \in Nat
        /\ \A m \in net : m.frame.body.key[1] \in Nat /\ m.frame.index \in Nat
        /\ \A q \in Party : session[q].ratchet # None => session[q].ratchet.epoch_secret \in Nat
    BY <2>4 DEF TypeInv, TypeOK, SealedDmFrame, IsSession, Ratchet
  <2>9. n.frame.body.key[1] = s.ratchet.epoch_secret
    BY <2>6, <2>7
  <2>10. SecretsDrawn'
    BY <1>0, <2>3, <2>5, <2>8, <2>9 DEF KeyInv, SecretsDrawn, RatchetsAfterSeal
  <2>11. KeysNameSlots'
    BY <2>3, <2>6, <2>7, <2>9 DEF KeyInv, KeysNameSlots
  <2>12. CounterAhead'
    <3>. SUFFICES ASSUME NEW q \in Party, session'[q].ratchet # None, NEW m \in net',
                         m.frame.body.key[1] = session'[q].ratchet.epoch_secret
                  PROVE  m.from = q /\ m.frame.index < session'[q].ratchet.message_index
      BY DEF CounterAhead
    <3>1. CASE q = p /\ m \in net
      BY <2>5, <2>8, <3>1 DEF RatchetsAfterSeal
    <3>2. CASE q = p /\ m = n
      BY <2>5, <2>6, <2>7, <2>8, <3>2 DEF RatchetsAfterSeal
    <3>3. CASE q # p /\ m \in net
      BY <2>5, <3>3 DEF KeyInv, CounterAhead, RatchetsAfterSeal
    <3>4. CASE q # p /\ m = n
      BY <2>5, <2>9, <3>4 DEF RatchetsAfterSeal
    <3>. QED
      BY <2>3, <3>1, <3>2, <3>3, <3>4
  <2>13. OwnSecrets'
    <3>. SUFFICES ASSUME NEW q \in Party, NEW o \in Party,
                         session'[q].ratchet # None, session'[o].ratchet # None,
                         session'[q].ratchet.epoch_secret = session'[o].ratchet.epoch_secret
                  PROVE  q = o
      BY DEF OwnSecrets
    <3>1. CASE q # p /\ o # p
      BY <2>5, <3>1 DEF KeyInv, OwnSecrets, RatchetsAfterSeal
    <3>2. CASE q = p \/ o = p
      BY <2>5, <3>2 DEF RatchetsAfterSeal
    <3>. QED
      BY <3>1, <3>2
  <2>14. OneFramePerKey'
    <3>1. ASSUME NEW m \in net, m.frame.body.key = n.frame.body.key
          PROVE  FALSE
      <4>1. m.frame.body.key[1] = s.ratchet.epoch_secret
        BY <2>9, <3>1
      <4>2. m.frame.index < s.ratchet.message_index
        BY <2>5, <4>1 DEF RatchetsAfterSeal
      <4>3. m.frame.body.key[3] = m.frame.index
        BY DEF KeyInv, KeysNameSlots
      <4>4. n.frame.body.key[3] = s.ratchet.message_index
        BY <2>6, <2>7
      <4>. QED
        BY <2>8, <3>1, <4>2, <4>3, <4>4
    <3>. QED
      BY <2>3, <3>1 DEF KeyInv, OneFramePerKey
  <2>. QED
    BY <2>10, <2>11, <2>12, <2>13, <2>14 DEF KeyInv
<1>2. ASSUME NEW p \in Senders, NEW k \in published[peer(p)], SealEncryptFails(p, k)
      PROVE  KeyInv'
  <2>. DEFINE s == EpochFor(p, k).session
  <2>1. p \in Party
    BY PartyAssumption
  <2>2. k \in Nat
    BY <2>1, PublishedKeys
  <2>3. /\ session' = [session EXCEPT ![p] = sealed_session(s)]
        /\ rng' = rng + 2
        /\ net' = net
    BY <1>2 DEF SealEncryptFails
  <2>4. s.ratchet \in Ratchet
    BY <2>1, <2>2, EpochForSealing
  <2>5. RatchetsAfterSeal(p, s)
    BY <2>1, <2>2, <2>3, SealRatchets
  <2>. HIDE DEF s
  <2>6. /\ s.ratchet.epoch_secret \in Nat /\ s.ratchet.message_index \in Nat
        /\ \A m \in net : m.frame.body.key[1] \in Nat /\ m.frame.index \in Nat
        /\ \A q \in Party : session[q].ratchet # None => session[q].ratchet.epoch_secret \in Nat
    BY <2>4 DEF TypeInv, TypeOK, SealedDmFrame, IsSession, Ratchet
  <2>7. SecretsDrawn'
    BY <1>0, <2>3, <2>5, <2>6 DEF KeyInv, SecretsDrawn, RatchetsAfterSeal
  <2>8. KeysNameSlots' /\ OneFramePerKey'
    BY <2>3 DEF KeyInv, KeysNameSlots, OneFramePerKey
  <2>9. CounterAhead'
    BY <2>3, <2>5, <2>6 DEF KeyInv, CounterAhead, RatchetsAfterSeal
  <2>10. OwnSecrets'
    BY <2>5 DEF KeyInv, OwnSecrets, RatchetsAfterSeal
  <2>. QED
    BY <2>7, <2>8, <2>9, <2>10 DEF KeyInv
<1>3. ASSUME NEW p \in Senders, SealRejected(p)
      PROVE  KeyInv'
  <2>1. ensure_epoch(session[p],
                     [public_key(hybridKey[peer(p)]) EXCEPT !.len = PUBLIC_KEY_LEN - 1],
                     rng + 1, clock).session = session[p]
    BY RejectedEpoch
  <2>2. session' = [session EXCEPT ![p] = session[p]] /\ net' = net /\ rng' = rng
    BY <1>3, <2>1 DEF SealRejected
  <2>3. \A q \in Party : session'[q] = session[q]
    BY <2>2 DEF TypeInv, TypeOK
  <2>. QED
    BY <1>0, <2>2, <2>3, KeyInvKept
<1>4. ASSUME NEW p \in Party, Deliver(p)
      PROVE  KeyInv'
  <2>1. PICK m \in net : \E f \in Arrivals(m.frame) : Open(p, m, f)
    BY <1>4 DEF Deliver
  <2>2. PICK f \in Arrivals(m.frame) : Open(p, m, f)
    BY <2>1
  <2>3. Arrived(f)
    BY ArrivalTyped DEF TypeInv, TypeOK
  <2>. DEFINE t == open_session(session[p], f, private_key(hybridKey[p]))
  <2>4. IsSession(session[p]) /\ Coherent(session[p])
    BY DEF TypeInv, TypeOK, AllCoherent
  <2>5. t.ratchet = session[p].ratchet
    BY <2>3, <2>4, OpenSession
  <2>6. session' = [session EXCEPT ![p] = t] /\ net' = net /\ rng' = rng
    BY <2>2 DEF Open
  <2>. HIDE DEF t
  <2>7. \A q \in Party : session'[q].ratchet = session[q].ratchet
    BY <2>5, <2>6 DEF TypeInv, TypeOK
  <2>. QED
    BY <1>0, <2>6, <2>7, KeyInvKept
<1>5. ASSUME NEW p \in Party, Save(p)
      PROVE  KeyInv'
  BY <1>0, <1>5, KeyInvKept DEF Save
<1>6. ASSUME NEW p \in Party, Restart(p)
      PROVE  KeyInv'
  <2>1. \A q \in Party : session'[q] = session[q]
    BY <1>6, RestartKeepsSession
  <2>2. net' = net /\ rng' = rng
    BY <1>6 DEF Restart
  <2>. QED
    BY <1>0, <2>1, <2>2, KeyInvKept
<1>7. ASSUME NEW p \in Party, RotateKey(p)
      PROVE  KeyInv'
  BY <1>0, <1>7, KeyInvKept DEF RotateKey
<1>8. CASE Tick
  BY <1>0, <1>8, KeyInvKept DEF Tick
<1>9. CASE UNCHANGED vars
  BY <1>0, <1>9, KeyInvKept DEF vars
<1>. QED
  BY <1>1, <1>2, <1>3, <1>4, <1>5, <1>6, <1>7, <1>8, <1>9 DEF Next

\* When a host that restarts always has its latest snapshot, no message key
\* encrypts two frames, for both hosts sealing, any rekey bounds, failing
\* seals, key replacement and any transport.
THEOREM KeysUsedOnce ==
    ASSUME ~StaleRestore
    PROVE  Spec => []OneFramePerKey
<1>1. KeyInv => OneFramePerKey
  BY DEF KeyInv
<1>2. TypeInv /\ KeyInv /\ [Next]_vars => KeyInv'
  BY NextKeyInv
<1>. QED
  BY <1>1, <1>2, InitKeyInv, TypeInvariance, PTL DEF Spec

-----------------------------------------------------------------------------
(* Slots are filled forwards *)

\* A step that seals nothing and leaves the ratchets alone.
LEMMA SlotsKept ==
    ASSUME SlotsBehind, TypeInv, net' = net,
           \A p \in Party : session'[p].ratchet = session[p].ratchet
    PROVE  SlotsBehind'
<1>1. \A m \in net : m.from \in Party
  BY DEF TypeInv, TypeOK
<1>. QED
  BY <1>1 DEF SlotsBehind

\* The slot a seal of p takes, the next of session s, is past every frame of p.
NextSlot(p, s) ==
    \A m \in net : m.from = p =>
        \/ m.frame.epoch < s.ratchet.epoch
        \/ m.frame.epoch = s.ratchet.epoch /\ m.frame.index < s.ratchet.message_index

LEMMA EpochForSlot ==
    ASSUME TypeInv, SlotsBehind, NEW p \in Party, NEW k \in Nat
    PROVE  NextSlot(p, EpochFor(p, k).session)
<1>. DEFINE s == EpochFor(p, k).session
            o == session[p]
<1>1. IsSession(o) /\ Coherent(o) /\ rng + 1 \in Nat /\ clock \in Nat
  BY DEF TypeInv, TypeOK, AllCoherent
<1>2. \/ s = o
      \/ s.ratchet.epoch = IF o.ratchet = None THEN 0 ELSE o.ratchet.epoch + 1
  BY EpochForSealing DEF Ensured
<1>3. o.ratchet # None => o.ratchet.epoch \in Nat
  BY <1>1 DEF IsSession, Ratchet
<1>4. \A m \in net : m.frame.epoch \in Nat
  BY DEF TypeInv, TypeOK, SealedDmFrame
<1>. HIDE DEF s, o
<1>5. \A m \in net : m.from = p =>
         /\ o.ratchet # None
         /\ \/ m.frame.epoch < o.ratchet.epoch
            \/ m.frame.epoch = o.ratchet.epoch /\ m.frame.index < o.ratchet.message_index
  BY DEF SlotsBehind, o
<1>6. NextSlot(p, s)
  BY <1>2, <1>3, <1>4, <1>5 DEF NextSlot
<1>. QED
  BY <1>6 DEF s

\* What both ways a seal of p can end do to the slots.
SlotsAfterSeal(p, s) ==
    /\ session'[p].ratchet # None
    /\ session'[p].ratchet.epoch = s.ratchet.epoch
    /\ session'[p].ratchet.message_index = s.ratchet.message_index + 1
    /\ \A q \in Party : q # p => session'[q] = session[q]

LEMMA SealSlots ==
    ASSUME TypeInv, SlotsBehind, NEW p \in Party, NEW k \in Nat,
           NEW s, s = EpochFor(p, k).session,
           session' = [session EXCEPT ![p] = sealed_session(s)]
    PROVE  NextSlot(p, s) /\ s.ratchet \in Ratchet /\ SlotsAfterSeal(p, s)
<1>1. IsSession(s) /\ Coherent(s) /\ s.ratchet \in Ratchet
  BY EpochForSealing
<1>2. /\ sealed_session(s).ratchet = [s.ratchet EXCEPT !.message_index = @ + 1]
      /\ sealed_session(s).ratchet # None
  BY <1>1, SealedSession
<1>3. /\ session'[p] = sealed_session(s)
      /\ \A q \in Party : q # p => session'[q] = session[q]
  BY DEF TypeInv, TypeOK
<1>4. NextSlot(p, s)
  BY EpochForSlot
<1>. QED
  BY <1>1, <1>2, <1>3, <1>4 DEF Ratchet, SlotsAfterSeal

\* Each frame, old or of this step, is behind the ratchets after a seal.
LEMMA SealSlotsBehind ==
    ASSUME TypeInv, SlotsBehind, NEW p \in Party, NEW k \in Nat,
           NEW s, s = EpochFor(p, k).session,
           session' = [session EXCEPT ![p] = sealed_session(s)],
           \A n \in net' : \/ n \in net
                           \/ /\ n.from = p
                              /\ n.frame.epoch = s.ratchet.epoch
                              /\ n.frame.index = s.ratchet.message_index
    PROVE  SlotsBehind'
<1>1. NextSlot(p, s) /\ s.ratchet \in Ratchet /\ SlotsAfterSeal(p, s)
  BY SealSlots
<1>2. /\ session'[p].ratchet # None
      /\ session'[p].ratchet.epoch = s.ratchet.epoch
      /\ session'[p].ratchet.message_index = s.ratchet.message_index + 1
      /\ \A q \in Party : q # p => session'[q] = session[q]
  BY <1>1 DEF SlotsAfterSeal
<1>3. \A m \in net : m.from \in Party /\ m.frame.epoch \in Nat /\ m.frame.index \in Nat
  BY DEF TypeInv, TypeOK, SealedDmFrame
<1>4. s.ratchet.epoch \in Nat /\ s.ratchet.message_index \in Nat
  BY <1>1 DEF Ratchet
<1>. SUFFICES ASSUME NEW m \in net'
              PROVE  /\ session'[m.from].ratchet # None
                     /\ \/ m.frame.epoch < session'[m.from].ratchet.epoch
                        \/ /\ m.frame.epoch = session'[m.from].ratchet.epoch
                           /\ m.frame.index < session'[m.from].ratchet.message_index
  BY DEF SlotsBehind
<1>5. CASE m \in net /\ m.from = p
  BY <1>1, <1>2, <1>3, <1>4, <1>5 DEF NextSlot
<1>6. CASE m \in net /\ m.from # p
  BY <1>2, <1>3, <1>6 DEF SlotsBehind
<1>7. CASE m.from = p /\ m.frame.epoch = s.ratchet.epoch /\ m.frame.index = s.ratchet.message_index
  BY <1>2, <1>4, <1>7
<1>. QED
  BY <1>5, <1>6, <1>7

LEMMA NextSlotsBehind ==
    ASSUME ~StaleRestore
    PROVE  TypeInv /\ SlotsBehind /\ [Next]_vars => SlotsBehind'
<1>. SUFFICES ASSUME TypeInv, SlotsBehind, [Next]_vars PROVE SlotsBehind'
  OBVIOUS
<1>1. ASSUME NEW p \in Senders, NEW k \in published[peer(p)], Seal(p, k)
      PROVE  SlotsBehind'
  <2>. DEFINE s == EpochFor(p, k).session
              f == sealed_frame(s, rng + 2, rng + 2)
              n == [from |-> p, at |-> clock, frame |-> f]
  <2>1. p \in Party
    BY PartyAssumption
  <2>2. k \in Nat
    BY <2>1, PublishedKeys
  <2>3. session' = [session EXCEPT ![p] = sealed_session(s)] /\ net' = net \cup {n}
    BY <1>1 DEF Seal
  <2>4. n.from = p /\ n.frame.epoch = s.ratchet.epoch /\ n.frame.index = s.ratchet.message_index
    <3>. HIDE DEF s
    <3>. QED
      BY DEF sealed_frame, next_outbound_key
  <2>. HIDE DEF n
  <2>. QED
    BY <2>1, <2>2, <2>3, <2>4, SealSlotsBehind
<1>2. ASSUME NEW p \in Senders, NEW k \in published[peer(p)], SealEncryptFails(p, k)
      PROVE  SlotsBehind'
  <2>1. p \in Party
    BY PartyAssumption
  <2>2. k \in Nat
    BY <2>1, PublishedKeys
  <2>3. /\ session' = [session EXCEPT ![p] = sealed_session(EpochFor(p, k).session)]
        /\ net' = net
    BY <1>2 DEF SealEncryptFails
  <2>. QED
    BY <2>1, <2>2, <2>3, SealSlotsBehind
<1>3. ASSUME NEW p \in Senders, SealRejected(p)
      PROVE  SlotsBehind'
  <2>1. ensure_epoch(session[p],
                     [public_key(hybridKey[peer(p)]) EXCEPT !.len = PUBLIC_KEY_LEN - 1],
                     rng + 1, clock).session = session[p]
    BY RejectedEpoch
  <2>2. session' = [session EXCEPT ![p] = session[p]] /\ net' = net
    BY <1>3, <2>1 DEF SealRejected
  <2>3. \A q \in Party : session'[q] = session[q]
    BY <2>2 DEF TypeInv, TypeOK
  <2>. QED
    BY <2>2, <2>3, SlotsKept
<1>4. ASSUME NEW p \in Party, Deliver(p)
      PROVE  SlotsBehind'
  <2>1. PICK m \in net : \E f \in Arrivals(m.frame) : Open(p, m, f)
    BY <1>4 DEF Deliver
  <2>2. PICK f \in Arrivals(m.frame) : Open(p, m, f)
    BY <2>1
  <2>3. Arrived(f)
    BY ArrivalTyped DEF TypeInv, TypeOK
  <2>. DEFINE t == open_session(session[p], f, private_key(hybridKey[p]))
  <2>4. IsSession(session[p]) /\ Coherent(session[p])
    BY DEF TypeInv, TypeOK, AllCoherent
  <2>5. t.ratchet = session[p].ratchet
    BY <2>3, <2>4, OpenSession
  <2>6. session' = [session EXCEPT ![p] = t] /\ net' = net
    BY <2>2 DEF Open
  <2>. HIDE DEF t
  <2>7. \A q \in Party : session'[q].ratchet = session[q].ratchet
    BY <2>5, <2>6 DEF TypeInv, TypeOK
  <2>. QED
    BY <2>6, <2>7, SlotsKept
<1>5. ASSUME NEW p \in Party, Restart(p)
      PROVE  SlotsBehind'
  <2>1. net' = net /\ \A q \in Party : session'[q] = session[q]
    BY <1>5, RestartKeepsSession DEF Restart
  <2>. QED
    BY <2>1, SlotsKept
<1>6. CASE UNCHANGED <<session, net>>
  BY <1>6, SlotsKept
<1>. QED
  BY <1>1, <1>2, <1>3, <1>4, <1>5, <1>6 DEF Next, Save, RotateKey, Tick, vars

-----------------------------------------------------------------------------
(* The refinement *)

\* What the promise sees of the transport.
SealedBy == [p \in Party |-> {content(m) : m \in {n \in net : n.from = p}}]

\* A new frame of p, in a slot past the others, is a step of the promise.
LEMMA PutStep ==
    ASSUME NEW p \in Party, NEW n, n.from = p, net' = net \cup {n}, opened' = opened,
           \A m \in net : m.from = p =>
               \/ m.frame.epoch < n.frame.epoch
               \/ m.frame.epoch = n.frame.epoch /\ m.frame.index < n.frame.index
    PROVE  Promise!Next
<1>. DEFINE r == content(n)
<1>1. SealedBy' = [SealedBy EXCEPT ![p] = @ \cup {r}]
  <2>1. SealedBy' = [q \in Party |-> {content(m) : m \in {x \in net' : x.from = q}}]
    BY DEF SealedBy, content
  <2>2. {content(m) : m \in {x \in net' : x.from = p}}
          = {content(m) : m \in {x \in net : x.from = p}} \cup {r}
    OBVIOUS
  <2>3. \A q \in Party : q # p =>
           {content(m) : m \in {x \in net' : x.from = q}}
             = {content(m) : m \in {x \in net : x.from = q}}
    OBVIOUS
  <2>. QED
    BY <2>1, <2>2, <2>3 DEF SealedBy
<1>2. r \in SealedBy'[p]
  BY <1>1 DEF SealedBy
<1>3. \A q \in SealedBy[p] : Promise!Before(q, r)
  <2>. SUFFICES ASSUME NEW m \in net, m.from = p
                PROVE  Promise!Before(content(m), r)
    BY DEF SealedBy
  <2>. QED
    BY DEF Promise!Before, content
<1>. HIDE DEF r
<1>4. Promise!Put(p)
  BY <1>1, <1>2, <1>3 DEF Promise!Put, SealedBy
<1>. QED
  BY <1>4 DEF Promise!Next

\* Damage leaves the key and the text inside the body alone.
LEMMA ArrivalBody ==
    ASSUME NEW g \in SealedDmFrame, NEW f \in Arrivals(g)
    PROVE  f.body.key = g.body.key /\ f.body.msg = g.body.msg
<1>1. CASE f = g
  BY <1>1
<1>2. CASE f # g
  <2>1. PICK kind \in DamageKinds : f = Damaged(g, kind)
    BY <1>2 DEF Arrivals
  <2>2. kind \in AllDamage
    BY DamageAssumption
  <2>. QED
    BY <2>1, <2>2 DEF Damaged, AllDamage, SealedDmFrame
<1>. QED
  BY <1>1, <1>2

\* A frame that opens, damaged or not, opens in the slot it was sealed in, to
\* the text that was sealed: its key names its slot.
LEMMA OpenedIsSealed ==
    ASSUME TypeInv, KeysNameSlots, NEW m \in net, NEW f \in Arrivals(m.frame), NEW s, NEW key,
           open_outcome(s, f, key) = "Ok"
    PROVE  [epoch |-> f.epoch, index |-> f.index, msg |-> open_body(open_session(s, f, key), f)]
             = content(m)
<1>. DEFINE t == open_session(s, f, key)
<1>1. open_body(t, f) # None
  BY DEF open_outcome
<1>2. m.frame \in SealedDmFrame
  BY DEF TypeInv, TypeOK
<1>3. f.body.key = m.frame.body.key /\ f.body.msg = m.frame.body.msg
  BY <1>2, ArrivalBody
<1>. HIDE DEF t
<1>4. f.body.key = <<t.epoch_secrets[f.epoch], f.epoch, f.index>> /\ open_body(t, f) = f.body.msg
  BY <1>1 DEF open_body, decrypt, derive_dm_message_key
<1>5. m.frame.body.key = <<m.frame.body.key[1], m.frame.epoch, m.frame.index>>
  BY DEF KeysNameSlots
<1>6. f.epoch = m.frame.epoch /\ f.index = m.frame.index
  BY <1>3, <1>4, <1>5
<1>. QED
  BY <1>3, <1>4, <1>6 DEF content, t

LEMMA GetStep ==
    ASSUME TypeInv, KeysNameSlots, NEW p \in Party, Deliver(p)
    PROVE  Promise!Next \/ UNCHANGED <<net, opened>>
<1>1. PICK m \in net : m.from = peer(p) /\ \E f \in Arrivals(m.frame) : Open(p, m, f)
  BY DEF Deliver
<1>2. PICK f \in Arrivals(m.frame) : Open(p, m, f)
  BY <1>1
<1>. DEFINE key == private_key(hybridKey[p])
<1>3. CASE open_outcome(session[p], f, key) # "Ok"
  BY <1>2, <1>3 DEF Open
<1>4. CASE open_outcome(session[p], f, key) = "Ok"
  <2>1. opened' = [opened EXCEPT ![p] = @ \cup {content(m)}]
    <3>1. [epoch |-> f.epoch, index |-> f.index,
           msg |-> open_body(open_session(session[p], f, key), f)] = content(m)
      BY <1>4, OpenedIsSealed
    <3>. QED
      BY <1>2, <1>4, <3>1 DEF Open
  <2>2. net' = net
    BY <1>2 DEF Open
  <2>3. SealedBy' = SealedBy
    BY <2>2 DEF SealedBy, content
  <2>4. content(m) \in SealedBy[[q \in Party |-> peer(q)][p]]
    BY <1>1 DEF SealedBy, peer, Party
  <2>5. Promise!Get(p)
    BY <2>1, <2>3, <2>4 DEF Promise!Get, SealedBy
  <2>. QED
    BY <2>5 DEF Promise!Next
<1>. QED
  BY <1>3, <1>4

LEMMA StepKeepsPromise ==
    ASSUME ~StaleRestore
    PROVE  TypeInv /\ KeyInv /\ SlotsBehind /\ [Next]_vars => [Promise!Next]_(Promise!vars)
<1>. SUFFICES ASSUME TypeInv, KeyInv, SlotsBehind, [Next]_vars
              PROVE  Promise!Next \/ UNCHANGED <<net, opened>>
  BY DEF Promise!vars, content
<1>1. ASSUME NEW p \in Senders, NEW k \in published[peer(p)], Seal(p, k)
      PROVE  Promise!Next
  <2>. DEFINE s == EpochFor(p, k).session
              f == sealed_frame(s, rng + 2, rng + 2)
              n == [from |-> p, at |-> clock, frame |-> f]
  <2>1. p \in Party
    BY PartyAssumption
  <2>2. k \in Nat
    BY <2>1, PublishedKeys
  <2>3. net' = net \cup {n} /\ opened' = opened
    BY <1>1 DEF Seal
  <2>4. NextSlot(p, s)
    BY <2>1, <2>2, EpochForSlot
  <2>. HIDE DEF s
  <2>5. n.from = p /\ n.frame.epoch = s.ratchet.epoch /\ n.frame.index = s.ratchet.message_index
    BY DEF sealed_frame, next_outbound_key
  <2>. HIDE DEF n
  <2>6. \A m \in net : m.from = p =>
           \/ m.frame.epoch < n.frame.epoch
           \/ m.frame.epoch = n.frame.epoch /\ m.frame.index < n.frame.index
    BY <2>4, <2>5 DEF NextSlot
  <2>. QED
    BY <2>1, <2>3, <2>5, <2>6, PutStep
<1>2. ASSUME NEW p \in Party, Deliver(p)
      PROVE  Promise!Next \/ UNCHANGED <<net, opened>>
  BY <1>2, GetStep DEF KeyInv
<1>3. ASSUME NEW p \in Senders, NEW k \in published[peer(p)], SealEncryptFails(p, k)
      PROVE  UNCHANGED <<net, opened>>
  BY <1>3 DEF SealEncryptFails
<1>4. ASSUME NEW p \in Senders, SealRejected(p)
      PROVE  UNCHANGED <<net, opened>>
  BY <1>4 DEF SealRejected
<1>5. ASSUME NEW p \in Party, Save(p) \/ Restart(p) \/ RotateKey(p)
      PROVE  UNCHANGED <<net, opened>>
  BY <1>5 DEF Save, Restart, RotateKey
<1>6. CASE Tick \/ UNCHANGED vars
  BY <1>6 DEF Tick, vars
<1>. QED
  BY <1>1, <1>2, <1>3, <1>4, <1>5, <1>6 DEF Next

\* With restarts from the latest snapshot, a pair of sessions implements the
\* promise: each host fills its slots strictly forwards, and open hands out
\* only what the peer sealed in that very slot before, whatever was lost,
\* repeated, reordered, damaged or failed, and with both hosts sealing.
THEOREM SessionsKeepPromise ==
    ASSUME ~StaleRestore
    PROVE  Spec => PromiseKept
<1>1. Init => Promise!Init
  BY DEF Init, Promise!Init
<1>2. Init => SlotsBehind
  BY DEF Init, SlotsBehind
<1>3. TypeInv /\ SlotsBehind /\ [Next]_vars => SlotsBehind'
  BY NextSlotsBehind
<1>4. TypeInv /\ KeyInv /\ [Next]_vars => KeyInv'
  BY NextKeyInv
<1>5. TypeInv /\ KeyInv /\ SlotsBehind /\ [Next]_vars => [Promise!Next]_(Promise!vars)
  BY StepKeepsPromise
<1>. QED
  BY <1>1, <1>2, <1>3, <1>4, <1>5, InitKeyInv, TypeInvariance, PTL
     DEF Spec, PromiseKept, Promise!Spec
=============================================================================
