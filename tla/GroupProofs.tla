---------------------------- MODULE GroupProofs ----------------------------
(***************************************************************************)
(* GroupChannel for every number of hosts, every rekey bound and every     *)
(* damage: the inductive invariant, and the properties it implies.         *)
(***************************************************************************)
EXTENDS GroupChannel, FiniteSetTheorems, TLAPS

-----------------------------------------------------------------------------
(* The invariant *)

\* The key pairs of host h are numbered h, h + NHosts, h + 2 * NHosts, ...
KeyOf(h, k) == \E i \in Nat : k = h + i * NHosts

KeysOwned ==
    \A h \in Host : hybridKey[h] \in published[h] /\ \A k \in published[h] : KeyOf(h, k)

\* The group's secret is the draw of its epoch, still to be wrapped only to
\* members.
SecretOfEpoch == secret = epoch + 1 /\ unserved \subseteq roster[epoch]

\* A payload is its epoch's secret, wrapped to a key of a member of the epoch.
PayloadFor(p) ==
    \E h \in roster[p.epoch] : \E k \in published[h], r \in Nat :
        p.payload = wrap_epoch_secret(p.epoch + 1, public_key(k), r)

PayloadsWrap == \A p \in payloads : PayloadFor(p)

\* Whoever has the ratchet of an epoch was a member, and has the epoch's secret.
RatchetsOfMembers ==
    \A h \in Host : \A e \in DOMAIN ratchets[h] :
        /\ h \in roster[e]
        /\ ratchets[h][e].epoch = e
        /\ ratchets[h][e].epoch_secret = e + 1

\* A message's key names its slot, which is within the bound and which its
\* sender's counter has passed.
MessageBehind(m) ==
    /\ m = [from |-> m.from, epoch |-> m.epoch, index |-> m.index, key |-> m.key, nonce |-> m.nonce]
    /\ m.key = <<m.epoch + 1, m.epoch, m.index>>
    /\ m.index < DEFAULT_REKEY_MSG_BOUND
    /\ m.epoch \in DOMAIN ratchets[m.from]
    /\ m.index < ratchets[m.from][m.epoch].message_index

MessagesBehind == \A m \in messages : MessageBehind(m)

GroupInv ==
    /\ TypeOK
    /\ KeysOwned
    /\ SecretOfEpoch
    /\ PayloadsWrap
    /\ RatchetsOfMembers
    /\ MessagesBehind
    /\ SenderKeysOnce

-----------------------------------------------------------------------------
(* Keys and wrapping *)

\* No two hosts ever have the same key pair.
LEMMA KeysApart ==
    ASSUME NEW g \in Host, NEW h \in Host, NEW k, KeyOf(g, k), KeyOf(h, k)
    PROVE  g = h
<1>0. NHosts \in Nat /\ NHosts > 0 /\ g \in 1 .. NHosts /\ h \in 1 .. NHosts
  BY HostAssumption DEF Host
<1>1. PICK i \in Nat : k = g + i * NHosts
  BY DEF KeyOf
<1>2. PICK j \in Nat : k = h + j * NHosts
  BY DEF KeyOf
<1>3. ASSUME NEW a \in Nat, NEW b \in Nat, a < b
      PROVE  b * NHosts >= a * NHosts + NHosts
  <2>1. PICK d \in Nat : b = a + 1 + d
    <3>1. b - a - 1 \in Nat /\ b = a + 1 + (b - a - 1)
      BY <1>3
    <3>. QED
      BY <3>1
  <2>2. b * NHosts = a * NHosts + NHosts + d * NHosts
    BY <1>0, <2>1
  <2>3. d * NHosts \in Nat /\ a * NHosts \in Nat
    BY <1>0
  <2>. QED
    BY <1>0, <2>2, <2>3
<1>4. i * NHosts \in Nat /\ j * NHosts \in Nat
  BY <1>0
<1>5. CASE i = j
  BY <1>0, <1>1, <1>2, <1>4, <1>5
<1>6. CASE i < j
  <2>1. j * NHosts >= i * NHosts + NHosts
    BY <1>3, <1>6
  <2>. QED
    BY <1>0, <1>1, <1>2, <1>4, <2>1
<1>7. CASE j < i
  <2>1. i * NHosts >= j * NHosts + NHosts
    BY <1>3, <1>7
  <2>. QED
    BY <1>0, <1>1, <1>2, <1>4, <2>1
<1>. QED
  BY <1>5, <1>6, <1>7

\* p holds the secret s wrapped to key pair k, with whatever length and damage.
Holds(p, s, k, r) ==
    /\ p.ct.x_eph = r /\ p.ct.mlkem.ek = k
    /\ p.wrapped.key = derive_wrap_key(combine({r, k}, [dk |-> k, rejected |-> FALSE,
                                                        ct |-> [ek |-> k, r |-> r, intact |-> TRUE]]))
    /\ p.wrapped.msg = s

\* A key of the right length wraps.
LEMMA WrapFields ==
    ASSUME NEW s, NEW k, NEW r
    PROVE  wrap_epoch_secret(s, public_key(k), r)
             = [len     |-> WRAPPED_PAYLOAD_LEN,
                ct      |-> [len |-> CIPHERTEXT_LEN, x_eph |-> r,
                             mlkem |-> [ek |-> k, r |-> r, intact |-> TRUE]],
                nonce   |-> r,
                wrapped |-> [key    |-> derive_wrap_key(combine({r, k},
                                            [dk |-> k, rejected |-> FALSE,
                                             ct |-> [ek |-> k, r |-> r, intact |-> TRUE]])),
                             nonce  |-> r,
                             aad    |-> <<>>,
                             msg    |-> s,
                             intact |-> TRUE]]
BY DEF wrap_epoch_secret, hybrid_encap, public_key, mlkem_encapsulate, diffie_hellman, encrypt

\* A payload opens only for the key pair it was made for, and only if its
\* length, ciphertext and box are intact.
LEMMA UnwrapOpens ==
    ASSUME NEW p, NEW s, NEW k, NEW r, NEW j, Holds(p, s, k, r),
           unwrap_epoch_secret(p, private_key(j)) # None
    PROVE  /\ j = k
           /\ p.len = WRAPPED_PAYLOAD_LEN /\ p.ct.mlkem.intact /\ p.wrapped.intact
           /\ unwrap_epoch_secret(p, private_key(j)) = s
<1>. DEFINE sh  == combine({r, k}, [dk |-> k, rejected |-> FALSE,
                                    ct |-> [ek |-> k, r |-> r, intact |-> TRUE]])
            got == hybrid_decap(p.ct, private_key(j))
<1>1. /\ p.len = WRAPPED_PAYLOAD_LEN
      /\ got # None
      /\ p.wrapped.intact
      /\ p.wrapped.key = derive_wrap_key(got)
      /\ unwrap_epoch_secret(p, private_key(j)) = p.wrapped.msg
  BY DEF unwrap_epoch_secret, decrypt
<1>2. got = combine(diffie_hellman(j, p.ct.x_eph),
                    [dk |-> j, ct |-> p.ct.mlkem,
                     rejected |-> p.ct.mlkem.ek # j \/ ~p.ct.mlkem.intact])
  BY <1>1 DEF hybrid_decap, private_key, mlkem_decapsulate
<1>3. got = sh
  <2>. HIDE DEF got
  <2>. QED
    BY <1>1 DEF Holds, derive_wrap_key
<1>. HIDE DEF got
<1>4. j = k /\ ~(p.ct.mlkem.ek # j \/ ~p.ct.mlkem.intact)
  BY <1>2, <1>3 DEF combine
<1>. QED
  BY <1>1, <1>4 DEF Holds

\* Unwrapping what was wrapped, undamaged.
LEMMA UnwrapWrapped ==
    ASSUME NEW s, NEW k, NEW r, NEW j, NEW p, p = wrap_epoch_secret(s, public_key(k), r),
           unwrap_epoch_secret(p, private_key(j)) # None
    PROVE  j = k /\ unwrap_epoch_secret(p, private_key(j)) = s
<1>1. Holds(p, s, k, r)
  BY WrapFields DEF Holds
<1>. QED
  BY <1>1, UnwrapOpens

\* Whatever was done to it on the way, what opens was not damaged.
LEMMA UnwrapDamaged ==
    ASSUME NEW s, NEW k, NEW r, NEW j, NEW p, p = wrap_epoch_secret(s, public_key(k), r),
           NEW d \in DamageKinds
    PROVE  unwrap_epoch_secret(Damaged(p, d), private_key(j)) = None
<1>. DEFINE key == derive_wrap_key(combine({r, k}, [dk |-> k, rejected |-> FALSE,
                                          ct |-> [ek |-> k, r |-> r, intact |-> TRUE]]))
            ct  == [len |-> CIPHERTEXT_LEN, x_eph |-> r,
                    mlkem |-> [ek |-> k, r |-> r, intact |-> TRUE]]
            box == [key |-> key, nonce |-> r, aad |-> <<>>, msg |-> s, intact |-> TRUE]
<1>1. p = [len |-> WRAPPED_PAYLOAD_LEN, ct |-> ct, nonce |-> r, wrapped |-> box]
  BY WrapFields
<1>. HIDE DEF key
<1>2. CASE d = "len"
  <2>1. Damaged(p, d) = [len |-> WRAPPED_PAYLOAD_LEN - 1, ct |-> ct, nonce |-> r, wrapped |-> box]
    <3>. HIDE DEF ct, box
    <3>. QED
      BY <1>1, <1>2 DEF Damaged
  <2>2. Holds(Damaged(p, d), s, k, r)
    BY <2>1 DEF Holds, key
  <2>3. Damaged(p, d).len # WRAPPED_PAYLOAD_LEN
    BY <2>1 DEF WRAPPED_PAYLOAD_LEN, CIPHERTEXT_LEN
  <2>. QED
    BY <2>2, <2>3, UnwrapOpens
<1>3. CASE d = "ct"
  <2>. DEFINE q == [p EXCEPT !.ct.mlkem.intact = FALSE]
  <2>1. Damaged(p, d) = q
    BY <1>3, Zenon DEF Damaged
  <2>2. q.wrapped = p.wrapped /\ q.ct = [p.ct EXCEPT !.mlkem.intact = FALSE]
    <3>. HIDE DEF ct, box
    <3>. QED
      BY <1>1
  <2>3. p.wrapped = box /\ p.ct = ct
    BY <1>1
  <2>. HIDE DEF q
  <2>4. q.ct.x_eph = r /\ q.ct.mlkem = [ct.mlkem EXCEPT !.intact = FALSE]
    BY <2>2, <2>3
  <2>5. q.ct.mlkem.ek = k /\ ~q.ct.mlkem.intact
    BY <2>4
  <2>6. Holds(q, s, k, r)
    BY <2>2, <2>3, <2>4, <2>5 DEF Holds, key
  <2>. QED
    BY <2>1, <2>5, <2>6, UnwrapOpens
<1>4. CASE d = "wrapped"
  <2>. DEFINE q == [p EXCEPT !.wrapped.intact = FALSE]
  <2>1. Damaged(p, d) = q
    BY <1>4, Zenon DEF Damaged
  <2>2. q.ct = p.ct /\ q.wrapped = [p.wrapped EXCEPT !.intact = FALSE]
    <3>. HIDE DEF ct, box
    <3>. QED
      BY <1>1
  <2>3. p.wrapped = box /\ p.ct = ct
    BY <1>1
  <2>. HIDE DEF q
  <2>4. q.wrapped.key = key /\ q.wrapped.msg = s /\ ~q.wrapped.intact
    BY <2>2, <2>3
  <2>5. Holds(q, s, k, r)
    BY <2>2, <2>3, <2>4 DEF Holds, key
  <2>. QED
    BY <2>1, <2>4, <2>5, UnwrapOpens
<1>. QED
  BY <1>2, <1>3, <1>4, GroupDamageAssumption

\* What a host can make of a payload: with a key pair it ever had, it opens only
\* the secrets of the epochs it was a member of, and with them gets the secret.
LEMMA OpenedByMember ==
    ASSUME GroupInv, NEW h \in Host, NEW p \in payloads, NEW k \in published[h],
           unwrap_epoch_secret(p.payload, private_key(k)) # None
    PROVE  /\ h \in roster[p.epoch]
           /\ unwrap_epoch_secret(p.payload, private_key(k)) = p.epoch + 1
<1>1. PICK g \in roster[p.epoch] : \E j \in published[g], r \in Nat :
           p.payload = wrap_epoch_secret(p.epoch + 1, public_key(j), r)
  BY DEF GroupInv, PayloadsWrap, PayloadFor
<1>2. PICK j \in published[g], r \in Nat :
           p.payload = wrap_epoch_secret(p.epoch + 1, public_key(j), r)
  BY <1>1
<1>3. k = j /\ unwrap_epoch_secret(p.payload, private_key(k)) = p.epoch + 1
  BY <1>2, UnwrapWrapped
<1>4. g \in Host
  BY <1>1 DEF GroupInv, TypeOK
<1>5. KeyOf(h, k) /\ KeyOf(g, k)
  BY <1>2, <1>3, <1>4 DEF GroupInv, KeysOwned
<1>6. g = h
  BY <1>4, <1>5, KeysApart
<1>. QED
  BY <1>1, <1>3, <1>6

\* So an EpochRatchet is made by members only, from the epoch's secret.
LEMMA ReceivedSecret ==
    ASSUME GroupInv, NEW h \in Host, NEW p \in payloads, NEW arrived,
           arrived = p.payload \/ \E d \in DamageKinds : arrived = Damaged(p.payload, d),
           unwrap_epoch_secret(arrived, private_key(hybridKey[h])) # None
    PROVE  /\ h \in roster[p.epoch]
           /\ unwrap_epoch_secret(arrived, private_key(hybridKey[h])) = p.epoch + 1
<1>1. arrived = p.payload
  <2>. SUFFICES ASSUME NEW d \in DamageKinds, arrived = Damaged(p.payload, d)
                PROVE  FALSE
    OBVIOUS
  <2>1. PICK k, r : p.payload = wrap_epoch_secret(p.epoch + 1, public_key(k), r)
    BY DEF GroupInv, PayloadsWrap, PayloadFor
  <2>. QED
    BY <2>1, UnwrapDamaged
<1>2. hybridKey[h] \in published[h]
  BY DEF GroupInv, KeysOwned
<1>. QED
  BY <1>1, <1>2, OpenedByMember

-----------------------------------------------------------------------------
(* The invariant is kept *)

LEMMA InitGroupInv == Init => GroupInv
<1>. SUFFICES ASSUME Init PROVE GroupInv
  OBVIOUS
<1>1. /\ epoch = 0 /\ secret = 1 /\ clock = 0 /\ payloads = {} /\ messages = {}
      /\ roster \in [{0} -> SUBSET Host \ {{}}] /\ unserved = roster[0]
      /\ hybridKey = [h \in Host |-> h]
      /\ published = [h \in Host |-> {h}]
      /\ ratchets = [h \in Host |-> [e \in {} |-> None]]
  BY DEF Init
<1>2. 0 .. epoch = {0} /\ Host \subseteq Nat
  BY <1>1 DEF Host
<1>3. \A h \in Host : DOMAIN ratchets[h] = {} /\ ratchets[h] = [e \in {} |-> None]
  BY <1>1
<1>4. TypeOK
  <2>1. \A h \in Host : /\ DOMAIN ratchets[h] \subseteq 0 .. epoch
                        /\ ratchets[h] \in [DOMAIN ratchets[h] -> EpochRatchet]
    BY <1>3
  <2>2. roster \in [0 .. epoch -> SUBSET Host] /\ unserved \subseteq Host
    BY <1>1, <1>2
  <2>. QED
    BY <1>1, <1>2, <2>1, <2>2 DEF TypeOK
<1>5. KeysOwned
  <2>. SUFFICES ASSUME NEW h \in Host PROVE KeyOf(h, h)
    BY <1>1 DEF KeysOwned
  <2>1. h = h + 0 * NHosts
    BY <1>2, HostAssumption
  <2>. QED
    BY <2>1 DEF KeyOf
<1>6. SecretOfEpoch /\ PayloadsWrap /\ RatchetsOfMembers /\ MessagesBehind /\ SenderKeysOnce
  BY <1>1, <1>3 DEF SecretOfEpoch, PayloadsWrap, RatchetsOfMembers, MessagesBehind, SenderKeysOnce
<1>. QED
  BY <1>4, <1>5, <1>6 DEF GroupInv

\* Wrapped secrets stay good: epochs keep their members, members their keys.
LEMMA PayloadKept ==
    ASSUME TypeOK, NEW p \in payloads, PayloadFor(p),
           roster'[p.epoch] = roster[p.epoch],
           \A h \in Host : published[h] \subseteq published'[h]
    PROVE  PayloadFor(p)'
<1>1. roster[p.epoch] \subseteq Host
  BY DEF TypeOK
<1>. QED
  BY <1>1 DEF PayloadFor

\* A new epoch leaves the ones before it as they were.
LEMMA RekeyGroupInv ==
    ASSUME GroupInv, NEW M \in SUBSET Host \ {{}}, Rekey(M)
    PROVE  GroupInv'
<1>0. TypeOK /\ epoch \in Nat
  BY DEF GroupInv, TypeOK
<1>1. /\ epoch' = epoch + 1 /\ secret' = secret + 1 /\ unserved' = M
      /\ roster' = [e \in 0 .. epoch' |-> IF e = epoch' THEN M ELSE roster[e]]
      /\ UNCHANGED <<hybridKey, published, payloads, ratchets, messages, clock>>
  BY DEF Rekey
<1>2. /\ \A e \in 0 .. epoch : e \in 0 .. epoch' /\ roster'[e] = roster[e]
      /\ roster'[epoch'] = M
      /\ roster' \in [0 .. epoch' -> SUBSET Host]
  BY <1>0, <1>1 DEF TypeOK
<1>3. TypeOK'
  <2>1. \A p \in payloads : p.epoch \in 0 .. epoch'
    BY <1>0, <1>2 DEF TypeOK
  <2>2. \A h \in Host : DOMAIN ratchets[h] \subseteq 0 .. epoch'
    BY <1>0, <1>2 DEF TypeOK
  <2>3. \A m \in messages : m.epoch \in 0 .. epoch'
    BY <1>0, <1>2 DEF TypeOK
  <2>. QED
    BY <1>0, <1>1, <1>2, <2>1, <2>2, <2>3 DEF TypeOK
<1>4. KeysOwned' /\ MessagesBehind' /\ SenderKeysOnce'
  BY <1>1 DEF GroupInv, KeysOwned, KeyOf, MessagesBehind, MessageBehind, SenderKeysOnce
<1>5. SecretOfEpoch'
  BY <1>0, <1>1, <1>2 DEF GroupInv, SecretOfEpoch
<1>6. PayloadsWrap'
  <2>. SUFFICES ASSUME NEW p \in payloads PROVE PayloadFor(p)'
    BY <1>1 DEF PayloadsWrap
  <2>1. roster'[p.epoch] = roster[p.epoch]
    BY <1>0, <1>2 DEF TypeOK
  <2>. QED
    BY <1>0, <1>1, <2>1, PayloadKept DEF GroupInv, PayloadsWrap
<1>7. RatchetsOfMembers'
  BY <1>0, <1>1, <1>2 DEF GroupInv, RatchetsOfMembers, TypeOK
<1>. QED
  BY <1>3, <1>4, <1>5, <1>6, <1>7 DEF GroupInv

\* The secret goes to a member, under a key of that member.
LEMMA DistributeGroupInv ==
    ASSUME GroupInv, NEW h \in unserved, NEW k \in published[h], Distribute(h, k)
    PROVE  GroupInv'
<1>0. TypeOK /\ epoch \in Nat /\ h \in Host /\ h \in roster[epoch]
  BY DEF GroupInv, TypeOK, SecretOfEpoch
<1>1. UNCHANGED <<epoch, secret, roster, hybridKey, published, ratchets, messages, clock>>
      /\ unserved' = unserved \ {h}
  BY DEF Distribute
<1>2. PICK n : /\ n.epoch = epoch
               /\ n.payload = wrap_epoch_secret(secret, public_key(k), wrap_draw(h))
               /\ payloads' = payloads \cup {n}
  <2>1. LET n == [epoch |-> epoch,
                  payload |-> wrap_epoch_secret(secret, public_key(k), wrap_draw(h))]
        IN  /\ n.epoch = epoch
            /\ n.payload = wrap_epoch_secret(secret, public_key(k), wrap_draw(h))
            /\ payloads' = payloads \cup {n}
    BY DEF Distribute
  <2>. QED
    BY <2>1
<1>3. TypeOK'
  BY <1>0, <1>1, <1>2 DEF TypeOK
<1>4. KeysOwned' /\ MessagesBehind' /\ SenderKeysOnce' /\ RatchetsOfMembers' /\ SecretOfEpoch'
  BY <1>1 DEF GroupInv, KeysOwned, KeyOf, MessagesBehind, MessageBehind, SenderKeysOnce,
              RatchetsOfMembers, SecretOfEpoch
<1>5. PayloadsWrap'
  <2>1. PayloadFor(n)'
    <3>1. wrap_draw(h) \in Nat
      <4>1. NHosts \in Nat /\ MaxKeys + epoch \in Nat /\ h \in Nat
        BY <1>0, HostAssumption, GroupBoundAssumption DEF Host
      <4>2. NHosts * (MaxKeys + epoch) \in Nat
        BY <4>1
      <4>. QED
        BY <4>1, <4>2 DEF wrap_draw
    <3>2. secret = n.epoch + 1
      BY <1>2 DEF GroupInv, SecretOfEpoch
    <3>. QED
      BY <1>0, <1>1, <1>2, <3>1, <3>2 DEF PayloadFor
  <2>2. ASSUME NEW p \in payloads PROVE PayloadFor(p)'
    BY <1>0, <1>1, PayloadKept DEF GroupInv, PayloadsWrap
  <2>. QED
    BY <1>2, <2>1, <2>2 DEF PayloadsWrap
<1>. QED
  BY <1>3, <1>4, <1>5 DEF GroupInv

\* Nobody gets a ratchet but a member, and only in an epoch it had none for.
LEMMA ReceiveGroupInv ==
    ASSUME GroupInv, NEW h \in Host, NEW p \in payloads, NEW arrived,
           arrived = p.payload \/ \E d \in DamageKinds : arrived = Damaged(p.payload, d),
           Receive(h, p, arrived)
    PROVE  GroupInv'
<1>. DEFINE got == unwrap_epoch_secret(arrived, private_key(hybridKey[h]))
            new == [e \in DOMAIN ratchets[h] \cup {p.epoch} |->
                       IF e = p.epoch THEN epoch_ratchet(e, got, clock) ELSE ratchets[h][e]]
<1>0. TypeOK /\ epoch \in Nat /\ clock \in Nat /\ p.epoch \in 0 .. epoch /\ p.epoch \in Nat
  BY DEF GroupInv, TypeOK
<1>1. /\ p.epoch \notin DOMAIN ratchets[h]
      /\ got # None
      /\ ratchets' = [ratchets EXCEPT ![h] = new]
      /\ UNCHANGED <<epoch, secret, roster, unserved, hybridKey, published, payloads,
                     messages, clock>>
  BY DEF Receive
<1>2. h \in roster[p.epoch] /\ got = p.epoch + 1
  BY <1>1, ReceivedSecret
<1>. HIDE DEF got
<1>3. /\ DOMAIN new = DOMAIN ratchets[h] \cup {p.epoch}
      /\ new[p.epoch] = epoch_ratchet(p.epoch, got, clock)
      /\ \A e \in DOMAIN ratchets[h] : new[e] = ratchets[h][e]
  BY <1>1
<1>4. /\ epoch_ratchet(p.epoch, got, clock) \in EpochRatchet
      /\ epoch_ratchet(p.epoch, got, clock).epoch = p.epoch
      /\ epoch_ratchet(p.epoch, got, clock).epoch_secret = got
  BY <1>0, <1>2 DEF epoch_ratchet, EpochRatchet
<1>5. new \in [DOMAIN new -> EpochRatchet]
  BY <1>0, <1>3, <1>4 DEF TypeOK
<1>. HIDE DEF new
<1>6. /\ DOMAIN ratchets' = Host /\ ratchets'[h] = new
      /\ \A g \in Host : g # h => ratchets'[g] = ratchets[g]
  BY <1>0, <1>1 DEF TypeOK
<1>7. TypeOK'
  <2>1. \A g \in Host : /\ DOMAIN ratchets'[g] \subseteq 0 .. epoch
                        /\ ratchets'[g] \in [DOMAIN ratchets'[g] -> EpochRatchet]
    BY <1>0, <1>3, <1>5, <1>6 DEF TypeOK
  <2>. QED
    BY <1>0, <1>1, <1>6, <2>1 DEF TypeOK
<1>8. KeysOwned' /\ SenderKeysOnce' /\ SecretOfEpoch'
  BY <1>1 DEF GroupInv, KeysOwned, KeyOf, SenderKeysOnce, SecretOfEpoch
<1>9. PayloadsWrap'
  BY <1>0, <1>1, PayloadKept DEF GroupInv, PayloadsWrap
<1>10. RatchetsOfMembers'
  <2>. SUFFICES ASSUME NEW g \in Host, NEW e \in DOMAIN ratchets'[g]
                PROVE  /\ g \in roster[e]
                       /\ ratchets'[g][e].epoch = e
                       /\ ratchets'[g][e].epoch_secret = e + 1
    BY <1>1 DEF RatchetsOfMembers
  <2>1. CASE g = h /\ e = p.epoch
    BY <1>2, <1>3, <1>4, <1>6, <2>1
  <2>2. CASE e \in DOMAIN ratchets[g]
    BY <1>3, <1>6, <2>2 DEF GroupInv, RatchetsOfMembers
  <2>. QED
    BY <1>3, <1>6, <2>1, <2>2
<1>11. MessagesBehind'
  <2>. SUFFICES ASSUME NEW m \in messages PROVE MessageBehind(m)'
    BY <1>1 DEF MessagesBehind
  <2>1. MessageBehind(m) /\ m.from \in Host
    BY <1>0 DEF GroupInv, MessagesBehind, TypeOK
  <2>2. m.epoch \in DOMAIN ratchets'[m.from]
        /\ ratchets'[m.from][m.epoch] = ratchets[m.from][m.epoch]
    BY <1>3, <1>6, <2>1 DEF MessageBehind
  <2>. QED
    BY <2>1, <2>2 DEF MessageBehind
<1>. QED
  BY <1>7, <1>8, <1>9, <1>10, <1>11 DEF GroupInv

\* Epochs are naturals up to the current one: a host that was let in to any
\* has a newest.
LEMMA NewestIn ==
    ASSUME TypeOK, NEW h \in Host, DOMAIN ratchets[h] # {}
    PROVE  newest(h) \in DOMAIN ratchets[h]
<1>. DEFINE T == {epoch - d : d \in DOMAIN ratchets[h]}
<1>1. epoch \in Nat /\ DOMAIN ratchets[h] \subseteq 0 .. epoch
  BY DEF TypeOK
<1>2. T \subseteq Nat /\ T # {}
  BY <1>1
<1>3. PICK x \in T : \A y \in T : ~(<<y, x>> \in OpToRel(<, Nat))
  BY <1>2, WFMin, NatLessThanWellFounded, Zenon
<1>4. \A y \in T : ~(y < x)
  BY <1>2, <1>3, Zenon DEF OpToRel
<1>5. PICK e \in DOMAIN ratchets[h] : x = epoch - e
  BY <1>3
<1>6. \A d \in DOMAIN ratchets[h] : d <= e
  <2>. TAKE d \in DOMAIN ratchets[h]
  <2>1. ~(epoch - d < epoch - e)
    BY <1>4, <1>5
  <2>. QED
    BY <1>1, <2>1
<1>. QED
  BY <1>6, Zenon DEF newest

\* The message takes the sender's next slot, below the bound, and the counter
\* passes it.
LEMMA SendGroupInv ==
    ASSUME GroupInv, NEW h \in Host, Send(h)
    PROVE  GroupInv'
<1>. DEFINE e == newest(h)
            r == ratchets[h][e]
            out == next_outbound_key(r)
<1>0. TypeOK /\ epoch \in Nat /\ DOMAIN ratchets = Host
  BY DEF GroupInv, TypeOK
<1>1. /\ DOMAIN ratchets[h] # {}
      /\ ~should_rekey(r, clock)
      /\ ratchets' = [ratchets EXCEPT ![h][e] = out.ratchet]
      /\ UNCHANGED <<epoch, secret, roster, unserved, hybridKey, published, payloads, clock>>
  BY DEF Send
<1>2. e \in DOMAIN ratchets[h] /\ e \in 0 .. epoch
  BY <1>0, <1>1, NewestIn DEF TypeOK
<1>3. PICK n : /\ n = [from |-> h, epoch |-> e, index |-> out.index, key |-> out.key,
                       nonce |-> sent(h) + 1]
               /\ messages' = messages \cup {n}
  BY DEF Send
<1>. HIDE DEF e
<1>4. r \in EpochRatchet /\ r.epoch = e /\ r.epoch_secret = e + 1
  BY <1>0, <1>2 DEF GroupInv, TypeOK, RatchetsOfMembers
<1>. HIDE DEF r
<1>5. r.message_index \in Nat /\ r.message_index < DEFAULT_REKEY_MSG_BOUND
  BY <1>1, <1>4, RekeyDefaults DEF should_rekey, EpochRatchet
<1>6. /\ out.index = r.message_index
      /\ out.key = <<e + 1, e, r.message_index>>
      /\ out.ratchet \in EpochRatchet
      /\ out.ratchet.message_index = r.message_index + 1
      /\ out.ratchet.epoch = e
      /\ out.ratchet.epoch_secret = e + 1
  BY <1>4, <1>5 DEF next_outbound_key, derive_message_key, EpochRatchet
<1>. HIDE DEF out
<1>7. /\ n.from = h /\ n.epoch = e /\ n.index = r.message_index
      /\ n.key = <<n.epoch + 1, n.epoch, n.index>>
      /\ n = [from |-> n.from, epoch |-> n.epoch, index |-> n.index, key |-> n.key,
              nonce |-> n.nonce]
  BY <1>3, <1>6
<1>8. /\ DOMAIN ratchets' = Host
      /\ \A g \in Host : DOMAIN ratchets'[g] = DOMAIN ratchets[g]
      /\ ratchets'[h][e] = out.ratchet
      /\ \A g \in Host : \A d \in DOMAIN ratchets[g] :
           ~(g = h /\ d = e) => ratchets'[g][d] = ratchets[g][d]
      /\ \A g \in Host : ratchets'[g] = [d \in DOMAIN ratchets[g] |-> ratchets'[g][d]]
  <2>1. /\ ratchets'[h] = [ratchets[h] EXCEPT ![e] = out.ratchet]
        /\ \A g \in Host : g # h => ratchets'[g] = ratchets[g]
        /\ DOMAIN ratchets' = Host
    BY <1>0, <1>1
  <2>2. \A g \in Host : ratchets[g] = [d \in DOMAIN ratchets[g] |-> ratchets[g][d]]
    BY <1>0 DEF TypeOK
  <2>3. /\ DOMAIN ratchets'[h] = DOMAIN ratchets[h]
        /\ ratchets'[h][e] = out.ratchet
        /\ \A d \in DOMAIN ratchets[h] : d # e => ratchets'[h][d] = ratchets[h][d]
        /\ ratchets'[h] = [d \in DOMAIN ratchets[h] |-> ratchets'[h][d]]
    BY <1>2, <2>1, <2>2
  <2>4. ASSUME NEW g \in Host, g # h
        PROVE  /\ DOMAIN ratchets'[g] = DOMAIN ratchets[g]
               /\ \A d \in DOMAIN ratchets[g] : ratchets'[g][d] = ratchets[g][d]
               /\ ratchets'[g] = [d \in DOMAIN ratchets[g] |-> ratchets'[g][d]]
    <3>1. ratchets'[g] = ratchets[g]
      BY <2>1, <2>4
    <3>2. ratchets[g] = [d \in DOMAIN ratchets[g] |-> ratchets[g][d]]
      BY <2>2
    <3>. QED
      BY <3>1, <3>2
  <2>5. \A g \in Host : ratchets'[g] = [d \in DOMAIN ratchets[g] |-> ratchets'[g][d]]
    <3>. TAKE g \in Host
    <3>1. CASE g = h
      BY <2>3, <3>1, Zenon
    <3>2. CASE g # h
      BY <2>4, <3>2, Zenon
    <3>. QED
      BY <3>1, <3>2, Zenon
  <2>6. \A g \in Host : \A d \in DOMAIN ratchets[g] :
           ~(g = h /\ d = e) => ratchets'[g][d] = ratchets[g][d]
    BY <2>3, <2>4, Zenon
  <2>7. \A g \in Host : DOMAIN ratchets'[g] = DOMAIN ratchets[g]
    BY <2>3, <2>4, Zenon
  <2>. QED
    BY <2>1, <2>3, <2>5, <2>6, <2>7
<1>9. TypeOK'
  <2>1. \A g \in Host : /\ DOMAIN ratchets'[g] \subseteq 0 .. epoch
                        /\ ratchets'[g] \in [DOMAIN ratchets'[g] -> EpochRatchet]
    <3>. TAKE g \in Host
    <3>1. \A d \in DOMAIN ratchets[g] : ratchets'[g][d] \in EpochRatchet
      BY <1>0, <1>6, <1>8 DEF TypeOK
    <3>2. DOMAIN ratchets[g] \subseteq 0 .. epoch
      BY <1>0 DEF TypeOK
    <3>. QED
      BY <1>8, <3>1, <3>2
  <2>2. \A m \in messages' : m.from \in Host /\ m.epoch \in 0 .. epoch /\ m.index \in Nat
    BY <1>0, <1>2, <1>3, <1>5, <1>7 DEF TypeOK
  <2>. QED
    BY <1>0, <1>1, <1>8, <2>1, <2>2 DEF TypeOK
<1>10. KeysOwned' /\ SecretOfEpoch'
  BY <1>1 DEF GroupInv, KeysOwned, KeyOf, SecretOfEpoch
<1>11. PayloadsWrap'
  BY <1>0, <1>1, PayloadKept DEF GroupInv, PayloadsWrap
<1>12. RatchetsOfMembers'
  <2>. SUFFICES ASSUME NEW g \in Host, NEW d \in DOMAIN ratchets[g]
                PROVE  /\ g \in roster[d]
                       /\ ratchets'[g][d].epoch = d
                       /\ ratchets'[g][d].epoch_secret = d + 1
    BY <1>1, <1>8 DEF RatchetsOfMembers
  <2>1. g \in roster[d] /\ ratchets[g][d].epoch = d /\ ratchets[g][d].epoch_secret = d + 1
    BY DEF GroupInv, RatchetsOfMembers
  <2>. QED
    BY <1>6, <1>8, <2>1
<1>13. MessagesBehind'
  <2>1. MessageBehind(n)'
    BY <1>2, <1>5, <1>6, <1>7, <1>8 DEF MessageBehind
  <2>2. ASSUME NEW m \in messages PROVE MessageBehind(m)'
    <3>1. MessageBehind(m) /\ m.from \in Host /\ m.index \in Nat
      BY <1>0 DEF GroupInv, MessagesBehind, TypeOK
    <3>2. m.index < ratchets'[m.from][m.epoch].message_index
      <4>1. CASE m.from = h /\ m.epoch = e
        BY <1>5, <1>6, <1>8, <3>1, <4>1 DEF MessageBehind, r
      <4>2. CASE ~(m.from = h /\ m.epoch = e)
        BY <1>8, <3>1, <4>2 DEF MessageBehind
      <4>. QED
        BY <4>1, <4>2
    <3>. QED
      BY <1>8, <3>1, <3>2 DEF MessageBehind
  <2>. QED
    BY <1>3, <2>1, <2>2 DEF MessagesBehind
<1>14. SenderKeysOnce'
  <2>1. ASSUME NEW m \in messages, m.from = n.from, m.key = n.key
        PROVE  FALSE
    <3>1. /\ m.from \in Host /\ m.index \in Nat /\ m.key = <<m.epoch + 1, m.epoch, m.index>>
          /\ m.index < ratchets[m.from][m.epoch].message_index
      BY <1>0 DEF GroupInv, MessagesBehind, MessageBehind, TypeOK
    <3>2. m.epoch = e /\ m.index = r.message_index
      BY <1>7, <2>1, <3>1
    <3>. QED
      BY <1>5, <1>7, <2>1, <3>1, <3>2 DEF r
  <2>2. \A m, k \in messages : m.from = k.from /\ m.key = k.key => m = k
    BY DEF GroupInv, SenderKeysOnce
  <2>3. \A m, k \in messages \cup {n} : m.from = k.from /\ m.key = k.key => m = k
    BY <2>1, <2>2
  <2>. QED
    BY <1>3, <2>3 DEF SenderKeysOnce
<1>. QED
  BY <1>9, <1>10, <1>11, <1>12, <1>13, <1>14 DEF GroupInv

\* A new key pair is its owner's next number.
LEMMA RotateKeyGroupInv ==
    ASSUME GroupInv, NEW h \in Host, RotateKey(h)
    PROVE  GroupInv'
<1>0. TypeOK /\ hybridKey[h] \in Nat /\ h \in Nat /\ NHosts \in Nat
  BY HostAssumption DEF GroupInv, TypeOK, Host
<1>1. /\ hybridKey' = [hybridKey EXCEPT ![h] = @ + NHosts]
      /\ published' = [published EXCEPT ![h] = @ \cup {hybridKey'[h]}]
      /\ UNCHANGED <<epoch, secret, roster, unserved, payloads, ratchets, messages, clock>>
  BY DEF RotateKey
<1>2. /\ hybridKey'[h] = hybridKey[h] + NHosts
      /\ \A g \in Host : g # h => hybridKey'[g] = hybridKey[g]
      /\ published'[h] = published[h] \cup {hybridKey'[h]}
      /\ \A g \in Host : g # h => published'[g] = published[g]
  BY <1>0, <1>1 DEF TypeOK
<1>3. TypeOK'
  BY <1>0, <1>1, <1>2 DEF TypeOK
<1>4. KeysOwned'
  <2>1. KeyOf(h, hybridKey'[h])
    <3>1. PICK i \in Nat : hybridKey[h] = h + i * NHosts
      BY DEF GroupInv, KeysOwned, KeyOf
    <3>2. i + 1 \in Nat /\ (i + 1) * NHosts = i * NHosts + NHosts /\ i * NHosts \in Nat
      BY <1>0
    <3>3. hybridKey'[h] = h + (i + 1) * NHosts
      BY <1>0, <1>2, <3>1, <3>2
    <3>. QED
      BY <3>2, <3>3 DEF KeyOf
  <2>2. \A g \in Host : hybridKey'[g] \in published'[g] /\ \A k \in published'[g] : KeyOf(g, k)
    BY <1>2, <2>1 DEF GroupInv, KeysOwned
  <2>. QED
    BY <2>2 DEF KeysOwned, KeyOf
<1>5. SecretOfEpoch' /\ RatchetsOfMembers' /\ MessagesBehind' /\ SenderKeysOnce'
  BY <1>1 DEF GroupInv, SecretOfEpoch, RatchetsOfMembers, MessagesBehind, MessageBehind,
              SenderKeysOnce
<1>6. PayloadsWrap'
  <2>1. \A g \in Host : published[g] \subseteq published'[g]
    BY <1>2
  <2>. QED
    BY <1>0, <1>1, <2>1, PayloadKept DEF GroupInv, PayloadsWrap
<1>. QED
  BY <1>3, <1>4, <1>5, <1>6 DEF GroupInv

\* Where the clock stands matters to no part of the invariant.
LEMMA TickGroupInv == GroupInv /\ (Tick \/ UNCHANGED vars) => GroupInv'
<1>. SUFFICES ASSUME GroupInv, Tick \/ UNCHANGED vars PROVE GroupInv'
  OBVIOUS
<1>1. /\ UNCHANGED <<epoch, secret, roster, unserved, hybridKey, published, payloads, ratchets,
                     messages>>
      /\ clock' \in Nat
  BY GroupBoundAssumption DEF Tick, vars, GroupInv, TypeOK
<1>2. TypeOK'
  BY <1>1 DEF GroupInv, TypeOK
<1>3. KeysOwned' /\ SecretOfEpoch' /\ RatchetsOfMembers' /\ MessagesBehind' /\ SenderKeysOnce'
  BY <1>1 DEF GroupInv, KeysOwned, KeyOf, SecretOfEpoch, RatchetsOfMembers, MessagesBehind,
              MessageBehind, SenderKeysOnce
<1>4. PayloadsWrap'
  BY <1>1, PayloadKept DEF GroupInv, PayloadsWrap
<1>. QED
  BY <1>2, <1>3, <1>4 DEF GroupInv

LEMMA NextGroupInv == GroupInv /\ [Next]_vars => GroupInv'
<1>. SUFFICES ASSUME GroupInv, [Next]_vars PROVE GroupInv'
  OBVIOUS
<1>1. ASSUME NEW M \in SUBSET Host \ {{}}, Rekey(M) PROVE GroupInv'
  BY <1>1, RekeyGroupInv
<1>2. ASSUME NEW h \in unserved, NEW k \in published[h], Distribute(h, k) PROVE GroupInv'
  BY <1>2, DistributeGroupInv
<1>3. ASSUME NEW h \in Host, NEW p \in payloads, Receive(h, p, p.payload) PROVE GroupInv'
  BY <1>3, ReceiveGroupInv
<1>4. ASSUME NEW h \in Host, NEW p \in payloads, NEW d \in DamageKinds,
             Receive(h, p, Damaged(p.payload, d))
      PROVE  GroupInv'
  BY <1>4, ReceiveGroupInv
<1>5. ASSUME NEW h \in Host, Send(h) PROVE GroupInv'
  BY <1>5, SendGroupInv
<1>6. ASSUME NEW h \in Host, RotateKey(h) PROVE GroupInv'
  BY <1>6, RotateKeyGroupInv
<1>7. CASE Tick \/ UNCHANGED vars
  BY <1>7, TickGroupInv
<1>. QED
  BY <1>1, <1>2, <1>3, <1>4, <1>5, <1>6, <1>7 DEF Next

\* The group module's invariant, for any hosts, bounds and damage.
THEOREM GroupInvariance == Spec => []GroupInv
<1>1. Init => GroupInv
  BY InitGroupInv
<1>2. GroupInv /\ [Next]_vars => GroupInv'
  BY NextGroupInv
<1>. QED
  BY <1>1, <1>2, PTL DEF Spec

-----------------------------------------------------------------------------
(* What it implies *)

\* The group's counters, rosters and ratchets keep their types.
THEOREM GroupTypes == Spec => []TypeOK
<1>1. GroupInv => TypeOK
  BY DEF GroupInv
<1>. QED
  BY <1>1, GroupInvariance, PTL

\* Each member's counter is monotone, so that no sender derives the key of a
\* message with next_outbound_key twice.
THEOREM KeysUsedOnce == Spec => []SenderKeysOnce
<1>1. GroupInv => SenderKeysOnce
  BY DEF GroupInv
<1>. QED
  BY <1>1, GroupInvariance, PTL

\* A removed member derives no key of a later epoch, an added member none of
\* an earlier one, from all payloads ever sent and all keys it ever had.
THEOREM RosterDecides == Spec => []RosterOnly
<1>1. GroupInv => RosterOnly
  <2>. SUFFICES ASSUME GroupInv, NEW m \in messages, NEW h \in Host \ roster[m.epoch],
                       NEW p \in payloads, NEW k \in published[h], NEW s,
                       s = unwrap_epoch_secret(p.payload, private_key(k)),
                       s # None, derive_message_key(s, m.epoch, m.index) = m.key
                PROVE  FALSE
    BY DEF RosterOnly
  <2>1. h \in roster[p.epoch] /\ s = p.epoch + 1
    BY OpenedByMember
  <2>2. m.key = <<m.epoch + 1, m.epoch, m.index>>
    BY DEF GroupInv, MessagesBehind, MessageBehind
  <2>3. s = m.epoch + 1
    BY <2>2 DEF derive_message_key
  <2>4. p.epoch \in Int /\ m.epoch \in Int
    BY DEF GroupInv, TypeOK
  <2>5. p.epoch = m.epoch
    BY <2>1, <2>3, <2>4
  <2>. QED
    BY <2>1, <2>5
<1>. QED
  BY <1>1, GroupInvariance, PTL

\* message_key of any member that has the epoch's ratchet is the sender's key.
THEOREM ReceiversAgree == Spec => []MembersAgree
<1>1. GroupInv => MembersAgree
  BY DEF GroupInv, RatchetsOfMembers, MessagesBehind, MessageBehind, MembersAgree, message_key,
         derive_message_key
<1>. QED
  BY <1>1, GroupInvariance, PTL

\* A message is known by its sender, epoch and index.
LEMMA SlotNamesMessage ==
    ASSUME GroupInv, NEW m \in messages, NEW n \in messages,
           m.from = n.from, m.epoch = n.epoch, m.index = n.index
    PROVE  m = n
BY DEF GroupInv, MessagesBehind, MessageBehind, SenderKeysOnce

\* should_rekey holds every member to the bound in each epoch, so that all of
\* them stay within as many times the bound as the epoch has members.
THEOREM GroupWithinBudget == Spec => []GroupBudget
<1>1. GroupInv => GroupBudget
  <2>. SUFFICES ASSUME GroupInv, NEW e \in 0 .. epoch
                PROVE  Cardinality({m \in messages : m.epoch = e})
                         <= Cardinality(roster[e]) * DEFAULT_REKEY_MSG_BOUND
    BY DEF GroupBudget
  <2>. DEFINE Mine  == {m \in messages : m.epoch = e}
              Index == 0 .. DEFAULT_REKEY_MSG_BOUND - 1
              slot  == [m \in Mine |-> <<m.from, m.index>>]
  <2>1. IsFiniteSet(roster[e])
    <3>1. IsFiniteSet(Host)
      BY FS_Interval, HostAssumption DEF Host
    <3>2. roster[e] \in SUBSET Host
      BY DEF GroupInv, TypeOK
    <3>. QED
      BY <3>1, <3>2, FS_Subset
  <2>2. IsFiniteSet(Index) /\ Cardinality(Index) = DEFAULT_REKEY_MSG_BOUND
    <3>1. DEFAULT_REKEY_MSG_BOUND \in Nat
      BY RekeyDefaults
    <3>2. DEFAULT_REKEY_MSG_BOUND - 1 \in Int /\ 0 \in Int
      BY <3>1
    <3>3. IsFiniteSet(Index) /\ Cardinality(Index) = IF 0 > DEFAULT_REKEY_MSG_BOUND - 1 THEN 0
                                 ELSE (DEFAULT_REKEY_MSG_BOUND - 1) - 0 + 1
      BY <3>2, FS_Interval
    <3>. QED
      BY <3>1, <3>3
  <2>3. /\ IsFiniteSet(roster[e] \X Index)
        /\ Cardinality(roster[e] \X Index) = Cardinality(roster[e]) * DEFAULT_REKEY_MSG_BOUND
    BY <2>1, <2>2, FS_Product
  <2>4. \A m \in Mine : slot[m] \in roster[e] \X Index
    <3>. SUFFICES ASSUME NEW m \in Mine PROVE m.from \in roster[e] /\ m.index \in Index
      OBVIOUS
    <3>1. m.from \in Host /\ m.index \in Nat /\ MessageBehind(m)
      BY DEF GroupInv, TypeOK, MessagesBehind
    <3>. QED
      BY <3>1, RekeyDefaults DEF MessageBehind, GroupInv, RatchetsOfMembers
  <2>5. slot \in Injection(Mine, roster[e] \X Index)
    <3>1. \A a, b \in Mine : slot[a] = slot[b] => a = b
      <4>. SUFFICES ASSUME NEW a \in Mine, NEW b \in Mine, slot[a] = slot[b] PROVE a = b
        OBVIOUS
      <4>1. a.from = b.from /\ a.index = b.index /\ a.epoch = b.epoch
        OBVIOUS
      <4>. QED
        BY <4>1, SlotNamesMessage
    <3>2. slot \in [Mine -> roster[e] \X Index]
      BY <2>4
    <3>. QED
      BY <3>1, <3>2 DEF Injection, IsInjective
  <2>. HIDE DEF Mine, slot, Index
  <2>6. Cardinality(Mine) <= Cardinality(roster[e] \X Index)
    BY <2>3, <2>5, FS_Injection
  <2>. QED
    BY <2>3, <2>6 DEF Mine
<1>. QED
  BY <1>1, GroupInvariance, PTL
=============================================================================
