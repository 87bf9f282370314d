----------------------------- MODULE TokenCodec -----------------------------
(***************************************************************************)
(* dm_session.rs: SealedDmFrame::to_token and from_token, the "pqdr1:"     *)
(* wire form of a frame, and a transport that alters tokens.  A token is   *)
(* its scheme prefix and the binary behind the base64, which is a          *)
(* bijection.  Bytes, the big-endian forms of u64 and u32 and the range of *)
(* usize are parameters: the code has Byte = 256, forms of 8 and 4 bytes,  *)
(* and a usize of 64 bits or, in a wasm32 build, 32 bits.                  *)
(***************************************************************************)
EXTENDS Integers, SequencesExt

CONSTANTS
    None,
    Byte,        \* values of a byte
    U64_LEN,     \* bytes of a u64
    U32_LEN,     \* bytes of a u32
    U64_RANGE,   \* values of a u64
    U32_RANGE,   \* values of a u32
    u64_bytes,   \* u64::to_be_bytes
    u32_bytes,   \* u32::to_be_bytes
    UsizeRange,  \* values of a usize
    Frames,      \* the frames that are sent
    MaxDamage    \* bound: alterations of one token

Bytes == Seq(0 .. Byte - 1)

\* SealedDmFrame.
Frame == [epoch : 0 .. U64_RANGE - 1, index : 0 .. U64_RANGE - 1,
          nonce : Bytes, body : Bytes, kam : {None} \cup Bytes]

ASSUME CodecAssumption ==
    /\ Byte \in Nat /\ Byte > 1 /\ U64_LEN \in Nat /\ U32_LEN \in Nat
    /\ U64_RANGE \in Nat /\ U32_RANGE \in Nat \ {0}
    /\ UsizeRange \in Nat /\ MaxDamage \in Nat /\ Frames \subseteq Frame

\* Every number of the type has one form, and every byte string of the type's
\* length is the form of a number.
ASSUME BigEndianAssumption ==
    /\ u64_bytes \in Bijection(0 .. U64_RANGE - 1, [1 .. U64_LEN -> 0 .. Byte - 1])
    /\ u32_bytes \in Bijection(0 .. U32_RANGE - 1, [1 .. U32_LEN -> 0 .. Byte - 1])

\* How from_token ends when it fails.
Failures == {"panic", "not a pqdr1: token", "truncated frame",
             "invalid kam presence flag", "trailing bytes"}

ASSUME NoneIsNoResult == None \notin Failures /\ None \notin Bytes

PQDR_SCHEME == "pqdr1:"

from_be_bytes(form, bytes) == CHOOSE n \in DOMAIN form : form[n] = bytes

\* (bytes.len() as u32).to_be_bytes(): higher bits are cut off.
len_bytes(bytes) == u32_bytes[Len(bytes) % U32_RANGE]

-----------------------------------------------------------------------------
(* to_token *)

\* Mutant: no presence flag, an absent KAM is written as an empty one.
KamBytesNoFlag(kam) ==
    LET bytes == IF kam = None THEN <<>> ELSE kam
    IN  <<1>> \o len_bytes(bytes) \o bytes

kam_bytes(kam) ==
    IF kam = None THEN <<0>> ELSE <<1>> \o len_bytes(kam) \o kam

to_token(f) ==
    [scheme |-> PQDR_SCHEME,
     blob   |-> u64_bytes[f.epoch] \o u64_bytes[f.index]
                  \o len_bytes(f.nonce) \o f.nonce
                  \o len_bytes(f.body) \o f.body
                  \o kam_bytes(f.kam)]

-----------------------------------------------------------------------------
(* from_token.  A cursor is the offset, the chunks taken and how it ended. *)

\* Mutant: the end of the chunk is not compared with the length of the blob.
TakeUnchecked(blob, c, n) ==
    IF c.end # None THEN c
    ELSE IF c.off + n > Len(blob) THEN [c EXCEPT !.end = "panic"]
    ELSE [off |-> c.off + n, out |-> Append(c.out, SubSeq(blob, c.off + 1, c.off + n)), end |-> None]

\* take!(n).  An off + n beyond usize panics: with overflow checks in the sum,
\* without them in the slice, whose wrapped end lies before its start.
take(blob, c, n) ==
    IF c.end # None THEN c
    ELSE IF c.off + n >= UsizeRange THEN [c EXCEPT !.end = "panic"]
    ELSE IF c.off + n > Len(blob) THEN [c EXCEPT !.end = "truncated frame"]
    ELSE [off |-> c.off + n, out |-> Append(c.out, SubSeq(blob, c.off + 1, c.off + n)), end |-> None]

\* take!(4) for a length, then take!(that length).
take_prefixed(blob, c) ==
    LET l == take(blob, c, U32_LEN)
    IN  IF l.end # None THEN l ELSE take(blob, l, from_be_bytes(u32_bytes, Last(l.out)))

\* Mutant: bytes after the frame are ignored.
FinishIgnoringRest(blob, c) == c

finish(blob, c) ==
    IF c.end = None /\ c.off # Len(blob) THEN [c EXCEPT !.end = "trailing bytes"] ELSE c

\* The KAM behind its flag.
take_kam(blob, c) ==
    LET f == take(blob, c, 1)
    IN  IF f.end # None \/ Last(f.out) = <<0>> THEN f
        ELSE IF Last(f.out) = <<1>> THEN take_prefixed(blob, f)
        ELSE [f EXCEPT !.end = "invalid kam presence flag"]

\* The chunks are epoch, index, nonce_len, nonce, body_len, body, flag and,
\* after a flag of 1, kam_len and kam.
from_token(token) ==
    LET blob  == token.blob
        start == [off |-> 0, out |-> <<>>,
                  end |-> IF token.scheme = PQDR_SCHEME THEN None ELSE "not a pqdr1: token"]
        slot  == take(blob, take(blob, start, U64_LEN), U64_LEN)
        sized == take_prefixed(blob, take_prefixed(blob, slot))
        c     == finish(blob, take_kam(blob, sized))
    IN  IF c.end # None
        THEN [end |-> c.end, frame |-> None]
        ELSE [end   |-> "Ok",
              frame |-> [epoch |-> from_be_bytes(u64_bytes, c.out[1]),
                         index |-> from_be_bytes(u64_bytes, c.out[2]),
                         nonce |-> c.out[4],
                         body  |-> c.out[6],
                         kam   |-> IF c.out[7] = <<0>> THEN None ELSE c.out[9]]]

-----------------------------------------------------------------------------
(* One token on its way. *)

VARIABLES
    sent,     \* the frame that was sent
    token,    \* its token as it is now
    damage,   \* alterations so far
    result    \* what from_token made of it, None before

vars == <<sent, token, damage, result>>

Init ==
    /\ sent \in Frames
    /\ token = to_token(sent)
    /\ damage = 0
    /\ result = None

\* The transport replaces, drops or adds a byte, or another scheme is read.
Alter ==
    /\ damage < MaxDamage
    /\ result = None
    /\ \/ \E i \in DOMAIN token.blob, b \in 0 .. Byte - 1 :
             token' = [token EXCEPT !.blob[i] = b]
       \/ token.blob # <<>> /\ token' = [token EXCEPT !.blob = Front(@)]
       \/ \E b \in 0 .. Byte - 1 : token' = [token EXCEPT !.blob = Append(@, b)]
       \/ token' = [token EXCEPT !.scheme = "pqdm1:"]
    /\ damage' = damage + 1
    /\ UNCHANGED <<sent, result>>

Parse ==
    /\ result = None
    /\ result' = from_token(token)
    /\ UNCHANGED <<sent, token, damage>>

Next == Alter \/ Parse

Spec == Init /\ [][Next]_vars

-----------------------------------------------------------------------------
(* The sizes the code counts on *)

\* f is small enough for its token: every field's length fits 32 bits, and the
\* token's bytes are counted by a usize.
Fits(f) ==
    /\ Len(f.nonce) < U32_RANGE
    /\ Len(f.body) < U32_RANGE
    /\ f.kam # None => Len(f.kam) < U32_RANGE
    /\ Len(to_token(f).blob) < UsizeRange

FramesFit == \A f \in Frames : Fits(f)

\* No sum of an offset in a blob of len bytes and the length of a chunk
\* leaves usize.
Wide(len) == len + U32_RANGE + U64_LEN + U32_LEN < UsizeRange

\* No frame grows, by the alterations of its token, to where an offset and a
\* length that is read leave usize: with 64 bits every blob in memory is that
\* short.
WideUsize ==
    \A f \in Frames : Wide(Len(to_token(f).blob) + MaxDamage)

-----------------------------------------------------------------------------
(* Properties *)

\* to_token: "the round-trip is exact - including the kam = None vs kam =
\* present distinction".  A token that is as it was sent parses to the frame.
RoundTripExact ==
    result # None /\ token = to_token(sent) => result = [end |-> "Ok", frame |-> sent]

\* from_token accepts only what to_token writes: whatever happened on the way,
\* the frame it returns is written as that very token, so no two tokens stand
\* for one frame and no byte is left out of account.
AcceptedIsCanonical ==
    result # None => (result.end = "Ok" => to_token(result.frame) = token)

\* from_token: "never a crash on bad input".
NeverCrashes == result # None => result.end # "panic"
=============================================================================
