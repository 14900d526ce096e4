------------------------------ MODULE Handshake -------------------------------
(***************************************************************************)
(* The server's side of the RTMP handshake with digests                    *)
(* (rtmp_handshake.hpp): C1 is searched for a digest in two layouts, S1 is *)
(* put together from the parts of C1, and C2 is waited for.                *)
(*                                                                         *)
(* Lengths are constants, so that the offsets are explored on short        *)
(* messages.  A byte is a cell <<value>>; the bytes of a hash or of a      *)
(* shared key are opaque cells that say what they were computed from, and  *)
(* count as 1 when they are read as an offset.                             *)
(***************************************************************************)
EXTENDS Naturals, Sequences

CONSTANTS
    PartLen,     \* 764: the length of the key part and of the digest part
    KeyLen,      \* 128
    DigestLen,   \* 32
    OffsetLen,   \* 4
    Bytes        \* the values of the bytes a peer makes up

ASSUME LengthAssumption ==
    /\ {PartLen, KeyLen, DigestLen, OffsetLen} \subseteq Nat \ {0}
    /\ KeyLen + OffsetLen < PartLen
    /\ DigestLen + OffsetLen < PartLen
    /\ Bytes \subseteq Nat

C1Len == 2 + 2 * PartLen

VARIABLES
    peer,     \* the key and the digest the peer put in its C1, and the C1
    recv,     \* bytes in recv_buffer_
    phase,    \* server_phase_
    parsed,   \* c1s1_handle after parse_c1
    s1,       \* the S1 that was sent, empty before
    s2,       \* the digest of the S2 that was sent, empty before
    openssl   \* whether a call to OpenSSL failed for want of resources

vars == <<peer, recv, phase, parsed, s1, s2, openssl>>

-----------------------------------------------------------------------------
(* Cells.                                                                    *)

Value(cell) == IF Len(cell) = 1 THEN cell[1] ELSE 1

Repeat(b, n) == [i \in 1..n |-> <<b>>]

Opaque(name, of, n) == [i \in 1..n |-> <<name, of, i>>]

hmac_sha256(key, data) == Opaque(key, data, DigestLen)

Cut(s, from, n) == SubSeq(s, from + 1, from + n)

SumOf(cells) ==
    LET sum[i \in 0..Len(cells)] == IF i = 0 THEN 0 ELSE sum[i - 1] + Value(cells[i])
    IN  sum[Len(cells)]

calc_valid_key_offset(off) == SumOf(off) % (PartLen - KeyLen - OffsetLen)

calc_valid_digest_offset(off) == SumOf(off) % (PartLen - DigestLen - OffsetLen)

-----------------------------------------------------------------------------
(* The two parts.  A key part is random bytes, the key, random bytes and the *)
(* offset; a digest part is the offset, random bytes, the digest and random  *)
(* bytes.                                                                    *)

KeyPart(r0, key, r1, off) == r0 \o key \o r1 \o off

DigestPart(off, r0, digest, r1) == off \o r0 \o digest \o r1

(* Variant: the key is read one byte late.                                   *)
parse_key_late(d) ==
    LET off == Cut(d, PartLen - OffsetLen, OffsetLen)
        n   == calc_valid_key_offset(off)
    IN  [off |-> off, r0 |-> Cut(d, 0, n), key |-> Cut(d, n + 1, KeyLen),
         r1 |-> Cut(d, n + KeyLen, PartLen - n - KeyLen - OffsetLen)]

parse_key(d) ==
    LET off == Cut(d, PartLen - OffsetLen, OffsetLen)
        n   == calc_valid_key_offset(off)
    IN  [off |-> off, r0 |-> Cut(d, 0, n), key |-> Cut(d, n, KeyLen),
         r1 |-> Cut(d, n + KeyLen, PartLen - n - KeyLen - OffsetLen)]

parse_digest(d) ==
    LET off == Cut(d, 0, OffsetLen)
        n   == calc_valid_digest_offset(off)
    IN  [off |-> off, r0 |-> Cut(d, OffsetLen, n),
         digest |-> Cut(d, OffsetLen + n, DigestLen),
         r1 |-> Cut(d, OffsetLen + n + DigestLen, PartLen - OffsetLen - n - DigestLen)]

(* try_schema0 is the layout "key_first", try_schema1 "digest_first".        *)
KeyPartOf(layout, d) == Cut(d, IF layout = "key_first" THEN 2 ELSE 2 + PartLen, PartLen)

DigestPartOf(layout, d) == Cut(d, IF layout = "key_first" THEN 2 + PartLen ELSE 2, PartLen)

Parse(layout, d) == [key |-> parse_key(KeyPartOf(layout, d)),
                     digest |-> parse_digest(DigestPartOf(layout, d))]

(* check_digest_valid: the digest is that of everything around it.           *)
check_digest_valid(layout, d) ==
    LET dp    == parse_digest(DigestPartOf(layout, d))
        first == (IF layout = "key_first" THEN 2 + PartLen ELSE 2) + OffsetLen + Len(dp.r0)
    IN  dp.digest = hmac_sha256("player30", Cut(d, 0, first)
                        \o Cut(d, first + DigestLen, C1Len - first - DigestLen))

(* parse_c1: the layout with the digest first is tried first.  The name it   *)
(* stores is that of the other layout.                                       *)
parse_c1(d) ==
    CASE check_digest_valid("digest_first", d) ->
            [ok |-> TRUE, schema |-> "SCHEMA0", c1 |-> Parse("digest_first", d)]
      [] ~check_digest_valid("digest_first", d) /\ check_digest_valid("key_first", d) ->
            [ok |-> TRUE, schema |-> "SCHEMA1", c1 |-> Parse("key_first", d)]
      [] OTHER -> [ok |-> FALSE]

-----------------------------------------------------------------------------
(* S1 and S2.                                                                *)

(* DH_compute_key refuses a key that is not between 2 and the prime less 2;  *)
(* 0 stands for those.                                                       *)
DH_compute_key(key) == key # Repeat(0, KeyLen)

(* copy_shared_key: the key the server sends is the shared secret.           *)
SharedKey(key) == Opaque("dh", key, KeyLen)

(* make_s1_digest: over the key part of C1 and the digest part, in this order *)
(* whatever the layout.                                                      *)
make_s1_digest(head, k, g) ==
    hmac_sha256("player36", head \o KeyPart(k.r0, k.key, k.r1, k.off) \o g.off \o g.r0 \o g.r1)

make_key(k) == KeyPart(k.r0, SharedKey(k.key), k.r1, k.off)

(* Variant: the digest is put in front of the random bytes.                  *)
make_digest_early(g, digest) == DigestPart(g.off, <<>>, digest, g.r0 \o g.r1)

make_digest(g, digest) == DigestPart(g.off, g.r0, digest, g.r1)

(* make_s1: the time of C1 and the server's version, then the two parts.     *)
make_s1(c1, p) ==
    LET head   == <<c1[1], <<5>>>>
        digest == make_s1_digest(head, p.c1.key, p.c1.digest)
    IN  IF p.schema = "SCHEMA0"
        THEN head \o make_key(p.c1.key) \o make_digest(p.c1.digest, digest)
        ELSE head \o make_digest(p.c1.digest, digest) \o make_key(p.c1.key)

(* create_by_digest: S2 is signed with a key made from the digest of C1.     *)
create_by_digest(digest) == hmac_sha256(hmac_sha256("player68", digest), "random")

-----------------------------------------------------------------------------
(* Peers.  A genuine one puts the digest of the rest where its offset says;  *)
(* one with the plain handshake, as rtmp_client_handshake is, has none.      *)

Offsets == [1..OffsetLen -> {<<b>> : b \in Bytes}]

PeerKeys == {Repeat(7, KeyLen), Repeat(0, KeyLen)}

Genuine(layout, key, ko, do, fill) ==
    LET kn     == calc_valid_key_offset(ko)
        dn     == calc_valid_digest_offset(do)
        head   == <<<<0>>, <<9>>>>
        kp     == KeyPart(Repeat(fill, kn), key,
                          Repeat(fill, PartLen - kn - KeyLen - OffsetLen), ko)
        r0     == Repeat(fill, dn)
        r1     == Repeat(fill, PartLen - OffsetLen - dn - DigestLen)
        digest == hmac_sha256("player30", IF layout = "key_first"
                                          THEN head \o kp \o do \o r0 \o r1
                                          ELSE head \o do \o r0 \o r1 \o kp)
        dp     == DigestPart(do, r0, digest, r1)
    IN  [key |-> key, digest |-> digest,
         c1 |-> IF layout = "key_first" THEN head \o kp \o dp ELSE head \o dp \o kp]

Plain(b) == [key |-> <<>>, digest |-> <<>>, c1 |-> Repeat(b, C1Len)]

Peers == {Genuine(l, key, ko, do, fill) :
              l \in {"key_first", "digest_first"}, key \in PeerKeys,
              ko \in Offsets, do \in Offsets, fill \in Bytes}
         \cup {Plain(b) : b \in Bytes}

-----------------------------------------------------------------------------
Init ==
    /\ peer \in Peers
    /\ recv = 0 /\ phase = "initial"
    /\ parsed = [ok |-> FALSE] /\ s1 = <<>> /\ s2 = <<>>
    /\ openssl = "ok"

(* The answer goes out, unless the server can make no key pair (dh.init) or  *)
(* no secret from the key of C1: make_s1 fails then, the phase is that of C2 *)
(* but the error ends the session.                                           *)
send_s0s1s2(p) ==
    \/ /\ DH_compute_key(p.c1.key.key)
       /\ s1' = make_s1(peer.c1, p)
       /\ s2' = create_by_digest(p.c1.digest.digest)
       /\ phase' = "c2"
       /\ UNCHANGED openssl
    \/ /\ \/ openssl' = "failed"
          \/ ~DH_compute_key(p.c1.key.key) /\ UNCHANGED openssl
       /\ phase' = "closed"
       /\ UNCHANGED <<s1, s2>>

(* A read callback before the handshake: C0 and C1 are waited for and        *)
(* parsed; a C1 that is refused ends the session, else the answer goes out   *)
(* and the buffer is reset.                                                  *)
handle_c0c1 ==
    /\ phase = "initial"
    /\ \E n \in 1..(C1Len + 1 - recv) :
          IF recv + n < C1Len + 1
          THEN recv' = recv + n /\ UNCHANGED <<phase, parsed, s1, s2, openssl>>
          ELSE LET p == parse_c1(peer.c1) IN
               /\ parsed' = p
               /\ recv' = 0
               /\ \/ p.ok /\ send_s0s1s2(p)
                  \/ ~p.ok /\ phase' = "closed" /\ UNCHANGED <<s1, s2, openssl>>
    /\ UNCHANGED peer

(* handle_c2: C2 is waited for and not looked at.                            *)
handle_c2 ==
    /\ phase = "c2"
    /\ \E n \in 1..(C1Len - recv) :
          IF recv + n < C1Len THEN recv' = recv + n /\ UNCHANGED phase
                              ELSE recv' = 0 /\ phase' = "connect"
    /\ UNCHANGED <<peer, parsed, s1, s2, openssl>>

Next == handle_c0c1 \/ handle_c2

Spec == Init /\ [][Next]_vars

-----------------------------------------------------------------------------
(* Properties.                                                               *)

(* A C1 with a digest and a usable key is accepted, unless OpenSSL fails, and *)
(* one without is refused.                                                   *)
Acceptable(pr) == pr.digest # <<>> /\ DH_compute_key(pr.key)

C1Decides ==
    /\ phase \in {"c2", "connect"} => Acceptable(peer)
    /\ phase = "closed" => ~Acceptable(peer) \/ openssl = "failed"

(* The key and the digest the server goes on with are the peer's, and S2 is  *)
(* signed for that digest.                                                   *)
FieldsAreFound ==
    /\ parsed.ok => /\ parsed.c1.key.key = peer.key
                    /\ parsed.c1.digest.digest = peer.digest
    /\ phase \in {"c2", "connect"} => s2 = create_by_digest(peer.digest)

(* However the bytes arrive, wherever the offsets point and in whichever     *)
(* layout, the server accepts exactly the C1s with a digest and a key that   *)
(* Diffie-Hellman takes, and cuts the key and the digest it answers to where *)
(* the peer put them (parse_c1 and send_s0s1s2 after handle_c0c1).           *)
C1IsUnderstood == C1Decides /\ FieldsAreFound

(* A peer that reads S1 in the layout the server wrote finds the server's    *)
(* key and its digest where the offsets say, in a message of the length of   *)
(* C1 (make_key, make_digest).                                               *)
S1Parses ==
    s1 # <<>> =>
      LET p == Parse(IF parsed.schema = "SCHEMA0" THEN "key_first" ELSE "digest_first", s1)
      IN  /\ Len(s1) = C1Len
          /\ p.key.key = SharedKey(peer.key)
          /\ p.digest.digest = make_s1_digest(SubSeq(s1, 1, 2), parsed.c1.key, parsed.c1.digest)
=============================================================================
