-------------------------------- MODULE Wire --------------------------------
(***************************************************************************)
(* The bytes of an IKE message, decoded (core/ike_parser/_wire.py, and the *)
(* SA payload of IKEv1 from ikev1.py).  Messages come from captures: cut   *)
(* off, damaged, or encrypted; here one arrives byte by byte, so that each *)
(* of its prefixes is decoded, and one of its bytes may be another than    *)
(* its sender meant.                                                       *)
(*                                                                         *)
(* The 28 bytes of the header are one record; the body is a sequence of    *)
(* bytes.  An offset counts the bytes before it, as in the code.  What the *)
(* decoder makes of a payload is the record that Ikev2 and Ikev1 read.     *)
(***************************************************************************)
EXTENDS Naturals, Sequences, SequencesExt

CONSTANTS None,        \* Python's None
          Malformed,   \* WireFormatError
          Message,     \* the messages that are sent
          Damage       \* what a damaged byte may become

IKE_HEADER_LEN == 28

\* A message is its header, its body, and the payloads its sender made it of.
ASSUME WireAssumption ==
    /\ Damage \subseteq 0..255
    /\ \A m \in Message : /\ m = [header |-> m.header, body |-> m.body, says |-> m.says]
                          /\ m.body \in Seq(0..255) /\ m.header.next \in 0..255
                          /\ m.header.length = IKE_HEADER_LEN + Len(m.body)

Byte(data, at) == data[at + 1]
Word(data, at) == 256 * Byte(data, at) + Byte(data, at + 1)

\* data[from:to], which Python ends where the data ends.
Slice(data, from, to) == SubSeq(data, from + 1, Min({to, Len(data)}))

Prepend(x, rest) == IF x = Malformed \/ rest = Malformed THEN Malformed ELSE <<x>> \o rest

\* A number of more bytes than the model tells apart is as large as it gets.
Ceiling == 2^22
BigEndian(bytes) == FoldLeft(LAMBDA n, b : Min({Ceiling, 256 * n + b}), 0, bytes)
-----------------------------------------------------------------------------
(* Attributes, transforms, proposals *)

\* An attribute has its value in place of a length (TV), or after its length (TLV).
Attributes(blob) ==
    LET From[at \in Nat] ==
          IF at + 4 > Len(blob) THEN <<>>
          ELSE LET tv == Byte(blob, at) >= 128
                   n == Word(blob, at + 2)
               IN  <<[type |-> Word(blob, at) % 2^15, tv |-> tv,
                      value |-> IF tv THEN n ELSE BigEndian(Slice(blob, at + 4, at + 4 + n)),
                      size |-> IF tv THEN 2 ELSE Len(Slice(blob, at + 4, at + 4 + n))]>>
                   \o From[IF tv THEN at + 4 ELSE at + 4 + n]
    IN  From[0]

ValueAt(attrs, k) == IF k = 0 THEN None ELSE attrs[k].value

\* The last attribute of a type, as the later key of a dict wins.
Attribute(attrs, type) ==
    LET Is(a) == a.type = type IN ValueAt(attrs, SelectLastInSeq(attrs, Is))

\* IKEv2 keeps the attributes with a value in place, and of them reads the key length.
KeyLength(blob) == LET Tv(a) == a.tv IN Attribute(SelectSeq(Attributes(blob), Tv), 14)

TransformType(n) ==
    CASE n = 1 -> "ENCR" [] n = 2 -> "PRF" [] n = 3 -> "INTEG" [] n = 4 -> "DH"
      [] n \in 6..12 -> "ADDKE" [] OTHER -> "other"

\* Whether an element of a list whose header has size bytes stands whole before end.
Stands(data, at, end, size) ==
    Word(data, at + 2) >= size /\ at + Word(data, at + 2) <= end

\* The transforms of a proposal, to its end or to the one that says it is the last;
\* fewer bytes than a header are ignored.
TransformsOf(body, start, end) ==
    LET From[at \in Nat] ==
          LET len == Word(body, at + 2)
              t == [type |-> TransformType(Byte(body, at + 4)), id |-> Word(body, at + 6),
                    key_length |-> KeyLength(Slice(body, at + 8, at + len))]
          IN  CASE at + 8 > end -> <<>>
                [] at + 8 <= end /\ ~Stands(body, at, end, 8) -> Malformed
                [] OTHER -> Prepend(t, From[IF Byte(body, at) = 0 THEN end ELSE at + len])
    IN  From[start]

ProtocolId(n) == CASE n = 1 -> "IKE" [] n = 2 -> "AH" [] n = 3 -> "ESP" [] OTHER -> "other"

Proposal(protocol, transforms) ==
    IF transforms = Malformed THEN Malformed
    ELSE [protocol_id |-> ProtocolId(protocol), transforms |-> transforms]

\* The proposals of an SA payload, of which one that is malformed spoils all.
Proposals(body) ==
    LET From[at \in Nat] ==
          LET end == at + Word(body, at + 2)
              ts == TransformsOf(body, at + 8 + Byte(body, at + 6), end)
          IN  CASE at + 8 > Len(body) -> <<>>
                [] at + 8 <= Len(body) /\ ~Stands(body, at, Len(body), 8) -> Malformed
                [] OTHER -> Prepend(Proposal(Byte(body, at + 5), ts),
                                    From[IF Byte(body, at) = 0 THEN Len(body) ELSE end])
    IN  From[0]

\* IKEv1: the attributes by name; a value of more than eight bytes, or none, is left out.
V1Named(attrs) ==
    [encryption |-> Attribute(attrs, 1), hash |-> Attribute(attrs, 2),
     auth_method |-> Attribute(attrs, 3), group_desc |-> Attribute(attrs, 4),
     life_type |-> Attribute(attrs, 11), life_duration |-> Attribute(attrs, 12),
     key_length |-> Attribute(attrs, 14)]

V1Attributes(blob) ==
    LET Fits(a) == a.size \in 1..8 IN V1Named(SelectSeq(Attributes(blob), Fits))

\* The first transform of a proposal, without the header of either.
TransformV1(protocol, t) ==
    [protocol |-> protocol, id |-> Byte(t, 1), attrs |-> V1Attributes(Slice(t, 4, Len(t)))]

InProposalV1(prop, at) ==
    IF at + 8 > Len(prop) \/ ~Stands(prop, at, Len(prop), 8) THEN Malformed
    ELSE TransformV1(Byte(prop, 1), Slice(prop, at + 4, at + Word(prop, at + 2)))

\* The first proposal stands after eight bytes of DOI and situation.
FirstTransformV1(body) ==
    LET prop == Slice(body, 12, 8 + Word(body, 10))
    IN  IF Len(body) < 16 \/ ~Stands(body, 8, Len(body), 8) THEN Malformed
        ELSE InProposalV1(prop, 4 + Byte(prop, 2))
-----------------------------------------------------------------------------
(* Payloads *)

PayloadType(version, n) ==
    IF version = "IKEv1"
    THEN CASE n = 1 -> "SA" [] n = 4 -> "KE" [] n = 5 -> "ID" [] n = 8 -> "HASH" [] OTHER -> "other"
    ELSE CASE n = 33 -> "SA" [] n = 34 -> "KE" [] n \in {35, 36} -> "ID" [] n = 39 -> "AUTH"
           [] n = 40 -> "NONCE" [] n = 41 -> "NOTIFY" [] n = 46 -> "SK" [] OTHER -> "other"

SK == 46

\* A payload as framed, without a structured view.
Plain(version, n, raw) ==
    [type |-> PayloadType(version, n), raw |-> raw, proposals |-> <<>>, dh_group |-> None,
     notify_type |-> None, auth_method |-> None, inner |-> None,
     transform |-> IF version = "IKEv1" /\ n = 1 THEN FirstTransformV1(raw) ELSE Malformed]

\* The structured view of the types that have one; Malformed where its bytes do not parse.
WithProposals(p, proposals) ==
    IF proposals = Malformed THEN Malformed ELSE [p EXCEPT !.proposals = proposals]

Decorated(p, n, raw) ==
    CASE n = 33 -> WithProposals(p, Proposals(raw))
      [] n \in {34, 35, 36, 39, 41} /\ Len(raw) < 4 -> Malformed
      [] n = 34 /\ Len(raw) >= 4 -> [p EXCEPT !.dh_group = Word(raw, 0)]
      [] n = 39 /\ Len(raw) >= 4 -> [p EXCEPT !.auth_method = Byte(raw, 0)]
      [] n = 41 /\ Len(raw) >= 4 -> [p EXCEPT !.notify_type = Word(raw, 2)]
      [] OTHER -> p

Decorate(version, n, raw) == Decorated(Plain(version, n, raw), n, raw)

\* Mutant of Framed: a slice ends where the data ends, so the length needs no check.
FramedByHeader(data, at) == at + 4 <= Len(data) /\ Word(data, at + 2) >= 4

\* Whether the payload at an offset lies in the data.
Framed(data, at) == at + 4 <= Len(data) /\ Stands(data, at, Len(data), 4)

\* Its bytes after the header of four; and the place of the next one: the bytes before
\* it, and the type that the header announces for it.
Content(data, at) == Slice(data, at + 4, at + Word(data, at + 2))
After(data, at) == <<at + Word(data, at + 2), Byte(data, at)>>

\* Mutant of FrameChain: what is left after the last payload does not matter.
FrameChainLoose(version, data, first) ==
    LET From[p \in Nat \X Nat] ==
          LET at == p[1]
              n == p[2]
          IN  CASE n = 0 -> <<>>
                [] n # 0 /\ ~Framed(data, at) -> Malformed
                [] OTHER -> Prepend(Decorate(version, n, Content(data, at)), From[After(data, at)])
    IN  From[<<0, first>>]

\* A chain of payloads that may be ciphertext: it must frame and parse to its last byte.
FrameChain(version, data, first) ==
    LET From[p \in Nat \X Nat] ==
          LET at == p[1]
              n == p[2]
          IN  CASE n = 0 -> IF at = Len(data) THEN <<>> ELSE Malformed
                [] n # 0 /\ ~Framed(data, at) -> Malformed
                [] OTHER -> Prepend(Decorate(version, n, Content(data, at)), From[After(data, at)])
    IN  From[<<0, first>>]

Readable(x, otherwise) == IF x = Malformed THEN otherwise ELSE x

TryFrameChain(version, data, first) == Readable(FrameChain(version, data, first), None)

\* A payload that frames but does not parse is kept without its structured view.
Tolerated(version, n, raw) == Readable(Decorate(version, n, raw), Plain(version, n, raw))

\* The end of a chain that the capture, or a wrong length, cuts off.
Cut == [type |-> "cut"]

\* The payloads of a message up to the first that is not whole.  SK is always the
\* last: its next payload is the first one inside.
TopLevel(version, data, first) ==
    LET From[p \in Nat \X Nat] ==
          LET at == p[1]
              n == p[2]
              raw == Content(data, at)
          IN  CASE n = 0 -> <<>>
                [] n # 0 /\ ~Framed(data, at) -> <<Cut>>
                [] n = SK /\ Framed(data, at) ->
                     <<[Plain(version, n, raw) EXCEPT
                          !.inner = TryFrameChain(version, raw, Byte(data, at))]>>
                [] OTHER -> <<Tolerated(version, n, raw)>> \o From[After(data, at)]
    IN  From[<<0, first>>]

\* The decoded message, given the chain of its payloads, or None for ciphertext.
Decoded(h, kept, chain) ==
    LET cut == chain # None /\ chain # <<>> /\ Last(chain) = Cut
    IN  [version |-> h.version,
         payloads |-> IF chain = None THEN <<>> ELSE IF cut THEN Front(chain) ELSE chain,
         encrypted |-> chain = None,
         truncated |-> h.length > kept \/ cut]

\* What there is of a message after its first kept bytes.
decode_message(m, kept) ==
    LET body == SubSeq(m.body, 1, kept - IKE_HEADER_LEN)
        h == m.header
        locked == h.version = "IKEv1" /\ h.encrypted
    IN  IF kept < IKE_HEADER_LEN THEN Malformed
        ELSE Decoded(h, kept, IF locked THEN TryFrameChain(h.version, body, h.next)
                              ELSE TopLevel(h.version, body, h.next))
-----------------------------------------------------------------------------
VARIABLES message,   \* the message under way
          kept,      \* how many of its bytes the capture has
          damaged,   \* whether one of them is not what was sent
          decoded    \* what is made of them

vars == <<message, kept, damaged, decoded>>

Init == /\ message \in Message
        /\ kept = IKE_HEADER_LEN - 1
        /\ damaged = FALSE
        /\ decoded = decode_message(message, kept)

\* The capture keeps one byte more.
Keep == /\ kept < message.header.length
        /\ kept' = kept + 1
        /\ decoded' = decode_message(message, kept')
        /\ UNCHANGED <<message, damaged>>

\* Byte k of the body is not what was sent; at most one is.
Spoil(k, byte) ==
    /\ ~damaged /\ kept < IKE_HEADER_LEN
    /\ message.body[k] # byte
    /\ message' = [message EXCEPT !.body[k] = byte]
    /\ damaged' = TRUE
    /\ decoded' = decode_message(message', kept)
    /\ UNCHANGED kept

Next == Keep \/ \E k \in 1..Len(message.body), byte \in Damage : Spoil(k, byte)
Spec == Init /\ [][Next]_vars
-----------------------------------------------------------------------------
(* What a payload stands on, by its bytes alone *)

Size(p) == 4 + Len(p.raw)

\* The sum of the first k of some numbers.
SumTo(numbers, k) ==
    LET sum[j \in 0..Len(numbers)] == IF j = 0 THEN 0 ELSE sum[j - 1] + numbers[j]
    IN  sum[k]

\* The bytes that the first k payloads of a chain take.
End(payloads, k) == SumTo([j \in 1..Len(payloads) |-> Size(payloads[j])], k)

\* The bytes that proposals take at least, whatever is in their transforms.
Least(proposals) ==
    SumTo([j \in 1..Len(proposals) |-> 8 + 8 * Len(proposals[j].transforms)], Len(proposals))

\* The type that a chain announces for its payload k + 1.
Announced(payloads, data, first, k) ==
    IF k = 0 THEN first ELSE Byte(data, End(payloads, k - 1))

\* The payloads stand in the data one after the other, each under the type and the
\* length that their headers give.
Tiles(version, payloads, data, first) ==
    \A k \in 1..Len(payloads) :
        LET at == End(payloads, k - 1)
            p == payloads[k]
        IN  /\ at + Size(p) <= Len(data)
            /\ Word(data, at + 2) = Size(p)
            /\ p.raw = SubSeq(data, at + 5, at + Size(p))
            /\ p.type = PayloadType(version, Announced(payloads, data, first, k - 1))
            /\ Least(p.proposals) <= Len(p.raw)

\* They take it to its last byte, and announce no other.
Exactly(version, payloads, data, first) ==
    /\ Tiles(version, payloads, data, first)
    /\ End(payloads, Len(payloads)) = Len(data)
    /\ Announced(payloads, data, first, Len(payloads)) = 0

\* Whatever the bytes are, a payload stands on bytes of its own that the capture
\* has; and nothing is read from what may be ciphertext, in SK or under the
\* encryption flag of IKEv1, unless it is payloads to the last byte
\* (_frame_chain, decode_message).
NothingInvented ==
    decoded # Malformed =>
        LET h == message.header
            body == SubSeq(message.body, 1, kept - IKE_HEADER_LEN)
            ps == decoded.payloads
        IN  /\ h.version = "IKEv1" /\ h.encrypted /\ ps # <<>> => Exactly(h.version, ps, body, h.next)
            /\ Tiles(h.version, ps, body, h.next)
            /\ \A k \in 1..Len(ps) : ps[k].inner # None =>
                 /\ k = Len(ps)
                 /\ Exactly(h.version, ps[k].inner, ps[k].raw, Byte(body, End(ps, k - 1)))

\* An undamaged message reads as what its sender made it of: all of it, or the
\* payloads that are whole where the capture cut it off, and then it says so.  One
\* that is encrypted reads whole or not at all (decode_message).
ReadsBack ==
    decoded # Malformed /\ ~damaged =>
        LET says == message.says
            length == message.header.length
            here == kept - IKE_HEADER_LEN
            whole == Max({k \in 0..Len(says) : End(says, k) <= here})
            locked == message.header.version = "IKEv1" /\ message.header.encrypted
        IN  /\ decoded.payloads = IF locked /\ kept < length THEN <<>> ELSE SubSeq(says, 1, whole)
            /\ decoded.truncated <=> kept < length
=============================================================================
