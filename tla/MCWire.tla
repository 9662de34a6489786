------------------------------- MODULE MCWire -------------------------------
(***************************************************************************)
(* The messages of a small instance of Wire, and how their sender writes   *)
(* them: an encoder to read the decoder against.                           *)
(***************************************************************************)
EXTENDS Wire

Two(n) == <<n \div 256, n % 256>>
Concat(seqs) == FlattenSeq(seqs)

\* A list of elements, each with its own header: more is 0 after the last.
Listed(elements, more, Write(_, _)) ==
    Concat([k \in 1..Len(elements) |-> Write(elements[k], IF k = Len(elements) THEN 0 ELSE more)])

\* <<type, value>> in place, or <<type, bytes>> after a length.
TV(type, value) == <<128>> \o <<type>> \o Two(value)
TLV(type, bytes) == <<0, type>> \o Two(Len(bytes)) \o bytes

T(type, n, id, bits) ==
    [says |-> [type |-> type, id |-> id, key_length |-> bits], n |-> n,
     attrs |-> IF bits = None THEN <<>> ELSE TV(14, bits)]
WriteT(t, more) ==
    <<more, 0>> \o Two(8 + Len(t.attrs)) \o <<t.n, 0>> \o Two(t.says.id) \o t.attrs

P(protocol, n, spi, transforms) ==
    [says |-> [protocol_id |-> protocol, transforms |-> [k \in DOMAIN transforms |-> transforms[k].says]],
     n |-> n, spi |-> spi, transforms |-> transforms]
WriteP(p, more) ==
    LET list == Listed(p.transforms, 3, WriteT)
    IN  <<more, 0>> \o Two(8 + Len(p.spi) + Len(list))
        \o <<1, p.n, Len(p.spi), Len(p.transforms)>> \o p.spi \o list

\* A payload: its number and what is to be read of it.
Payload(n, type, raw) ==
    [n |-> n, says |-> [type |-> type, raw |-> raw, proposals |-> <<>>, dh_group |-> None,
                        notify_type |-> None, auth_method |-> None, inner |-> None,
                        transform |-> Malformed]]

Sa(ps) ==
    LET p0 == Payload(33, "SA", Listed(ps, 2, WriteP))
    IN  [p0 EXCEPT !.says.proposals = [k \in DOMAIN ps |-> ps[k].says]]
Ke(group) == [Payload(34, "KE", Two(group) \o <<0, 0>>) EXCEPT !.says.dh_group = group]
Notify(type) == [Payload(41, "NOTIFY", <<0, 0>> \o Two(type)) EXCEPT !.says.notify_type = type]
Auth(method) == [Payload(39, "AUTH", <<method, 0, 0, 0, 7>>) EXCEPT !.says.auth_method = method]

\* next is the type announced after the last.
Chain(payloads, next) ==
    Concat([k \in 1..Len(payloads) |->
              LET raw == payloads[k].says.raw
              IN  <<IF k = Len(payloads) THEN next ELSE payloads[k + 1].n, 0>>
                  \o Two(4 + Len(raw)) \o raw])

Says(payloads) == [k \in DOMAIN payloads |-> payloads[k].says]

\* Inner payloads, readable; and bytes that are not.
Sk(inner) == [Payload(46, "SK", Chain(inner, 0)) EXCEPT !.says.inner = Says(inner)]
Opaque == Payload(46, "SK", <<39, 4, 0, 9, 0, 8, 0, 0>>)

V1Attrs == TV(1, 7) \o TV(14, 128) \o TV(2, 2) \o TV(4, 14) \o TV(11, 1) \o TLV(12, <<112, 128>>)
V1Sa ==
    LET t == <<0, 0>> \o Two(8 + Len(V1Attrs)) \o <<1, 1, 0, 0>> \o V1Attrs
        raw == <<0, 0, 0, 1, 0, 0, 0, 1, 0, 0>> \o Two(8 + Len(t)) \o <<1, 1, 0, 1>> \o t
    IN  [Payload(1, "SA", raw) EXCEPT
           !.says.transform =
             [protocol |-> 1, id |-> 1,
              attrs |-> [encryption |-> 7, hash |-> 2, auth_method |-> None, group_desc |-> 14,
                         life_type |-> 1, life_duration |-> 28800, key_length |-> 128]]]
V1Hash == Payload(8, "HASH", <<1, 2, 3, 4>>)

\* next is the type that the last payload announces: for SK, of what is inside.
Sent(version, encrypted, payloads, next) ==
    LET body == Chain(payloads, next)
    IN  [header |-> [version |-> version, encrypted |-> encrypted, next |-> payloads[1].n,
                     length |-> IKE_HEADER_LEN + Len(body)],
         body |-> body, says |-> Says(payloads)]

Gcm == T("ENCR", 1, 20, 256)
Offer == Sa(<<P("IKE", 1, <<>>, <<Gcm, T("PRF", 2, 5, None)>>),
              P("IKE", 1, <<>>, <<T("ENCR", 1, 12, 128), T("DH", 4, 14, None)>>)>>)
Child == Sa(<<P("ESP", 3, <<5, 6, 7, 8>>, <<Gcm>>)>>)

MCMessage ==
    { Sent("IKEv2", FALSE, <<Offer, Ke(14)>>, 0),
      Sent("IKEv2", FALSE, <<Ke(2), Notify(16391)>>, 0),
      Sent("IKEv2", FALSE, <<Sk(<<Auth(2), Child>>)>>, 39),
      Sent("IKEv2", FALSE, <<Sk(<<Notify(16391)>>)>>, 41),
      Sent("IKEv2", FALSE, <<Notify(16388), Opaque>>, 39),
      Sent("IKEv1", FALSE, <<V1Sa>>, 0),
      Sent("IKEv1", TRUE, <<V1Hash, V1Hash>>, 0),
      [Sent("IKEv1", TRUE, <<V1Hash>>, 9) EXCEPT !.says = <<>>] }

MCDamage == {0, 1, 3, 4, 5, 8, 12, 33, 40, 46, 128, 255}
=============================================================================
