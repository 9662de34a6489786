------------------------------ MODULE MCPipeline -----------------------------
(***************************************************************************)
(* The packets of a small instance of Pipeline.  Host A has three SAs with *)
(* B: one in which B chooses a weak suite (s1), one whose proposal cannot  *)
(* be read (s2), one that is strong (s3); and two IKEv1 SAs with C, one in *)
(* Main (s4) and one in Aggressive Mode (s5).  ESP flows between A and B,  *)
(* from N, which is A behind NAT, and from A to D; and B's first request   *)
(* in s1, which has id 0 too, goes to N, where A may have moved by then.   *)
(***************************************************************************)
EXTENDS StoredAnalysis

CONSTANTS A, B, C, D, N, s1, s2, s3, s4, s5, r

\* 25 seconds from packet to packet.
MCSecond(n) == 25 * n
MCPublic == {N, B}

Packet0(src, dst, proto) ==
    [ip |-> "IPv4", src |-> src, dst |-> dst, proto |-> proto, ports |-> {}, bytes |-> 60,
     marker |-> FALSE, spi |-> None, seq |-> None, msg |-> Malformed]

EspPacket(src, dst, spi, seq) == [Packet0(src, dst, "ESP") EXCEPT !.spi = spi, !.seq = seq]

IkePacket(src, dst, port, msg) ==
    [Packet0(src, dst, "UDP") EXCEPT !.ports = {port}, !.marker = (port = 4500), !.msg = msg]

Message(version, spi, answer, exchange, id, payloads) ==
    [initiator_spi |-> spi, responder_spi |-> IF answer \/ id > 0 THEN r ELSE ZeroSpi,
     version |-> version, exchange |-> exchange, is_response |-> answer, message_id |-> id,
     payloads |-> payloads]

Transform(type, id, bits) == [type |-> type, id |-> id, key_length |-> bits]
Offer(protocol, transforms) ==
    [type |-> "SA", proposals |-> <<[protocol_id |-> protocol, transforms |-> transforms]>>]

Strong == Offer("IKE", <<Transform("ENCR", 20, 256), Transform("PRF", 5, None),
                         Transform("DH", 19, None)>>)
Weak == Offer("IKE", <<Transform("ENCR", 3, None), Transform("INTEG", 2, None),
                       Transform("PRF", 2, None), Transform("DH", 2, None)>>)
Child == Offer("ESP", <<Transform("ENCR", 20, 256)>>)
Ke(group) == [type |-> "KE", dh_group |-> group]
Auth(method) == [type |-> "AUTH", auth_method |-> method]
Sk(inner) == [type |-> "SK", inner |-> inner]
Dpd == [type |-> "VENDOR_ID", vendor |-> None, dpd |-> TRUE]

V1Attrs == [encryption |-> 5, key_length |-> None, hash |-> 2, auth_method |-> 1,
            group_desc |-> 2, life_type |-> 1, life_duration |-> 90000,
            auth_alg |-> 2, encap_mode |-> 1]
V1Sa(id) == [type |-> "SA", transform |-> [protocol |-> 1, id |-> id, attrs |-> V1Attrs]]

V2(spi, answer, exchange, id, payloads) == Message("IKEv2", spi, answer, exchange, id, payloads)
V1M(spi, exchange, id, payloads) == Message("IKEv1", spi, FALSE, exchange, id, payloads)

MCAlphabet ==
    { IkePacket(A, B, 500, V2(s1, FALSE, "IKE_SA_INIT", 0, <<Strong, Ke(19)>>)),
      IkePacket(B, A, 500, V2(s1, TRUE, "IKE_SA_INIT", 0, <<Weak, Ke(2)>>)),
      IkePacket(A, B, 4500, V2(s1, FALSE, "IKE_AUTH", 1, <<Sk(<<Auth(2), Child>>)>>)),
      IkePacket(B, A, 4500, V2(s1, TRUE, "IKE_AUTH", 1, <<Sk(None)>>)),
      IkePacket(A, B, 4500, V2(s1, FALSE, "IKE_AUTH", 1, <<Sk(<<Auth(13)>>)>>)),
      IkePacket(B, A, 4500, V2(s1, TRUE, "CREATE_CHILD_SA", 2, <<Sk(<<Child, Ke(19)>>)>>)),
      IkePacket(A, B, 500, V2(s2, FALSE, "IKE_SA_INIT", 0, <<Ke(14)>>)),
      IkePacket(A, B, 500, V2(s3, FALSE, "IKE_SA_INIT", 0, <<Strong, Ke(19)>>)),
      IkePacket(A, C, 500, V1M(s4, "IDENTITY_PROTECTION", 0, <<V1Sa(1), Dpd>>)),
      IkePacket(A, C, 500, V1M(s4, "QUICK", 7, <<V1Sa(20)>>)),
      IkePacket(A, C, 500, V1M(s5, "AGGRESSIVE", 0, <<V1Sa(1), [type |-> "ID"]>>)),
      IkePacket(B, N, 4500, [V2(s1, FALSE, "INFORMATIONAL", 0, <<>>) EXCEPT !.responder_spi = r]),
      EspPacket(A, B, 7, 1), EspPacket(N, B, 9, 1), EspPacket(A, D, 7, 1),
      [EspPacket(A, B, 7, 1) EXCEPT !.bytes = 6] }

\* The hypothesis of two theorems holds of the instance that is checked.
ASSUME AlphabetIsUsual == QuickModeIsNumbered

\* The guess at a suite is good for one message, and too weak for several.
MCPredictIke(messages) ==
    [encryption |-> "3DES-CBC", dh_group |-> "MODP1024",
     confidence |-> IF Len(messages) = 1 THEN 70 ELSE 40]
MCPredictMode(flow, ip, encryption) ==
    [mode |-> "tunnel", confidence |-> IF Len(flow) > 1 \/ encryption = "unknown" THEN 90 ELSE 50]
MCPredictTraffic(flow) ==
    [predicted_type |-> "Web", confidence |-> IF Len(flow) > 1 THEN 85 ELSE 55,
     abstained |-> Len(flow) <= 1]
-----------------------------------------------------------------------------
(* What an operator pastes: the SA of s1, which was keyed with PFS; the      *)
(* connection from A to B, which another file configures differently; the   *)
(* kernel's SAs; and two of these at once.                                  *)

Paste(sas, conns, conf, xfrm) ==
    [list_sas |-> sas, list_conns |-> conns, conf |-> conf, xfrm |-> xfrm]
Line(key, value) == [key |-> key, value |-> value]
XfrmSa(src, dst, window) == [src |-> src, dst |-> dst, mode |-> "tunnel", window |-> window]

MCListSas ==
    <<[spi |-> s1, version |-> "IKEv2", local |-> A, remote |-> B,
       children |-> <<[mode |-> "transport", dh |-> TRUE]>>]>>
MCListConns ==
    <<[version |-> "IKEv2", local |-> A, remote |-> B,
       remotes |-> <<[auth |-> "PSK"]>>, children |-> <<[mode |-> "tunnel"]>>]>>
MCConf ==
    <<Line("local_addrs", A), Line("version", "IKEv2"), Line("remote_addrs", B),
      Line("auth", "psk"), Line("auth", "eap"), Line("children", None),
      Line("esp_proposals", <<FALSE>>), Line("local_addrs", A), Line("remote_addrs", C),
      Line("version", "IKEv2"), Line("auth", "psk"), Line("mode", "transport")>>
MCXfrm == <<XfrmSa(A, B, 0), XfrmSa(B, A, 32), XfrmSa(A, D, 0), XfrmSa(D, A, 0)>>

MCTexts ==
    { Paste(MCListSas, <<>>, <<>>, <<>>), Paste(<<>>, MCListConns, <<>>, MCXfrm),
      Paste(<<>>, <<>>, MCConf, <<>>), Paste(MCListSas, <<>>, MCConf, <<>>),
      Paste(<<>>, <<>>, <<>>, <<>>) }
=============================================================================
